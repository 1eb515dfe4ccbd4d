------------------------------ MODULE MCSettings -------------------------------
\* One tab, and others that save; half frames around the limits.
EXTENDS Settings

Rates == {1, 59, 121}

VP8 == [mimeType |-> "VP8", sdpFmtpLine |-> None]
VP9 == [mimeType |-> "VP9", sdpFmtpLine |-> "profile-id=0"]
VP9Best == [mimeType |-> "VP9", sdpFmtpLine |-> "profile-id=2"]

VP9High == [VP9 EXCEPT !.sdpFmtpLine = "profile-id=1"]

\* The browser does not have the best one, and does not send all it receives.
Browser == <<VP8, VP9, VP9High>>

Sent == {VP8, VP9}
=============================================================================
