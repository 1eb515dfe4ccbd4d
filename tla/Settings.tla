------------------------------- MODULE Settings --------------------------------
(***************************************************************************)
(* The settings of a tab (settings.ts, SettingDialog.tsx, NumberField.tsx, *)
(* share and hostSession of useRoom.ts): kept in localStorage, where an    *)
(* older version or the user may have left anything that parses and other  *)
(* tabs write; read again by the dialog, by every share and by every       *)
(* session; shown by the room from a copy of its own.  Frame rates are     *)
(* counted in halves, as far as the input field and rounding tell them     *)
(* apart.                                                                  *)
(***************************************************************************)
EXTENDS Integers, Sequences, SequencesExt

CONSTANTS
    DisplayMode, ShareQuality,
    FitToWindow, Balanced,       \* the defaults of the two
    Sendable,                    \* the codecs the browser sends: the dialog offers them
    Native,                      \* those it receives, in its order: sessions sort them
    Best,                        \* VP9 with profile 2, whether it is among them or not
    CodecBestQuality, CodecDefault,
    FrameRate,                   \* halves that are typed, or found: bounds them
    Invalid,                     \* of another type, or no value the program knows
    None                         \* undefined, or absent

ASSUME DefaultsAssumption == FitToWindow \in DisplayMode /\ Balanced \in ShareQuality
ASSUME FrameRateAssumption == FrameRate \subseteq Int
ASSUME NativeAssumption == Native \in Seq(ToSet(Native))

VARIABLES
    stored,   \* what localStorage has: an object with or without its fields, or something else
    settings, \* the state of useSettings, while the tab is in a room
    input,    \* the state of the dialog, while it is open
    capture,  \* what getDisplayMedia was asked for
    session,  \* how the last session of a share was set up
    ours      \* whether this tab was the last to save

vars == <<stored, settings, input, capture, session, ours>>

minFrameRate == 2 * 1
maxFrameRate == 2 * 60
defaultFrameRate == 2 * 20

Codec == Sendable \cup {CodecBestQuality, CodecDefault}

\* What is no codec but is taken for one, such as a word.
Strange == [mimeType |-> None, sdpFmtpLine |-> None]

\* Nobody checks it.  Best stands for a codec the browser had when it was saved, too, and
\* Invalid for what JavaScript takes for false.
Preference == Codec \cup {Best, Strange, Invalid, None}

LoadedSettings == [displayMode : DisplayMode, framerate : minFrameRate .. maxFrameRate,
                   shareQuality : ShareQuality, preferCodec : Preference]

ASSUME PlaceholdersAssumption == {Invalid, None} \cap Int = {} /\ Invalid \notin LoadedSettings

Stored == [displayMode : DisplayMode \cup {Invalid, None},
           framerate : FrameRate \cup {Invalid, None},
           shareQuality : ShareQuality \cup {Invalid, None},
           preferCodec : Preference]

-----------------------------------------------------------------------------
\* settings.ts

\* Math.round
Rounded(halves) == 2 * ((halves + 1) \div 2)

normalizeFrameRate(value) ==
    IF value = Invalid THEN defaultFrameRate
    ELSE IF Rounded(value) < minFrameRate THEN minFrameRate
    ELSE IF Rounded(value) > maxFrameRate THEN maxFrameRate ELSE Rounded(value)

Known(value, values, default) == IF value \in values THEN value ELSE default

\* Something else than an object has the defaults, and those no codec.
loadSettings(item) ==
    IF item = Invalid
    THEN [displayMode |-> FitToWindow, framerate |-> defaultFrameRate,
          shareQuality |-> Balanced, preferCodec |-> None]
    ELSE [displayMode |-> Known(item.displayMode, DisplayMode, FitToWindow),
          framerate |-> IF item.framerate = None THEN defaultFrameRate
                        ELSE normalizeFrameRate(item.framerate),
          shareQuality |-> Known(item.shareQuality, ShareQuality, Balanced),
          preferCodec |-> IF item.preferCodec = None THEN CodecDefault ELSE item.preferCodec]

\* Mutant: a setting that came later is not kept.
SavesTheOldOnes(new) == stored' = [new EXCEPT !.shareQuality = None]

\* What is undefined is absent from the object.
saveSettings(new) == stored' = new

-----------------------------------------------------------------------------
\* The room and its dialog

Init ==
    /\ stored \in Stored \cup {Invalid}
    /\ settings = None /\ input = None
    /\ capture = None /\ session = None
    /\ ours = FALSE

EnterRoom ==
    /\ settings = None
    /\ settings' = loadSettings(stored)
    /\ UNCHANGED <<stored, input, capture, session, ours>>

\* The next room loads them again; until then none is there.
LeaveRoom ==
    /\ settings # None
    /\ settings' = None /\ input' = None /\ capture' = None /\ session' = None
    /\ ours' = FALSE
    /\ UNCHANGED stored

\* The dialog loads what is stored each time it is opened.
OpenDialog ==
    /\ settings # None /\ input = None
    /\ input' = loadSettings(stored)
    /\ UNCHANGED <<stored, settings, capture, session, ours>>

\* Codecs can be chosen if the browser tells which it has.
Choose ==
    /\ input # None
    /\ \/ \E codec \in Codec : Sendable # {} /\ input' = [input EXCEPT !.preferCodec = codec]
       \/ \E mode \in DisplayMode : input' = [input EXCEPT !.displayMode = mode]
       \/ \E quality \in ShareQuality : input' = [input EXCEPT !.shareQuality = quality]
    /\ UNCHANGED <<stored, settings, capture, session, ours>>

\* NumberField takes what is within its limits.
Type(rate) ==
    /\ input # None
    /\ minFrameRate <= rate /\ rate <= maxFrameRate
    /\ input' = [input EXCEPT !.framerate = rate]
    /\ UNCHANGED <<stored, settings, capture, session, ours>>

Cancel ==
    /\ input # None
    /\ input' = None
    /\ UNCHANGED <<stored, settings, capture, session, ours>>

\* doSubmit; updateName is Rooms!Name.
Save ==
    /\ input # None
    /\ settings' = input
    /\ saveSettings(input)
    /\ input' = None
    /\ ours' = TRUE
    /\ UNCHANGED <<capture, session>>

\* Another tab saves what it loaded, with one change; several make any other.
SavesElsewhere ==
    /\ LET loaded == loadSettings(stored)
       IN  stored' \in {[loaded EXCEPT !.displayMode = mode] : mode \in DisplayMode}
                    \cup {[loaded EXCEPT !.framerate = Rounded(rate)] :
                            rate \in FrameRate \cap minFrameRate .. maxFrameRate}
                    \cup {[loaded EXCEPT !.shareQuality = quality] : quality \in ShareQuality}
                    \cup {[loaded EXCEPT !.preferCodec = codec] : codec \in Codec}
    /\ ours' = FALSE
    /\ UNCHANGED <<settings, input, capture, session>>

-----------------------------------------------------------------------------
\* Shares

Share ==
    /\ settings # None
    /\ LET loaded == loadSettings(stored)
       IN  capture' = [framerate |-> loaded.framerate, shareQuality |-> loaded.shareQuality]
    /\ UNCHANGED <<stored, settings, input, session, ours>>

resolveCodecPlaceholder(codec) ==
    CASE codec = CodecBestQuality -> Best
      [] codec \in {CodecDefault, Invalid} -> None
      [] OTHER -> codec

\* The three lists once codec is pushed.
Push(lists, codec, prefer) ==
    IF codec.mimeType # prefer.mimeType THEN [lists EXCEPT !.others = Append(@, codec)]
    ELSE IF codec.sdpFmtpLine = prefer.sdpFmtpLine
         THEN [lists EXCEPT !.exactMatch = Append(@, codec)]
         ELSE [lists EXCEPT !.mimeMatch = Append(@, codec)]

\* The forEach over the codecs of the browser.
Matches(prefer) ==
    LET lists[n \in 0 .. Len(Native)] ==
            IF n = 0 THEN [exactMatch |-> <<>>, mimeMatch |-> <<>>, others |-> <<>>]
            ELSE Push(lists[n - 1], Native[n], prefer)
    IN  lists[Len(Native)]

\* Mutant: a browser without the codec is given none.
OnlyMatching(prefer) == Matches(prefer).exactMatch \o Matches(prefer).mimeMatch

sortedCodecs(prefer) ==
    LET lists == Matches(prefer)
    IN  lists.exactMatch \o lists.mimeMatch \o lists.others

\* hostSession loads them again: a viewer that comes later may get another quality than
\* the capture has.  Without a preference, or without setCodecPreferences, the browser
\* keeps its order.
HostSession ==
    /\ capture # None
    /\ LET loaded == loadSettings(stored)
       IN  \E prefer \in {resolveCodecPlaceholder(loaded.preferCodec), None} :
           session' = [shareQuality |-> loaded.shareQuality, prefer |-> prefer,
                       codecs |-> IF prefer = None THEN Native ELSE sortedCodecs(prefer)]
    /\ UNCHANGED <<stored, settings, input, capture, ours>>

-----------------------------------------------------------------------------

Next ==
    \/ EnterRoom \/ LeaveRoom
    \/ OpenDialog \/ Choose \/ Cancel \/ Save
    \/ \E rate \in FrameRate : Type(rate)
    \/ SavesElsewhere
    \/ Share \/ HostSession

Spec == Init /\ [][Next]_vars

-----------------------------------------------------------------------------
\* Properties

\* Whatever localStorage was left with, a room, its dialog and its shares work with modes
\* and qualities that exist and a frame rate from 1 to 60, which for a share is a whole
\* number (loadSettings, normalizeFrameRate, NumberField); and unless another tab has saved
\* since, what this tab saved and shows is what its next share and a reload get, except
\* that the rate is rounded (useSettings: state and storage are written and read apart).
SettingsAreUsed ==
    /\ settings # None => settings \in LoadedSettings
    /\ input # None => input \in LoadedSettings
    /\ capture # None => /\ capture.framerate \in minFrameRate .. maxFrameRate
                         /\ capture.framerate % 2 = 0
                         /\ capture.shareQuality \in ShareQuality
    /\ ours => loadSettings(stored) =
           [settings EXCEPT !.framerate = Rounded(@),
                            !.preferCodec = IF @ = None THEN CodecDefault ELSE @]

Rank(codec, prefer) ==
    IF prefer = None THEN 0
    ELSE IF codec.mimeType # prefer.mimeType THEN 2
    ELSE IF codec.sdpFmtpLine = prefer.sdpFmtpLine THEN 0 ELSE 1

\* codecs are those of the browser, each as often as there, by rank and then in its order.
Preferred(codecs, prefer) ==
    \E p \in Injection(DOMAIN Native, DOMAIN Native) :
        /\ codecs = [i \in DOMAIN Native |-> Native[p[i]]]
        /\ \A i, j \in DOMAIN Native : i < j =>
                LET first == Rank(Native[p[i]], prefer)
                    second == Rank(Native[p[j]], prefer)
                IN  first < second \/ (first = second /\ p[i] < p[j])

\* A session offers every codec of the browser, once, the preferred ones first and the
\* order of the browser otherwise, also when it has none of them (hostSession).
CodecsArePreferred == session # None => Preferred(session.codecs, session.prefer)
=============================================================================
