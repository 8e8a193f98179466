---------------------------- MODULE TextOverlays ----------------------------
(***************************************************************************)
(* The text panel over the image and the keys that open it (client build    *)
(* of gui/rtimvMainWindow.cpp): the help, the information page and the      *)
(* pages that plugins register share one panel.  Each page has a shortcut,  *)
(* looked up before the window's own shortcuts; its text comes from a       *)
(* provider that is asked again by the age timer, by requests of plugins    *)
(* (whole page or one line) and, for the information page of the client,    *)
(* by a timer of its own that also polls the server.                        *)
(*                                                                         *)
(* A text is a sequence of lines, a line is the page it is of and the       *)
(* version of the facts it was made from.                                  *)
(***************************************************************************)
EXTENDS Naturals, Sequences

CONSTANTS
    Keys,        \* keys pressed; "h" and "i" are the window's own pages
    Plugins,     \* plugins that may register a page
    Unused,      \* owner of a key without a page; also "no page is open"
    MaxLines,    \* lines of a page
    MaxVersion   \* changes of the facts

TextOverlaysAssumption ==
    /\ {"h", "i"} \subseteq Keys
    /\ Unused \notin Keys \cup Plugins \cup {"rtimv"}
    /\ MaxLines \in Nat \ {0} /\ MaxVersion \in Nat

VARIABLES
    tOwner,      \* m_textOverlays: source of the page of each key
    tActive,     \* m_activeTextOverlayKey
    tVisible,    \* helpText()->isVisible()
    tLines,      \* m_activeTextOverlayLines
    tText,       \* what helpText shows
    tPolling,    \* m_infoOverlayTimer runs
    tLength,     \* lines each provider returns now, 0 for an empty text
    tVersion     \* version of the facts

tvars == <<tOwner, tActive, tVisible, tLines, tText, tPolling, tLength,
           tVersion>>

Line == [page : Keys, version : 0..MaxVersion]
Texts == UNION {[1..n -> Line] : n \in 0..MaxLines}

(* The text a provider returns.                                            *)
TextOf(k) ==
    [n \in 1..tLength[k] |-> [page |-> k, version |-> tVersion]]

Registered(k) == tOwner[k] /= Unused

Init ==
    /\ tOwner = [k \in Keys |-> IF k \in {"h", "i"} THEN "rtimv" ELSE Unused]
    /\ tActive = Unused /\ tVisible = FALSE
    /\ tLines = <<>> /\ tText = <<>>
    /\ tPolling = FALSE
    /\ tLength \in [Keys -> {1}]
    /\ tVersion = 0

(* A plugin registers its page (loadPlugin, registerTextOverlay).  A key    *)
(* that has a page keeps it.                                               *)
RegisterTextOverlay(k, p) ==
    /\ ~Registered(k)
    /\ tOwner' = [tOwner EXCEPT ![k] = p]
    /\ UNCHANGED <<tActive, tVisible, tLines, tText, tPolling, tLength,
                   tVersion>>

(* Mutant of HideTextOverlay: the timer of the information page goes on.   *)
HideTextOverlayTicking ==
    /\ tVisible' = FALSE /\ tActive' = Unused /\ tLines' = <<>>
    /\ UNCHANGED <<tText, tPolling>>

HideTextOverlay ==
    /\ tPolling' = FALSE
    /\ tVisible' = FALSE /\ tActive' = Unused /\ tLines' = <<>>
    /\ UNCHANGED tText

(* A provider without a text leaves the panel as it was.                   *)
ShowTextOverlay(k) ==
    /\ Registered(k) /\ tLength[k] > 0
    /\ tVisible' = TRUE /\ tActive' = k /\ tPolling' = (k = "i")
    /\ tLines' = TextOf(k) /\ tText' = TextOf(k)

(* keyPressEvent: an unmodified key outside the text fields.  A key with a  *)
(* page toggles it; the window's own shortcuts and the plugins' handlers    *)
(* come after and leave the panel alone.                                   *)
KeyPress(k) ==
    /\ Registered(k)
    /\ IF tActive = k THEN HideTextOverlay ELSE ShowTextOverlay(k)
    /\ UNCHANGED <<tOwner, tLength, tVersion>>

(* refreshTextOverlay: nothing while another page is open, or when the      *)
(* provider has no text now.                                               *)
RefreshTextOverlay(k) ==
    /\ tActive = k /\ tVisible /\ Registered(k) /\ tLength[k] > 0
    /\ tLines' = TextOf(k) /\ tText' = TextOf(k)
    /\ UNCHANGED <<tActive, tVisible, tPolling>>

(* A plugin asks for one line of its page again.  A line the panel does     *)
(* not have, and one that the provider has no more, ask for the page.      *)
LineRefreshRequested(k, n) ==
    /\ k \notin {"h", "i"} /\ tActive = k /\ tVisible /\ Registered(k)
    /\ IF n \in DOMAIN tLines /\ n <= tLength[k]
       THEN /\ tLines' = [tLines EXCEPT ![n].version = tVersion]
            /\ tText' = tLines'
            /\ UNCHANGED <<tActive, tVisible, tPolling>>
       ELSE RefreshTextOverlay(k)
    /\ UNCHANGED <<tOwner, tLength, tVersion>>

RefreshRequested(k) ==
    /\ k \notin {"h", "i"}
    /\ RefreshTextOverlay(k)
    /\ UNCHANGED <<tOwner, tLength, tVersion>>

(* updateAge and updateNC: the open page is refreshed, except the           *)
(* information page, which has a timer of its own.                         *)
UpdateAge ==
    /\ tActive /= "i" /\ tActive /= Unused
    /\ RefreshTextOverlay(tActive)
    /\ UNCHANGED <<tOwner, tLength, tVersion>>

(* The one second timer of the information page: the page is made from      *)
(* what earlier polls brought.                                             *)
InfoTick ==
    /\ tPolling
    /\ RefreshTextOverlay("i")
    /\ UNCHANGED <<tOwner, tLength, tVersion>>

(* The facts behind a page change: its text has another length, which only  *)
(* plugins may make 0.                                                     *)
FactsChange(k, n) ==
    /\ tVersion < MaxVersion /\ k /= "h" /\ (n > 0 \/ k /= "i")
    /\ tLength' = [tLength EXCEPT ![k] = n] /\ tVersion' = tVersion + 1
    /\ UNCHANGED <<tOwner, tActive, tVisible, tLines, tText, tPolling>>

Next ==
    \/ \E k \in Keys, p \in Plugins : RegisterTextOverlay(k, p)
    \/ \E k \in Keys : KeyPress(k)
    \/ \E k \in Keys, n \in 1..MaxLines : LineRefreshRequested(k, n)
    \/ \E k \in Keys : RefreshRequested(k)
    \/ UpdateAge
    \/ InfoTick
    \/ \E k \in Keys, n \in 0..MaxLines : FactsChange(k, n)

Spec == Init /\ [][Next]_tvars

TypeOK ==
    /\ tOwner \in [Keys -> Plugins \cup {Unused, "rtimv"}]
    /\ tActive \in Keys \cup {Unused}
    /\ tVisible \in BOOLEAN /\ tPolling \in BOOLEAN
    /\ tLines \in Texts /\ tText \in Texts
    /\ tLength \in [Keys -> 0..MaxLines]
    /\ tVersion \in 0..MaxVersion

(* Safety: the panel is open exactly while a page is, what it shows is the  *)
(* text of that page and of no other, whichever page was switched from and  *)
(* whichever provider had nothing to say, and the timer that polls the      *)
(* server runs exactly while the information page is the one shown          *)
(* (hideTextOverlay, showTextOverlay, refreshTextOverlayLine).             *)
OverlayAgrees ==
    /\ tVisible <=> tActive /= Unused
    /\ tPolling <=> tActive = "i"
    /\ tVisible => /\ tText = tLines /\ tText /= <<>>
                   /\ \A n \in DOMAIN tText : tText[n].page = tActive

=============================================================================
