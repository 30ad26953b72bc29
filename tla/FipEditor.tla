------------------------------ MODULE FipEditor ------------------------------
(***************************************************************************)
(* The autosaving FIP editor: the Pinia store stores/fipEditor.ts of one   *)
(* browser tab, its timers, the requests it has under way, and the FIPs as *)
(* the server keeps them.  An edit is a model value, a FIP is its id and   *)
(* the set of edits in it, and a PATCH replaces that set as a whole.       *)
(*                                                                         *)
(* The store object survives navigation between FIPs.  A response handler  *)
(* runs to its next await without interruption, so each is one action.     *)
(*                                                                         *)
(* Left out: answers without a FER (they never leave the tab), the         *)
(* catalogue and the knowledge model, the page-hide request, and other     *)
(* writers of the FIP (FipRequests).                                       *)
(***************************************************************************)
EXTENDS Naturals, FiniteSets

CONSTANTS
    Fips,            \* the FIPs the tab may show
    Edits,           \* the edits the user makes, each at most once
    First,           \* the FIP the editor is opened on
    MaxOutages,      \* bound on the losses of the network connection
    MaxSides,        \* bound on the visibility changes and claims
    MaxNavigations,  \* bound on the moves from one FIP to another
    None

ASSUME EditorAssumption ==
    /\ First \in Fips /\ None \notin Fips
    /\ MaxOutages \in Nat /\ MaxSides \in Nat /\ MaxNavigations \in Nat

(* The length of RETRY_DELAYS_MS: from then on Retry is offered by hand. *)
Retries == 3

Refusals == {"forbidden", "session_closed", "invalid"}
Errors   == Refusals \cup {"network"}

VARIABLES
    route,          \* the FIP of the address bar
    fip,            \* the store's fip: [id, edits], or None while loading
    dirty, inFlight, lastError, retryAttempt, forcedReadOnly,
    debounce,       \* is debounceTimer set?
    retryTimer,     \* is it set?
    saves,          \* the autosave PATCHes under way
    sides,          \* the visibility PATCHes and claims under way
    arriving,       \* the navigation: None, "await" a flush, "ready" to load, "get"
    server,         \* the edits in each FIP, in the database
    access,         \* what the server answers a write to each: None, or a refusal
    online,         \* does the network work?
    made,           \* the edits made so far, with their FIP
    revived,        \* history: was an answer shown that the database had lost?
    outages, sidesSent, navigations  \* counters of the bounds

store    == <<fip, dirty, inFlight, lastError, retryAttempt, forcedReadOnly>>
timers   == <<debounce, retryTimer>>
network  == <<online, outages>>
counters == <<sidesSent, navigations>>
history  == <<made, revived>>
evars    == <<route, store, timers, saves, sides, arriving, server, access, network, history,
              counters>>

EInit ==
    /\ route = First /\ fip = [id |-> First, edits |-> {}]
    /\ dirty = FALSE /\ inFlight = FALSE /\ lastError = None
    /\ retryAttempt = 0 /\ forcedReadOnly = FALSE
    /\ debounce = FALSE /\ retryTimer = FALSE
    /\ saves = {} /\ sides = {} /\ arriving = None
    /\ server = [f \in Fips |-> {}] /\ access = [f \in Fips |-> None]
    /\ online = TRUE
    /\ made = {} /\ revived = FALSE /\ outages = 0 /\ sidesSent = 0 /\ navigations = 0

saveState ==
    IF lastError # None THEN "error"
    ELSE IF inFlight THEN "saving"
    ELSE IF dirty THEN "unsaved" ELSE "saved"

-----------------------------------------------------------------------------
(* performSave up to its await, on the store as it is now or is about to be  *)

(* Mutant: a save starts although one is in flight. *)
MaySaveTwice(shown, busy, isDirty) == shown # None /\ isDirty

MaySave(shown, busy, isDirty) == shown # None /\ ~busy /\ isDirty

(* Mutant: the PATCH goes to the FIP of the address bar. *)
PatchToRoute(shown) == [id |-> route, edits |-> shown.edits, answer |-> None]

Patch(shown) == [id |-> shown.id, edits |-> shown.edits, answer |-> None]

(* Mutant: inFlight is raised when the response arrives. *)
PerformSaveUnflagged ==
    IF MaySave(fip, inFlight, dirty)
    THEN saves' = saves \cup {Patch(fip)} /\ dirty' = FALSE /\ UNCHANGED inFlight
    ELSE UNCHANGED <<saves, dirty, inFlight>>

PerformSave ==
    IF MaySave(fip, inFlight, dirty)
    THEN saves' = saves \cup {Patch(fip)} /\ dirty' = FALSE /\ inFlight' = TRUE
    ELSE UNCHANGED <<saves, dirty, inFlight>>

-----------------------------------------------------------------------------
(* The user                                                                  *)

canEdit == fip # None /\ ~forcedReadOnly

Edit(e) ==
    /\ canEdit
    /\ \A m \in made : m.edit # e
    /\ fip' = [fip EXCEPT !.edits = @ \cup {e}]
    /\ made' = made \cup {[id |-> fip.id, edit |-> e]}
    /\ dirty' = TRUE /\ debounce' = TRUE
    /\ UNCHANGED <<route, inFlight, lastError, retryAttempt, forcedReadOnly, retryTimer, saves,
                   sides, arriving, server, access, network, revived, counters>>

(* flush(): a section is collapsed or a field left. *)
Flush ==
    /\ fip # None
    /\ debounce' = FALSE /\ retryTimer' = FALSE
    /\ PerformSave
    /\ UNCHANGED <<route, fip, lastError, retryAttempt, forcedReadOnly, sides, arriving, server,
                   access, network, history, counters>>

(* retry(): the button shown once the backoff schedule is spent. *)
Retry ==
    /\ lastError = "network" /\ retryAttempt >= Retries
    /\ retryTimer' = FALSE /\ retryAttempt' = 0 /\ lastError' = None
    /\ PerformSave
    /\ UNCHANGED <<route, fip, forcedReadOnly, debounce, sides, arriving, server, access, network,
                   history, counters>>

(* updateVisibility and claim: one PATCH or POST, no flag is raised. *)
SendSide ==
    /\ canEdit /\ sidesSent < MaxSides
    /\ sides' = sides \cup {[id |-> fip.id, answer |-> None, edits |-> {}]}
    /\ sidesSent' = sidesSent + 1
    /\ UNCHANGED <<route, store, timers, saves, arriving, server, access, network, history,
                   navigations>>

(* The watch on route.params.id: flush() is awaited if it starts a save and  *)
(* returns at once if one is in flight already.                              *)
Navigate(f) ==
    /\ f # route /\ arriving = None
    /\ navigations < MaxNavigations
    /\ navigations' = navigations + 1
    /\ route' = f
    /\ arriving' = IF MaySave(fip, inFlight, dirty) THEN "await" ELSE "ready"
    /\ debounce' = FALSE /\ retryTimer' = FALSE
    /\ PerformSave
    /\ UNCHANGED <<fip, lastError, retryAttempt, forcedReadOnly, sides, server, access, network,
                   history, sidesSent>>

(* load(): everything but inFlight and retryAttempt is reset, then the FIP   *)
(* is fetched.                                                               *)
Load ==
    /\ arriving = "ready"
    /\ arriving' = "get"
    /\ fip' = None /\ dirty' = FALSE /\ lastError' = None /\ forcedReadOnly' = FALSE
    /\ debounce' = FALSE /\ retryTimer' = FALSE
    /\ UNCHANGED <<route, inFlight, retryAttempt, saves, sides, server, access, network, history,
                   counters>>

Loaded ==
    /\ arriving = "get"
    /\ fip' = IF online THEN [id |-> route, edits |-> server[route]] ELSE fip
    /\ arriving' = None
    /\ UNCHANGED <<route, dirty, inFlight, lastError, retryAttempt, forcedReadOnly, timers, saves,
                   sides, server, access, network, history, counters>>

-----------------------------------------------------------------------------
(* Timers                                                                    *)

DebounceFires ==
    /\ debounce
    /\ debounce' = FALSE
    /\ PerformSave
    /\ UNCHANGED <<route, fip, lastError, retryAttempt, forcedReadOnly, retryTimer, sides,
                   arriving, server, access, network, history, counters>>

RetryFires ==
    /\ retryTimer
    /\ retryTimer' = FALSE
    /\ PerformSave
    /\ UNCHANGED <<route, fip, lastError, retryAttempt, forcedReadOnly, debounce, sides, arriving,
                   server, access, network, history, counters>>

-----------------------------------------------------------------------------
(* The server and the network: FipRequests is the detailed story             *)

HandleSave(p) ==
    /\ p \in saves /\ p.answer = None
    /\ LET handled == online /\ access[p.id] = None
           answer  == IF ~online THEN "network" ELSE IF handled THEN "ok"
                      ELSE access[p.id]
       IN  /\ saves' = (saves \ {p}) \cup {[p EXCEPT !.answer = answer]}
           /\ server' = IF handled THEN [server EXCEPT ![p.id] = p.edits] ELSE server
    /\ UNCHANGED <<route, store, timers, sides, arriving, access, network, history, counters>>

HandleSide(p) ==
    /\ p \in sides /\ p.answer = None
    /\ sides' = (sides \ {p}) \cup
          {[p EXCEPT !.answer = IF ~online THEN "network"
                                ELSE IF access[p.id] = None THEN "ok" ELSE access[p.id],
                     !.edits = server[p.id]]}
    /\ UNCHANGED <<route, store, timers, saves, arriving, server, access, network, history, counters>>

(* The session closes, the edit rights go to another device, or the FIP is   *)
(* deleted: of one FIP at most.                                              *)
LoseAccess(f, refusal) ==
    /\ \A g \in Fips : access[g] = None
    /\ access' = [access EXCEPT ![f] = refusal]
    /\ UNCHANGED <<route, store, timers, saves, sides, arriving, server, network, history, counters>>

GoOffline ==
    /\ online /\ outages < MaxOutages
    /\ online' = FALSE /\ outages' = outages + 1
    /\ UNCHANGED <<route, store, timers, saves, sides, arriving, server, access, history, counters>>

GoOnline ==
    /\ ~online /\ online' = TRUE
    /\ UNCHANGED <<route, store, timers, saves, sides, arriving, server, access, outages, history,
                   counters>>

(* What reaches the tab: an answer may be lost on its way back.              *)
Received(p) == IF online THEN p.answer ELSE "network"

(* The response replaces the FIP on screen, whichever that is by now.        *)
Shown(p) == [id |-> p.id, edits |-> p.edits]

AwaitEnds == arriving' = IF arriving = "await" THEN "ready" ELSE arriving

(* Mutant: the follow-up save is left to the debounce timer. *)
FollowUpByTimer(p) ==
    saves' = saves \ {p} /\ inFlight' = FALSE /\ UNCHANGED dirty

(* Edits made during the flight are saved at once, from the FIP on screen.   *)
FollowUp(p) ==
    IF dirty
    THEN saves' = (saves \ {p}) \cup {Patch(Shown(p))} /\ inFlight' = TRUE /\ dirty' = FALSE
    ELSE saves' = saves \ {p} /\ inFlight' = FALSE /\ UNCHANGED dirty

SaveSucceeds(p) ==
    /\ p \in saves /\ p.answer # None /\ Received(p) = "ok"
    /\ fip' = Shown(p)
    /\ lastError' = None /\ retryAttempt' = 0
    /\ FollowUp(p)
    /\ AwaitEnds
    /\ UNCHANGED <<route, forcedReadOnly, timers, sides, server, access, network, history, counters>>

SaveFails(p) ==
    /\ p \in saves /\ p.answer # None /\ Received(p) # "ok"
    /\ saves' = saves \ {p} /\ inFlight' = FALSE
    /\ dirty' = TRUE
    /\ lastError' = Received(p)
    /\ forcedReadOnly' = (forcedReadOnly \/ Received(p) \in {"forbidden", "session_closed"})
    /\ IF Received(p) = "network"
       THEN /\ retryTimer' = TRUE
            /\ retryAttempt' = IF retryAttempt < Retries THEN retryAttempt + 1 ELSE Retries
       ELSE UNCHANGED <<retryTimer, retryAttempt>>
    /\ AwaitEnds
    /\ UNCHANGED <<route, fip, debounce, sides, server, access, network, history, counters>>

ReceiveSide(p) ==
    /\ p \in sides /\ p.answer # None
    /\ sides' = sides \ {p}
    /\ fip' = IF Received(p) = "ok" THEN Shown(p) ELSE fip
    /\ revived' = (revived \/ (Received(p) = "ok" /\ ~(p.edits \subseteq server[p.id])))
    /\ UNCHANGED <<route, dirty, inFlight, lastError, retryAttempt, forcedReadOnly, timers, saves,
                   arriving, server, access, network, made, counters>>

-----------------------------------------------------------------------------
ENext ==
    \/ \E e \in Edits : Edit(e)
    \/ Flush \/ Retry \/ SendSide
    \/ \E f \in Fips : Navigate(f)
    \/ Load \/ Loaded
    \/ DebounceFires \/ RetryFires
    \/ \E p \in saves : HandleSave(p) \/ SaveSucceeds(p) \/ SaveFails(p)
    \/ \E p \in sides : HandleSide(p) \/ ReceiveSide(p)
    \/ \E f \in Fips, refusal \in Refusals : LoseAccess(f, refusal)
    \/ GoOffline \/ GoOnline

(* Timers fire, every request is answered or fails, an outage ends.  Nothing *)
(* is assumed of the user.                                                   *)
EFairness ==
    /\ WF_evars(DebounceFires) /\ WF_evars(RetryFires)
    /\ WF_evars(\E p \in saves : HandleSave(p))
    /\ WF_evars(\E p \in saves : SaveSucceeds(p) \/ SaveFails(p))
    /\ WF_evars(GoOnline)

ESpec == EInit /\ [][ENext]_evars /\ EFairness

-----------------------------------------------------------------------------
(* Properties *)

Marks == [id : Fips, edit : Edits]

(* spec 02, 2.3: at most one autosave is in flight, whatever flushes, timers *)
(* and navigations do: two whole-list PATCHes could overtake each other.     *)
AtMostOneSave == Cardinality(saves) <= 1 /\ (inFlight <=> saves # {})

(* An edit is never saved into another FIP than the one it was made on, also *)
(* when responses of the FIP the user has left arrive late.                  *)
NoForeignEdits == \A f \in Fips : \A e \in server[f] : [id |-> f, edit |-> e] \in made

(* While the indicator says "Saved", everything on screen is in the database *)
(* -- unless the answer of an early visibility change or claim was shown     *)
(* after a later save had taken what it brings back off the database.        *)
SavedIsOnServer ==
    saveState = "saved" /\ fip # None /\ ~revived => fip.edits \subseteq server[fip.id]

(* Unsaved changes are eventually saved or refused, whatever sequence of     *)
(* outages, flushes and retries: no timer is dropped without a successor.    *)
(* Navigation, which drops them on purpose, is excepted.                     *)
UnsavedIsSettled ==
    (dirty /\ navigations = 0) ~>
        (saveState = "saved" \/ lastError \in Refusals \/ navigations > 0)

-----------------------------------------------------------------------------
(* What the documents say and the code does not do; see README *)

(* spec 02, 2.3 and acceptance 12: edits made during a flight are coalesced, *)
(* no keystroke is lost.                                                     *)
NoEditLost ==
    \A m \in made :
        \/ m.edit \in server[m.id]
        \/ fip # None /\ fip.id = m.id /\ m.edit \in fip.edits
        \/ \E p \in saves : p.id = m.id /\ m.edit \in p.edits
=============================================================================
