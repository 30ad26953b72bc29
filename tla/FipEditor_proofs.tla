--------------------------- MODULE FipEditor_proofs ---------------------------
(***************************************************************************)
(* Proofs about the autosaving editor, for any number of FIPs, edits,      *)
(* outages, visibility changes and moves between FIPs.                     *)
(***************************************************************************)
EXTENDS FipEditor, FiniteSetTheorems, TLAPS

(* Every edit of the set was made on the FIP. *)
MadeOn(id, edits) == id \in Fips /\ \A e \in edits : [id |-> id, edit |-> e] \in made

(* A request under way, or what its response will bring *)
RequestOK(p) == DOMAIN p = {"id", "edits", "answer"} /\ MadeOn(p.id, p.edits)

OneSave ==
    /\ \A p, q \in saves : p = q
    /\ inFlight \in BOOLEAN /\ (inFlight <=> saves # {})

EditsAtHome ==
    /\ route \in Fips
    /\ DOMAIN server = Fips /\ server = [f \in Fips |-> server[f]]
    /\ \A f \in Fips : MadeOn(f, server[f])
    /\ fip # None => MadeOn(fip.id, fip.edits) /\ DOMAIN fip = {"id", "edits"}
    /\ \A p \in saves \cup sides : RequestOK(p)

(* A save the server has answered is what the database has; and unless one *)
(* is under way or still to come, so is what is shown.                     *)
ShownIsStored ==
    /\ dirty \in BOOLEAN /\ revived \in BOOLEAN
    /\ access = [f \in Fips |-> access[f]]
    /\ \A f \in Fips : access[f] \in Refusals \cup {None}
    /\ \A p \in saves : p.answer # None /\ p.answer = "ok" => server[p.id] = p.edits
    /\ ~inFlight /\ ~dirty /\ fip # None /\ ~revived => fip.edits \subseteq server[fip.id]

EInv == OneSave /\ EditsAtHome /\ ShownIsStored

-----------------------------------------------------------------------------
LEMMA Start ==
    ASSUME EInit
    PROVE  EInv
<1>1. OneSave
  BY DEF EInit, OneSave
<1>2. EditsAtHome
  BY EditorAssumption DEF EInit, EditsAtHome, MadeOn
<1>3. ShownIsStored
  BY EditorAssumption DEF EInit, ShownIsStored
<1>4. QED
  BY <1>1, <1>2, <1>3 DEF EInv

(* performSave, on an unchanged FIP *)
LEMMA PerformSaveKeeps ==
    ASSUME EInv, PerformSave, UNCHANGED <<fip, sides, server, access, history>>, route' \in Fips
    PROVE  EInv'
<1>1. CASE MaySave(fip, inFlight, dirty)
  <2>1. /\ saves = {} /\ saves' = {Patch(fip)} /\ dirty' = FALSE /\ inFlight' = TRUE
    BY <1>1 DEF PerformSave, MaySave, EInv, OneSave
  <2>2. Patch(fip) = [id |-> fip.id, edits |-> fip.edits, answer |-> None]
    BY DEF Patch
  <2>3. RequestOK(Patch(fip))
    BY <1>1, <2>2 DEF RequestOK, MaySave, EInv, EditsAtHome
  <2>4. OneSave'
    BY <2>1 DEF OneSave
  <2>5. EditsAtHome'
    BY <2>1, <2>3 DEF EInv, EditsAtHome, RequestOK, MadeOn, history
  <2>6. ShownIsStored'
    <3>1. \A p \in saves' : p.answer = None
      BY <2>1, <2>2
    <3>2. QED
      BY <2>1, <3>1 DEF EInv, ShownIsStored, history
  <2>7. QED
    BY <2>4, <2>5, <2>6 DEF EInv
<1>2. CASE ~MaySave(fip, inFlight, dirty)
  BY <1>2 DEF PerformSave, EInv, OneSave, EditsAtHome, ShownIsStored, RequestOK, MadeOn, history
<1>3. QED
  BY <1>1, <1>2

LEMMA EditKeeps ==
    ASSUME EInv, NEW e \in Edits, Edit(e)
    PROVE  EInv'
<1>1. /\ fip # None /\ fip' = [fip EXCEPT !.edits = @ \cup {e}]
      /\ made' = made \cup {[id |-> fip.id, edit |-> e]} /\ dirty' = TRUE
      /\ UNCHANGED <<route, inFlight, saves, sides, server, revived>>
  BY DEF Edit, canEdit, store, network, counters
<1>2. MadeOn(fip.id, fip.edits) /\ DOMAIN fip = {"id", "edits"}
  BY <1>1 DEF EInv, EditsAtHome
<1>3. /\ fip'.id = fip.id /\ fip'.edits = fip.edits \cup {e} /\ DOMAIN fip' = {"id", "edits"}
  BY <1>1, <1>2
<1>4. EditsAtHome'
  <2>1. \A id, edits : MadeOn(id, edits) => MadeOn(id, edits)'
    BY <1>1 DEF MadeOn
  <2>2. MadeOn(fip.id, fip.edits \cup {e})'
    BY <1>1, <1>2, <1>3 DEF MadeOn
  <2>3. QED
    BY <1>1, <1>3, <2>1, <2>2 DEF EInv, EditsAtHome, RequestOK, MadeOn
<1>5. OneSave'
  BY <1>1 DEF EInv, OneSave
<1>6. access' = access
  BY DEF Edit
<1>7. ShownIsStored'
  BY <1>1, <1>6 DEF EInv, ShownIsStored
<1>8. QED
  BY <1>4, <1>5, <1>7 DEF EInv

LEMMA HandleSaveKeeps ==
    ASSUME EInv, NEW p \in saves, HandleSave(p)
    PROVE  EInv'
<1> DEFINE handled == online /\ access[p.id] = None
           answer == IF ~online THEN "network" ELSE IF handled THEN "ok" ELSE access[p.id]
           q == [p EXCEPT !.answer = answer]
<1>1. /\ saves' = {q}
      /\ server' = IF handled THEN [server EXCEPT ![p.id] = p.edits] ELSE server
      /\ UNCHANGED <<route, fip, dirty, inFlight, sides, access, made, revived>>
  BY DEF HandleSave, EInv, OneSave, store, history
<1>2. RequestOK(p)
  BY DEF EInv, EditsAtHome
<1>3. q.id = p.id /\ q.edits = p.edits /\ q.answer = answer /\ RequestOK(q)
  BY <1>2 DEF RequestOK
<1>4. answer = "ok" => handled
  BY <1>2 DEF EInv, ShownIsStored, Refusals, RequestOK, MadeOn
<1>5. inFlight
  BY DEF EInv, OneSave
<1> HIDE DEF q, answer, handled
<1>6. OneSave'
  BY <1>1, <1>5 DEF OneSave, EInv
<1>7. EditsAtHome'
  BY <1>1, <1>2, <1>3 DEF EInv, EditsAtHome, RequestOK, MadeOn
<1>8. ShownIsStored'
  <2>1. handled => server'[p.id] = p.edits
    BY <1>1, <1>2 DEF EInv, EditsAtHome, RequestOK, MadeOn
  <2>2. \A s \in saves' : s.answer # None /\ s.answer = "ok" => server'[s.id] = s.edits
    BY <1>1, <1>3, <1>4, <2>1
  <2>3. QED
    BY <1>1, <1>5, <2>2 DEF EInv, ShownIsStored
<1>9. QED
  BY <1>6, <1>7, <1>8 DEF EInv

LEMMA HandleSideKeeps ==
    ASSUME EInv, NEW p \in sides, HandleSide(p)
    PROVE  EInv'
<1>1. PICK answer : sides' = (sides \ {p}) \cup
          {[p EXCEPT !.answer = answer, !.edits = server[p.id]]}
  BY DEF HandleSide
<1> DEFINE q == [p EXCEPT !.answer = answer, !.edits = server[p.id]]
<1>2. UNCHANGED <<route, fip, dirty, inFlight, saves, server, access, made, revived>>
  BY DEF HandleSide, store, history
<1>3. RequestOK(p) /\ MadeOn(p.id, server[p.id])
  BY DEF EInv, EditsAtHome, RequestOK, MadeOn
<1>4. q.id = p.id /\ q.edits = server[p.id] /\ DOMAIN q = {"id", "edits", "answer"}
  BY <1>3 DEF RequestOK
<1>5. RequestOK(q)
  BY <1>3, <1>4 DEF RequestOK
<1> HIDE DEF q
<1>6. EditsAtHome'
  BY <1>1, <1>2, <1>5 DEF EInv, EditsAtHome, RequestOK, MadeOn
<1>7. OneSave' /\ ShownIsStored'
  BY <1>2 DEF EInv, OneSave, ShownIsStored
<1>8. QED
  BY <1>6, <1>7 DEF EInv

LEMMA SaveSucceedsKeeps ==
    ASSUME EInv, NEW p \in saves, SaveSucceeds(p)
    PROVE  EInv'
<1>1. /\ fip' = [id |-> p.id, edits |-> p.edits]
      /\ p.answer # None /\ p.answer = "ok"
      /\ UNCHANGED <<route, sides, server, access, made, revived>>
  BY DEF SaveSucceeds, Received, Shown, history
<1>2. RequestOK(p) /\ server[p.id] = p.edits
  BY <1>1 DEF EInv, EditsAtHome, ShownIsStored
<1>3. CASE dirty
  <2>1. saves' = {[id |-> p.id, edits |-> p.edits, answer |-> None]} /\ inFlight' = TRUE
        /\ dirty' = FALSE
    BY <1>3 DEF SaveSucceeds, FollowUp, Patch, Shown, EInv, OneSave
  <2>2. OneSave'
    BY <2>1 DEF OneSave
  <2>3. EditsAtHome'
    BY <1>1, <1>2, <2>1 DEF EInv, EditsAtHome, RequestOK, MadeOn
  <2>4. \A s \in saves' : s.answer = None
    BY <2>1
  <2>5. ShownIsStored'
    BY <1>1, <2>1, <2>4 DEF EInv, ShownIsStored
  <2>6. QED
    BY <2>2, <2>3, <2>5 DEF EInv
<1>4. CASE ~dirty
  <2>1. saves' = {} /\ inFlight' = FALSE /\ dirty' = dirty
    BY <1>4 DEF SaveSucceeds, FollowUp, EInv, OneSave
  <2>2. OneSave'
    BY <2>1 DEF OneSave
  <2>3. EditsAtHome'
    BY <1>1, <1>2, <2>1 DEF EInv, EditsAtHome, RequestOK, MadeOn
  <2>4. ShownIsStored'
    BY <1>1, <1>2, <2>1 DEF EInv, ShownIsStored
  <2>5. QED
    BY <2>2, <2>3, <2>4 DEF EInv
<1>5. QED
  BY <1>3, <1>4

LEMMA SaveFailsKeeps ==
    ASSUME EInv, NEW p \in saves, SaveFails(p)
    PROVE  EInv'
<1>1. /\ saves' = {} /\ inFlight' = FALSE /\ dirty' = TRUE
      /\ UNCHANGED <<route, fip, sides, server, access, made, revived>>
  BY DEF SaveFails, EInv, OneSave, history
<1>2. OneSave'
  BY <1>1 DEF OneSave
<1>3. EditsAtHome'
  BY <1>1 DEF EInv, EditsAtHome, RequestOK, MadeOn
<1>4. ShownIsStored'
  BY <1>1 DEF EInv, ShownIsStored
<1>5. QED
  BY <1>2, <1>3, <1>4 DEF EInv

LEMMA ReceiveSideKeeps ==
    ASSUME EInv, NEW p \in sides, ReceiveSide(p)
    PROVE  EInv'
<1>1. /\ sides' = sides \ {p}
      /\ UNCHANGED <<route, dirty, inFlight, saves, server, access, made>>
  BY DEF ReceiveSide
<1>2. \/ fip' = fip /\ revived' = revived
      \/ /\ fip' = [id |-> p.id, edits |-> p.edits]
         /\ revived' \in BOOLEAN
         /\ revived' \/ p.edits \subseteq server[p.id]
  BY DEF ReceiveSide, Shown, EInv, ShownIsStored
<1>3. RequestOK(p)
  BY DEF EInv, EditsAtHome
<1>4. EditsAtHome'
  BY <1>1, <1>2, <1>3 DEF EInv, EditsAtHome, RequestOK, MadeOn
<1>5. OneSave'
  BY <1>1 DEF EInv, OneSave
<1>6. ShownIsStored'
  BY <1>1, <1>2 DEF EInv, ShownIsStored
<1>7. QED
  BY <1>4, <1>5, <1>6 DEF EInv

(* What the user, the timers and the network do besides *)
LEMMA StoreKept ==
    ASSUME EInv, UNCHANGED <<dirty, inFlight, saves, server, made, revived>>,
           route' \in Fips, fip' \in {fip, None},
           access' = [f \in Fips |-> access'[f]],
           \A f \in Fips : access'[f] \in Refusals \cup {None},
           \A p \in sides' : RequestOK(p)
    PROVE  EInv'
<1>1. OneSave'
  BY DEF EInv, OneSave
<1>2. EditsAtHome'
  BY DEF EInv, EditsAtHome, RequestOK, MadeOn
<1>3. ShownIsStored'
  BY DEF EInv, ShownIsStored
<1>4. QED
  BY <1>1, <1>2, <1>3 DEF EInv

LEMMA LoadKeeps ==
    ASSUME EInv, Load
    PROVE  EInv'
<1>1. /\ fip' = None /\ dirty' = FALSE
      /\ UNCHANGED <<route, inFlight, saves, sides, server, access, made, revived>>
  BY DEF Load, history
<1>2. OneSave'
  BY <1>1 DEF EInv, OneSave
<1>3. EditsAtHome'
  BY <1>1 DEF EInv, EditsAtHome, RequestOK, MadeOn
<1>4. ShownIsStored'
  BY <1>1 DEF EInv, ShownIsStored
<1>5. QED
  BY <1>2, <1>3, <1>4 DEF EInv

LEMMA LoadedKeeps ==
    ASSUME EInv, Loaded
    PROVE  EInv'
<1>1. /\ fip' = [id |-> route, edits |-> server[route]] \/ fip' = fip
      /\ UNCHANGED <<route, dirty, inFlight, saves, sides, server, access, made, revived>>
  BY DEF Loaded, history
<1>2. OneSave'
  BY <1>1 DEF EInv, OneSave
<1>3. EditsAtHome'
  BY <1>1 DEF EInv, EditsAtHome, RequestOK, MadeOn
<1>4. ShownIsStored'
  BY <1>1 DEF EInv, ShownIsStored
<1>5. QED
  BY <1>2, <1>3, <1>4 DEF EInv

LEMMA Step ==
    ASSUME EInv, [ENext]_evars
    PROVE  EInv'
<1>1. CASE Flush \/ Retry \/ DebounceFires \/ RetryFires
  BY <1>1, PerformSaveKeeps DEF Flush, Retry, DebounceFires, RetryFires, EInv, EditsAtHome
<1>2. ASSUME NEW f \in Fips, Navigate(f)
      PROVE  EInv'
  BY <1>2, PerformSaveKeeps DEF Navigate
<1>3. CASE SendSide
  <2>1. /\ sides' = sides \cup {[id |-> fip.id, answer |-> None, edits |-> {}]}
        /\ fip # None
        /\ UNCHANGED <<route, fip, dirty, inFlight, saves, server, access, made, revived>>
    BY <1>3 DEF SendSide, canEdit, store, history
  <2>2. RequestOK([id |-> fip.id, answer |-> None, edits |-> {}])
    BY <2>1 DEF RequestOK, EInv, EditsAtHome, MadeOn
  <2>3. \A p \in sides' : RequestOK(p)
    BY <2>1, <2>2 DEF EInv, EditsAtHome
  <2>4. QED
    BY <2>1, <2>3, StoreKept DEF EInv, EditsAtHome, ShownIsStored
<1>4. ASSUME NEW f \in Fips, NEW refusal \in Refusals, LoseAccess(f, refusal)
      PROVE  EInv'
  <2>1. /\ access' = [access EXCEPT ![f] = refusal]
        /\ UNCHANGED <<route, fip, dirty, inFlight, saves, sides, server, made, revived>>
    BY <1>4 DEF LoseAccess, store, history
  <2>2. /\ access' = [g \in Fips |-> access'[g]]
        /\ \A g \in Fips : access'[g] \in Refusals \cup {None}
    BY <2>1 DEF EInv, ShownIsStored
  <2>3. QED
    BY <2>1, <2>2, StoreKept DEF EInv, EditsAtHome
<1>5. CASE GoOffline \/ GoOnline \/ UNCHANGED evars
  <2>1. UNCHANGED <<route, fip, dirty, inFlight, saves, sides, server, access, made, revived>>
    BY <1>5 DEF GoOffline, GoOnline, evars, store, history
  <2>2. QED
    BY <2>1, StoreKept DEF EInv, EditsAtHome, ShownIsStored
<1>6. QED
  BY <1>1, <1>2, <1>3, <1>4, <1>5, EditKeeps, HandleSaveKeeps, SaveSucceedsKeeps, SaveFailsKeeps,
     HandleSideKeeps, ReceiveSideKeeps, LoadKeeps, LoadedKeeps DEF ENext

LEMMA Invariant == ESpec => []EInv
<1>1. EInit => EInv
  BY Start
<1>2. EInv /\ [ENext]_evars => EInv'
  BY Step
<1>3. QED
  BY <1>1, <1>2, PTL DEF ESpec

-----------------------------------------------------------------------------
(* The results *)

(* Whatever flushes, timers and moves between FIPs coincide, at most one    *)
(* autosave is under way, and the flag inFlight says whether there is one. *)
THEOREM AtMostOneSaveHolds == ESpec => []AtMostOneSave
<1>1. ASSUME OneSave
      PROVE  AtMostOneSave
  <2>1. CASE saves = {}
    BY <1>1, <2>1, FS_EmptySet DEF OneSave, AtMostOneSave
  <2>2. CASE saves # {}
    <3>1. PICK p \in saves : saves = {p}
      BY <1>1, <2>2 DEF OneSave
    <3>2. Cardinality(saves) = 1
      BY <3>1, FS_Singleton
    <3>3. QED
      BY <1>1, <3>2 DEF OneSave, AtMostOneSave
  <2>3. QED
    BY <2>1, <2>2
<1>2. EInv => AtMostOneSave
  BY <1>1 DEF EInv
<1>3. QED
  BY <1>2, Invariant, PTL

(* No response, however late, leads to an edit being saved into another FIP *)
(* than the one it was made on.                                            *)
THEOREM NoForeignEditsHolds == ESpec => []NoForeignEdits
<1>1. EInv => NoForeignEdits
  BY DEF EInv, EditsAtHome, MadeOn, NoForeignEdits
<1>2. QED
  BY <1>1, Invariant, PTL

(* "Saved" is true of what is on screen, for any sequence of outages, lost  *)
(* answers, moves and visibility changes, with the exemption it states.    *)
THEOREM SavedIsOnServerHolds == ESpec => []SavedIsOnServer
<1>1. EInv => SavedIsOnServer
  BY DEF EInv, ShownIsStored, SavedIsOnServer, saveState
<1>2. QED
  BY <1>1, Invariant, PTL
=============================================================================
