------------------------ MODULE AccountSecurity_proofs ------------------------
(***************************************************************************)
(* Proofs about the account routes, for any number of accounts, links,     *)
(* requests and crashes.  First the mailed links: the server keeps the     *)
(* promise of EmailLinks and never has two live links of one purpose.      *)
(* Then what opens an account.                                             *)
(***************************************************************************)
EXTENDS AccountSecurity, FiniteSetTheorems, TLAPS

(* What is left of a plan: only a verification writes "verified", and a     *)
(* redemption takes effect right after its claim.                          *)
PlanOK(call, plan) ==
    /\ plan \in Seq(Commits) /\ Len(plan) >= 1
    /\ \A i \in 1..Len(plan) : plan[i] = "verified" => call = "verify"
    /\ plan[Len(plan)] # "password"
    /\ call \in {"confirm", "verify"} =>
           \A i \in 1..(Len(plan) - 1) :
               plan[i + 1] \in {"password", "verified"} => plan[i] = "claim"

RequestOK(rec) ==
    /\ DOMAIN rec = {"call", "user", "row", "cookie", "link", "plan", "doomed", "dead"}
    /\ rec.call \in Calls /\ rec.user \in Users
    /\ PlanOK(rec.call, rec.plan)
    /\ rec.call \in {"confirm", "verify"} => rec.link \in Links

(* The request has claimed its link and not yet done what it is for. *)
Owing(rec) ==
    /\ rec # None
    /\ rec.call \in {"confirm", "verify"}
    /\ Head(rec.plan) \in {"password", "verified"}

RequestsOK ==
    /\ requests = [r \in Requests |-> requests[r]]
    /\ \A r \in Requests : requests[r] # None => RequestOK(requests[r])

LinkTypes ==
    /\ links = [l \in DOMAIN links |-> links[l]]
    /\ \A l \in DOMAIN links : links[l] \in Link
    /\ DOMAIN links \subseteq issued /\ issued \subseteq Links
    /\ redeemed \in [Links -> Nat] /\ applied \in [Links -> Nat]

(* A link that can still be redeemed was not, nor one not issued yet, and  *)
(* none has had more effects than redemptions.                             *)
Accounts ==
    /\ \A l \in Links : l \notin issued => redeemed[l] = 0
    /\ \A l \in DOMAIN links : ~links[l].used => redeemed[l] = 0
    /\ \A l \in Links : applied[l] <= redeemed[l]

(* Each redemption still to take effect belongs to one request. *)
Debts ==
    /\ \A r \in Requests : Owing(requests[r]) =>
           applied[requests[r].link] < redeemed[requests[r].link]
    /\ \A r, s \in Requests :
           Owing(requests[r]) /\ Owing(requests[s]) /\ requests[r].link = requests[s].link
               => r = s

SingleLive ==
    \A u \in Users, purpose \in {"verify_email", "password_reset"} :
        \A a, b \in Live(u, purpose) : a = b

LInv == RequestsOK /\ LinkTypes /\ Accounts /\ Debts /\ SingleLive

-----------------------------------------------------------------------------
(* Plans *)

LEMMA PlanFits ==
    ASSUME NEW call \in Calls, NEW row
    PROVE  /\ PlanOK(call, Plan(call, row))
           /\ call \in {"confirm", "verify"} => Head(Plan(call, row)) = "claim"
<1>1. CASE call = "register" BY <1>1 DEF Plan, PlanOK, Commits
<1>2. CASE call = "login" /\ row.outdated BY <1>2 DEF Plan, PlanOK, Commits
<1>3. CASE call = "login" /\ ~row.outdated BY <1>3 DEF Plan, PlanOK, Commits
<1>4. CASE call = "bad_login" BY <1>4 DEF Plan, PlanOK, Commits
<1>5. CASE call = "change" BY <1>5 DEF Plan, PlanOK, Commits
<1>6. CASE call = "request_reset" BY <1>6 DEF Plan, PlanOK, Commits
<1>7. CASE call = "confirm" BY <1>7 DEF Plan, PlanOK, Commits
<1>8. CASE call = "verify" BY <1>8 DEF Plan, PlanOK, Commits
<1>9. CASE call = "resend" BY <1>9 DEF Plan, PlanOK, Commits
<1>10. CASE call = "admin_reset" BY <1>10 DEF Plan, PlanOK, Commits
<1>11. CASE call = "delete_me" BY <1>11 DEF Plan, PlanOK, Commits
<1>12. QED
  BY <1>1, <1>2, <1>3, <1>4, <1>5, <1>6, <1>7, <1>8, <1>9, <1>10, <1>11 DEF Calls

LEMMA AtLeastTwo == ASSUME NEW n \in Nat, n >= 1, n # 1 PROVE n >= 2
  OBVIOUS

LEMMA PlanGoesOn ==
    ASSUME NEW call, NEW plan, PlanOK(call, plan), Len(plan) # 1
    PROVE  /\ PlanOK(call, Tail(plan))
           /\ call \in {"confirm", "verify"} /\ Head(Tail(plan)) \in {"password", "verified"}
                  => Head(plan) = "claim"
<1>a. plan \in Seq(Commits) /\ Len(plan) \in Nat /\ Len(plan) >= 1
  BY DEF PlanOK
<1>1. plan \in Seq(Commits) /\ Len(plan) >= 2
  BY <1>a, AtLeastTwo
<1>2. /\ Tail(plan) \in Seq(Commits) /\ Len(Tail(plan)) = Len(plan) - 1
      /\ \A i \in 1..(Len(plan) - 1) : Tail(plan)[i] = plan[i + 1]
  BY <1>1
<1>3. Head(Tail(plan)) = plan[2] /\ Head(plan) = plan[1]
  BY <1>1, <1>2
<1>4. QED
  BY <1>1, <1>2, <1>3 DEF PlanOK

-----------------------------------------------------------------------------
(* Requests *)

LEMMA RequestAt ==
    ASSUME LInv, NEW r \in Requests, requests[r] # None
    PROVE  RequestOK(requests[r])
  BY DEF LInv, RequestsOK

LEMMA BeginKeeps ==
    ASSUME LInv, NEW r \in Requests, NEW call \in Calls, NEW u \in Users, NEW cookie, NEW link,
           call \in {"confirm", "verify"} => link \in Links,
           Begin(r, call, u, cookie, link)
    PROVE  LInv'
<1> DEFINE account == IF u \in DOMAIN users THEN users[u] ELSE None
           new == [call |-> call, user |-> u, row |-> Loaded(call, account), cookie |-> cookie,
                   link |-> link, plan |-> Plan(call, account), doomed |-> {}, dead |-> {}]
<1>1. /\ requests' = [requests EXCEPT ![r] = new]
      /\ links' = links /\ issued' = issued /\ redeemed' = redeemed /\ applied' = applied
  BY DEF Begin, history
<1>2. /\ PlanOK(call, Plan(call, account))
      /\ call \in {"confirm", "verify"} => Head(Plan(call, account)) = "claim"
  BY PlanFits
<1>3. RequestOK(new) /\ ~Owing(new)
  BY <1>2 DEF RequestOK, Owing
<1> HIDE DEF new
<1>4. /\ requests' = [q \in Requests |-> requests'[q]]
      /\ requests'[r] = new
      /\ \A q \in Requests \ {r} : requests'[q] = requests[q]
  BY <1>1 DEF LInv, RequestsOK
<1>5. RequestsOK'
  BY <1>3, <1>4 DEF LInv, RequestsOK
<1>6. Debts'
  BY <1>1, <1>3, <1>4 DEF LInv, Debts
<1>7. LinkTypes' /\ Accounts' /\ SingleLive'
  BY <1>1 DEF LInv, LinkTypes, Accounts, SingleLive, Live
<1>8. QED
  BY <1>5, <1>6, <1>7 DEF LInv

LEMMA ProceedKeeps ==
    ASSUME LInv, NEW r \in Requests, requests[r] # None, Proceed(r, requests[r])
    PROVE  /\ RequestsOK'
           /\ \A q \in Requests \ {r} : requests'[q] = requests[q]
           /\ Owing(requests'[r]) => /\ requests'[r].link = requests[r].link
                                     /\ Head(requests[r].plan) = "claim"
<1> DEFINE rec == requests[r]
           rest == [rec EXCEPT !.plan = Tail(@),
                               !.row = IF Head(rec.plan) = "rehash" THEN None ELSE @]
<1>1. RequestOK(rec)
  BY RequestAt
<1>2. /\ \A q \in Requests \ {r} : requests'[q] = requests[q]
      /\ requests' = [q \in Requests |-> requests'[q]]
      /\ requests'[r] = IF Len(rec.plan) = 1 THEN None ELSE rest
  BY DEF LInv, RequestsOK, Proceed
<1>3. CASE Len(rec.plan) = 1
  <2>1. requests'[r] = None
    BY <1>2, <1>3
  <2>2. QED
    BY <1>2, <2>1 DEF LInv, RequestsOK, Owing
<1>4. CASE Len(rec.plan) # 1
  <2>1. /\ DOMAIN rest = DOMAIN rec
        /\ rest.call = rec.call /\ rest.user = rec.user /\ rest.link = rec.link
        /\ rest.plan = Tail(rec.plan)
    BY <1>1 DEF RequestOK
  <2>2. /\ PlanOK(rec.call, Tail(rec.plan))
        /\ rec.call \in {"confirm", "verify"}
               /\ Head(Tail(rec.plan)) \in {"password", "verified"}
                  => Head(rec.plan) = "claim"
    BY <1>1, <1>4, PlanGoesOn DEF RequestOK
  <2>3. requests'[r] = rest
    BY <1>2, <1>4
  <2>4. RequestOK(requests'[r])
    BY <1>1, <2>1, <2>2, <2>3 DEF RequestOK
  <2>5. Owing(requests'[r]) => requests'[r].link = rec.link /\ Head(rec.plan) = "claim"
    BY <2>1, <2>2, <2>3 DEF Owing
  <2>6. RequestsOK'
    BY <1>2, <2>4 DEF LInv, RequestsOK
  <2>7. QED
    BY <1>2, <2>5, <2>6
<1>5. QED
  BY <1>3, <1>4

(* A request that ends, or goes on without having claimed, owes nothing new. *)
LEMMA DebtsPass ==
    ASSUME LInv, UNCHANGED <<redeemed, applied>>,
           \A q \in Requests : Owing(requests'[q]) =>
               Owing(requests[q]) /\ requests'[q].link = requests[q].link
    PROVE  Debts'
  BY DEF LInv, Debts

-----------------------------------------------------------------------------
(* Links *)

LEMMA LinksOnlyLost ==
    ASSUME LInv, UNCHANGED history,
           links' = [l \in DOMAIN links' |-> links[l]],
           DOMAIN links' \subseteq DOMAIN links
    PROVE  LinkTypes' /\ Accounts' /\ SingleLive'
<1>1. \A l \in DOMAIN links' : l \in DOMAIN links /\ links'[l] = links[l]
  OBVIOUS
<1>2. LinkTypes'
  BY <1>1 DEF LInv, LinkTypes, history
<1>3. Accounts'
  BY <1>1 DEF LInv, Accounts, history
<1>4. SingleLive'
  BY <1>1 DEF LInv, SingleLive, Live
<1>5. QED
  BY <1>2, <1>3, <1>4

LEMMA LinksKept ==
    ASSUME LInv, UNCHANGED history, UNCHANGED links
    PROVE  LinkTypes' /\ Accounts' /\ SingleLive'
  BY DEF LInv, LinkTypes, Accounts, SingleLive, Live, history

LEMMA Dropped ==
    ASSUME LInv, NEW keys, links' = Drop(links, keys), UNCHANGED history
    PROVE  LinkTypes' /\ Accounts' /\ SingleLive'
  BY LinksOnlyLost DEF Drop

(* A commit that goes on without touching the history of the links. *)
LEMMA CommitKeeps ==
    ASSUME LInv, NEW r \in Requests, requests[r] # None, Proceed(r, requests[r]),
           Head(requests[r].plan) # "claim", UNCHANGED <<redeemed, applied>>,
           LinkTypes' /\ Accounts' /\ SingleLive'
    PROVE  LInv'
<1>1. /\ RequestsOK'
      /\ \A q \in Requests \ {r} : requests'[q] = requests[q]
      /\ ~Owing(requests'[r])
  BY ProceedKeeps
<1>2. Debts'
  BY <1>1, DebtsPass
<1>3. QED
  BY <1>1, <1>2 DEF LInv

-----------------------------------------------------------------------------
(* The actions *)

(* Link operations keep the rest of the invariant, whatever they do to requests. *)
LEMMA IssueKeeps ==
    ASSUME LInv, NEW rec, rec.user \in Users, NEW purpose \in {"verify_email", "password_reset"},
           NEW l \in Links \ issued, links' = LinkIssued(rec, purpose, l),
           issued' = issued \cup {l}, UNCHANGED <<redeemed, applied>>
    PROVE  LinkTypes' /\ Accounts' /\ SingleLive'
<1> DEFINE old == Live(rec.user, purpose)
           new == [user |-> rec.user, purpose |-> purpose, used |-> FALSE, expired |-> FALSE]
<1>1. /\ DOMAIN links' = (DOMAIN links \ old) \cup {l}
      /\ links' = [k \in DOMAIN links' |-> links'[k]]
      /\ links'[l] = new
      /\ \A k \in DOMAIN links \ old : k # l /\ links'[k] = links[k]
  BY DEF LinkIssued, Put, Drop, LInv, LinkTypes
<1>2. new \in Link
  BY DEF Link
<1>3. LinkTypes'
  BY <1>1, <1>2 DEF LInv, LinkTypes
<1>4. Accounts'
  BY <1>1 DEF LInv, Accounts
<1>5. ASSUME NEW u \in Users, NEW p \in {"verify_email", "password_reset"},
             NEW a \in Live(u, p)', NEW b \in Live(u, p)'
      PROVE  a = b
  <2>1. CASE u = rec.user /\ p = purpose
    <3>1. \A k \in DOMAIN links \ old : k \notin Live(u, p)'
      BY <1>1, <2>1 DEF Live
    <3>2. QED
      BY <1>1, <3>1 DEF Live
  <2>2. CASE ~(u = rec.user /\ p = purpose)
    <3>1. l \notin Live(u, p)'
      BY <1>1, <2>2 DEF Live
    <3>2. a \in Live(u, p) /\ b \in Live(u, p)
      BY <1>1, <3>1 DEF Live
    <3>3. QED
      BY <3>2 DEF LInv, SingleLive
  <2>3. QED
    BY <2>1, <2>2
<1>6. SingleLive'
  BY <1>5 DEF SingleLive
<1>7. QED
  BY <1>3, <1>4, <1>6

LEMMA WriteLinkKeeps ==
    ASSUME LInv, NEW r \in Requests, requests[r] # None,
           NEW purpose \in {"verify_email", "password_reset"},
           Head(requests[r].plan) # "claim", WriteLink(r, requests[r], purpose)
    PROVE  LInv'
<1>1. requests[r].user \in Users
  BY RequestAt DEF RequestOK
<1>2. PICK l \in Links \ issued :
          links' = LinkIssued(requests[r], purpose, l) /\ issued' = issued \cup {l}
  BY DEF WriteLink
<1>3. LinkTypes' /\ Accounts' /\ SingleLive'
  BY <1>1, <1>2, IssueKeeps DEF WriteLink
<1>4. QED
  BY <1>3, CommitKeeps DEF WriteLink

LEMMA ClaimKeeps ==
    ASSUME LInv, NEW r \in Requests, requests[r] # None, Claim(r, requests[r])
    PROVE  LInv'
<1> DEFINE l == requests[r].link
<1>1. /\ l \in DOMAIN links /\ ~links[l].used /\ l \in Links
      /\ links' = [links EXCEPT ![l].used = TRUE]
      /\ redeemed' = [redeemed EXCEPT ![l] = @ + 1]
      /\ issued' = issued /\ applied' = applied
      /\ Proceed(r, requests[r])
  BY DEF Claim, Claimable, LInv, LinkTypes
<1>2. /\ redeemed[l] = 0 /\ applied[l] = 0
      /\ redeemed'[l] = 1
      /\ \A k \in Links : redeemed'[k] >= redeemed[k]
  BY <1>1 DEF LInv, LinkTypes, Accounts
<1>3. /\ DOMAIN links' = DOMAIN links /\ links' = [k \in DOMAIN links' |-> links'[k]]
      /\ \A k \in DOMAIN links \ {l} : links'[k] = links[k]
      /\ links'[l] \in Link /\ links'[l].used
      /\ links'[l].user = links[l].user /\ links'[l].purpose = links[l].purpose
  BY <1>1 DEF LInv, LinkTypes, Link
<1>4. LinkTypes'
  BY <1>1, <1>3 DEF LInv, LinkTypes
<1>5. Accounts'
  BY <1>1, <1>2, <1>3 DEF LInv, LinkTypes, Accounts
<1>6. SingleLive'
  BY <1>1, <1>3 DEF LInv, SingleLive, Live
<1>7. /\ RequestsOK'
      /\ \A q \in Requests \ {r} : requests'[q] = requests[q]
      /\ Owing(requests'[r]) => requests'[r].link = l
  BY <1>1, ProceedKeeps
<1>8. \A q \in Requests \ {r} : Owing(requests'[q]) =>
          requests[q].link \in Links /\ requests[q].link # l
  BY <1>2, <1>7 DEF LInv, LinkTypes, Debts, Owing, RequestsOK, RequestOK
<1>9. Debts'
  BY <1>1, <1>2, <1>7, <1>8 DEF LInv, LinkTypes, Debts
<1>10. QED
  BY <1>4, <1>5, <1>6, <1>7, <1>9 DEF LInv

LEMMA WritePasswordKeeps ==
    ASSUME LInv, NEW r \in Requests, requests[r] # None, Head(requests[r].plan) = "password",
           WritePassword(r, requests[r])
    PROVE  LInv'
<1> DEFINE rec == requests[r]
           l == rec.link
           dead == IF rec.call = "admin_reset" THEN {} ELSE Live(rec.user, "password_reset")
           rest == [rec EXCEPT !.plan = Tail(@), !.row = None,
                               !.doomed = CookiesOf(rec.user) \ {rec.cookie}, !.dead = dead]
<1>1. /\ requests' = [requests EXCEPT ![r] = rest]
      /\ links' = links /\ issued' = issued /\ redeemed' = redeemed
      /\ applied' = IF rec.call = "confirm" THEN [applied EXCEPT ![l] = @ + 1] ELSE applied
  BY DEF WritePassword
<1>2. RequestOK(rec)
  BY RequestAt
<1>3. Len(rec.plan) # 1
  BY <1>2 DEF RequestOK, PlanOK
<1>4. /\ PlanOK(rec.call, Tail(rec.plan))
      /\ rec.call \in {"confirm", "verify"} => Head(Tail(rec.plan)) \notin {"password", "verified"}
  BY <1>2, <1>3, PlanGoesOn DEF RequestOK
<1>5. /\ DOMAIN rest = DOMAIN rec
      /\ rest.call = rec.call /\ rest.user = rec.user /\ rest.link = l
      /\ rest.plan = Tail(rec.plan)
  BY <1>2 DEF RequestOK
<1>6. RequestOK(rest) /\ ~Owing(rest)
  BY <1>2, <1>4, <1>5 DEF RequestOK, Owing
<1> HIDE DEF rest
<1>7. /\ requests' = [q \in Requests |-> requests'[q]]
      /\ requests'[r] = rest
      /\ \A q \in Requests \ {r} : requests'[q] = requests[q]
  BY <1>1 DEF LInv, RequestsOK
<1>8. RequestsOK'
  BY <1>6, <1>7 DEF LInv, RequestsOK
<1>9. SingleLive'
  BY <1>1 DEF LInv, SingleLive, Live
<1>10. CASE rec.call = "confirm"
  <2>1. l \in Links /\ Owing(rec) /\ applied[l] < redeemed[l]
    BY <1>2, <1>10 DEF RequestOK, Owing, LInv, Debts
  <2>2. \A q \in Requests \ {r} : Owing(requests'[q]) =>
            requests[q].link \in Links /\ requests[q].link # l
    BY <1>7, <2>1 DEF LInv, Debts, Owing, RequestsOK, RequestOK
  <2>3. /\ applied' \in [Links -> Nat] /\ applied'[l] = applied[l] + 1
        /\ \A k \in Links \ {l} : applied'[k] = applied[k]
    BY <1>1, <1>10, <2>1 DEF LInv, LinkTypes
  <2>4. LinkTypes' /\ Accounts'
    BY <1>1, <2>1, <2>3 DEF LInv, LinkTypes, Accounts
  <2>5. Debts'
    BY <1>1, <1>6, <1>7, <2>2, <2>3 DEF LInv, Debts
  <2>6. QED
    BY <1>8, <1>9, <2>4, <2>5 DEF LInv
<1>11. CASE rec.call # "confirm"
  <2>1. LinkTypes' /\ Accounts'
    BY <1>1, <1>11 DEF LInv, LinkTypes, Accounts
  <2>2. Debts'
    BY <1>1, <1>6, <1>7, <1>11 DEF LInv, Debts
  <2>3. QED
    BY <1>8, <1>9, <2>1, <2>2 DEF LInv
<1>12. QED
  BY <1>10, <1>11

LEMMA WriteVerifiedKeeps ==
    ASSUME LInv, NEW r \in Requests, requests[r] # None, Head(requests[r].plan) = "verified",
           WriteVerified(r, requests[r])
    PROVE  LInv' /\ Owing(requests[r])
<1> DEFINE rec == requests[r]
           l == rec.link
<1>1. /\ links' = links /\ issued' = issued /\ redeemed' = redeemed
      /\ applied' = [applied EXCEPT ![l] = @ + 1]
      /\ Proceed(r, rec)
  BY DEF WriteVerified
<1>2. RequestOK(rec)
  BY RequestAt
<1>3. rec.call = "verify"
  BY <1>2 DEF RequestOK, PlanOK
<1>4. l \in Links /\ Owing(rec) /\ applied[l] < redeemed[l]
  BY <1>2, <1>3 DEF RequestOK, Owing, LInv, Debts
<1>5. /\ RequestsOK'
      /\ \A q \in Requests \ {r} : requests'[q] = requests[q]
      /\ ~Owing(requests'[r])
  BY <1>1, ProceedKeeps
<1>6. \A q \in Requests \ {r} : Owing(requests'[q]) =>
          requests[q].link \in Links /\ requests[q].link # l
  BY <1>4, <1>5 DEF LInv, Debts, Owing, RequestsOK, RequestOK
<1>7. /\ applied' \in [Links -> Nat] /\ applied'[l] = applied[l] + 1
      /\ \A k \in Links \ {l} : applied'[k] = applied[k]
  BY <1>1, <1>4 DEF LInv, LinkTypes
<1>8. LinkTypes' /\ Accounts'
  BY <1>1, <1>4, <1>7 DEF LInv, LinkTypes, Accounts
<1>9. Debts'
  BY <1>1, <1>5, <1>6, <1>7 DEF LInv, Debts
<1>10. SingleLive'
  BY <1>1 DEF LInv, SingleLive, Live
<1>11. QED
  BY <1>4, <1>5, <1>8, <1>9, <1>10 DEF LInv

(* The commits that leave the links alone, or delete some. *)
LEMMA QuietCommitKeeps ==
    ASSUME LInv, NEW r \in Requests, requests[r] # None, Head(requests[r].plan) # "claim",
           \/ WriteUser(r, requests[r]) \/ WriteRehash(r, requests[r])
           \/ WriteCookie(r, requests[r]) \/ Revoke(r, requests[r])
           \/ RecordFailure(r, requests[r])
           \/ Withdraw(r, requests[r]) \/ DeleteUser(r, requests[r])
    PROVE  /\ LInv'
           /\ UNCHANGED history
           /\ DOMAIN links' \subseteq DOMAIN links
           /\ \A l \in DOMAIN links' : links'[l] = links[l]
<1>1. CASE \/ WriteUser(r, requests[r]) \/ WriteRehash(r, requests[r])
           \/ WriteCookie(r, requests[r]) \/ Revoke(r, requests[r])
           \/ RecordFailure(r, requests[r])
  <2>1. Proceed(r, requests[r]) /\ UNCHANGED history /\ UNCHANGED links
    BY <1>1 DEF WriteUser, WriteRehash, WriteCookie, Revoke, RecordFailure
  <2>2. LinkTypes' /\ Accounts' /\ SingleLive'
    BY <2>1, LinksKept
  <2>3. LInv'
    BY <2>1, <2>2, CommitKeeps DEF history
  <2>4. QED
    BY <2>1, <2>3
<1>2. ASSUME NEW keys, links' = Drop(links, keys), Proceed(r, requests[r]), UNCHANGED history
      PROVE  /\ LInv'
             /\ DOMAIN links' \subseteq DOMAIN links
             /\ \A l \in DOMAIN links' : links'[l] = links[l]
  <2>1. LinkTypes' /\ Accounts' /\ SingleLive'
    BY <1>2, Dropped
  <2>2. LInv'
    BY <1>2, <2>1, CommitKeeps DEF history
  <2>3. QED
    BY <1>2, <2>2 DEF Drop
<1>3. CASE Withdraw(r, requests[r])
  BY <1>2, <1>3 DEF Withdraw
<1>4. CASE DeleteUser(r, requests[r])
  BY <1>2, <1>4 DEF DeleteUser
<1>5. QED
  BY <1>1, <1>3, <1>4

-----------------------------------------------------------------------------
(* What each step is to the promise *)

Redeemables == {l \in DOMAIN links : ~links[l].used}

Promised == [Promise!Next]_(Promise!vars)

(* Links that are lost are withdrawn. *)
LEMMA LossIsWithdrawal ==
    ASSUME UNCHANGED history, DOMAIN links' \subseteq DOMAIN links,
           \A l \in DOMAIN links' : links'[l].used = links[l].used
    PROVE  Promised
<1>0. PICK lost : lost = Redeemables \ Redeemables'
  OBVIOUS
<1>1. Redeemables' = Redeemables \ lost /\ lost \in SUBSET Redeemables
  BY <1>0 DEF Redeemables
<1>2. Promise!Withdraw(lost)
  BY <1>1 DEF Promise!Withdraw, Redeemables, history
<1>3. Promise!Next
  <2>1. \E withdrawn \in SUBSET Redeemables : Promise!Withdraw(withdrawn)
    BY <1>1, <1>2
  <2>2. QED
    BY <2>1 DEF Promise!Next, Redeemables
<1>4. QED
  BY <1>3 DEF Promised

LEMMA IssueIsIssue ==
    ASSUME LInv, NEW r \in Requests, requests[r] # None,
           NEW purpose \in {"verify_email", "password_reset"}, WriteLink(r, requests[r], purpose)
    PROVE  Promised
<1>0. PICK old : old = Live(requests[r].user, purpose)
  OBVIOUS
<1>1. PICK l \in Links \ issued :
          links' = LinkIssued(requests[r], purpose, l) /\ issued' = issued \cup {l}
  BY DEF WriteLink
<1>2. /\ DOMAIN links' = (DOMAIN links \ old) \cup {l}
      /\ ~links'[l].used
      /\ \A k \in DOMAIN links \ old : k # l /\ links'[k] = links[k]
  BY <1>0, <1>1 DEF LinkIssued, Put, Drop, LInv, LinkTypes
<1>3. Redeemables' = (Redeemables \ old) \cup {l} /\ old \in SUBSET Redeemables
  BY <1>0, <1>2 DEF Redeemables, Live
<1>4. Promise!Issue(l, old)
  BY <1>1, <1>3 DEF Promise!Issue, Redeemables, WriteLink
<1>5. Promise!Next
  <2>1. \E k \in Links, replaced \in SUBSET Redeemables : Promise!Issue(k, replaced)
    BY <1>1, <1>3, <1>4
  <2>2. QED
    BY <2>1 DEF Promise!Next, Redeemables
<1>6. QED
  BY <1>5 DEF Promised

LEMMA ClaimIsRedeem ==
    ASSUME LInv, NEW r \in Requests, requests[r] # None, Claim(r, requests[r])
    PROVE  Promised
<1>0. PICK l : l = requests[r].link
  OBVIOUS
<1>1. /\ l \in DOMAIN links /\ ~links[l].used /\ l \in Links
      /\ links' = [links EXCEPT ![l].used = TRUE]
      /\ redeemed' = [redeemed EXCEPT ![l] = @ + 1]
      /\ issued' = issued /\ applied' = applied
  BY <1>0 DEF Claim, Claimable, LInv, LinkTypes
<1>2. /\ DOMAIN links' = DOMAIN links /\ links'[l].used
      /\ \A k \in DOMAIN links \ {l} : links'[k] = links[k]
  BY <1>1 DEF LInv, LinkTypes, Link
<1>3. l \in Redeemables /\ Redeemables' = Redeemables \ {l}
  BY <1>1, <1>2 DEF Redeemables
<1>4. Promise!Redeem(l)
  BY <1>1, <1>3 DEF Promise!Redeem, Redeemables
<1>5. Promise!Next
  <2>1. \E k \in Links : Promise!Redeem(k) \/ Promise!Apply(k)
    BY <1>1, <1>4
  <2>2. QED
    BY <2>1 DEF Promise!Next
<1>6. QED
  BY <1>5 DEF Promised

LEMMA EffectIsApply ==
    ASSUME LInv, NEW r \in Requests, Owing(requests[r]), UNCHANGED <<links, issued, redeemed>>,
           applied' = [applied EXCEPT ![requests[r].link] = @ + 1]
    PROVE  Promised
<1>0. PICK l : l = requests[r].link
  OBVIOUS
<1>1. l \in Links /\ applied[l] < redeemed[l]
  BY <1>0 DEF LInv, RequestsOK, RequestOK, Debts, Owing
<1>2. Promise!Apply(l)
  BY <1>0, <1>1 DEF Promise!Apply
<1>3. QED
  BY <1>1, <1>2 DEF Promised, Promise!Next

LEMMA CommitStep ==
    ASSUME LInv, NEW r \in Requests, Commit(r)
    PROVE  LInv' /\ Promised
<1> DEFINE rec == requests[r]
<1>1. rec # None
  BY DEF Commit
<1>2. CASE Head(rec.plan) = "claim" /\ Claim(r, rec)
  BY <1>1, <1>2, ClaimKeeps, ClaimIsRedeem
<1>3. CASE Head(rec.plan) = "password" /\ WritePassword(r, rec)
  <2>1. LInv'
    BY <1>1, <1>3, WritePasswordKeeps
  <2>2. CASE rec.call = "confirm"
    <3>1. Owing(rec)
      BY <1>1, <1>3, <2>2 DEF Owing
    <3>2. QED
      BY <1>3, <2>1, <2>2, <3>1, EffectIsApply DEF WritePassword
  <2>3. CASE rec.call # "confirm"
    BY <1>3, <2>1, <2>3, LossIsWithdrawal DEF WritePassword, history
  <2>4. QED
    BY <2>2, <2>3
<1>4. CASE Head(rec.plan) = "verified" /\ WriteVerified(r, rec)
  <2>1. LInv' /\ Owing(rec)
    BY <1>1, <1>4, WriteVerifiedKeeps
  <2>2. QED
    BY <1>4, <2>1, EffectIsApply DEF WriteVerified
<1>5. CASE Head(rec.plan) = "verify_link" /\ WriteLink(r, rec, "verify_email")
  BY <1>1, <1>5, WriteLinkKeeps, IssueIsIssue
<1>6. CASE Head(rec.plan) = "reset_link" /\ WriteLink(r, rec, "password_reset")
  BY <1>1, <1>6, WriteLinkKeeps, IssueIsIssue
<1>7. CASE /\ Head(rec.plan) # "claim"
           /\ \/ WriteUser(r, rec) \/ WriteRehash(r, rec) \/ WriteCookie(r, rec)
              \/ Revoke(r, rec) \/ RecordFailure(r, rec)
              \/ Withdraw(r, rec) \/ DeleteUser(r, rec)
  BY <1>1, <1>7, QuietCommitKeeps, LossIsWithdrawal
<1>8. QED
  BY <1>2, <1>3, <1>4, <1>5, <1>6, <1>7 DEF Commit

(* A failed request, and all of them after a crash, leave a redemption     *)
(* without effect.                                                         *)
LEMMA RequestsEnd ==
    ASSUME LInv, UNCHANGED links, UNCHANGED history,
           requests' = [r \in Requests |-> requests'[r]],
           \A r \in Requests : requests'[r] \in {requests[r], None}
    PROVE  LInv' /\ Promised
<1>1. RequestsOK' /\ Debts'
  BY DEF LInv, RequestsOK, Debts, Owing, history
<1>2. LinkTypes' /\ Accounts' /\ SingleLive'
  BY LinksKept
<1>3. QED
  BY <1>1, <1>2, LossIsWithdrawal DEF LInv

LEMMA ExpireStep ==
    ASSUME LInv, NEW l, ExpireLink(l)
    PROVE  LInv' /\ Promised
<1>1. /\ l \in DOMAIN links /\ links' = [links EXCEPT ![l].expired = TRUE]
      /\ UNCHANGED <<requests, issued, redeemed, applied>>
  BY DEF ExpireLink, history
<1>2. /\ DOMAIN links' = DOMAIN links /\ links' = [k \in DOMAIN links' |-> links'[k]]
      /\ \A k \in DOMAIN links' : /\ links'[k] \in Link /\ links'[k].used = links[k].used
                                  /\ links'[k].user = links[k].user
                                  /\ links'[k].purpose = links[k].purpose
  BY <1>1 DEF LInv, LinkTypes, Link
<1>3. RequestsOK' /\ LinkTypes' /\ Accounts' /\ Debts'
  BY <1>1, <1>2 DEF LInv, RequestsOK, LinkTypes, Accounts, Debts
<1>4. SingleLive'
  BY <1>2 DEF LInv, SingleLive, Live
<1>5. QED
  BY <1>1, <1>2, <1>3, <1>4, LossIsWithdrawal DEF LInv, history

LEMMA Start ==
    ASSUME Init
    PROVE  LInv /\ Promise!Init
<1>1. LInv
  BY DEF Init, LInv, RequestsOK, LinkTypes, Accounts, Debts, SingleLive, Live, Owing
<1>2. {l \in DOMAIN links : ~links[l].used} = {}
  BY DEF Init
<1>3. QED
  BY <1>1, <1>2 DEF Init, Promise!Init

LEMMA Step ==
    ASSUME LInv, [Next]_vars
    PROVE  LInv' /\ Promised
<1>1. ASSUME NEW r \in Requests, NEW u \in Users,
             Register(r, u) \/ Login(r, u) \/ BadLogin(r, u) \/ RequestReset(r, u)
                 \/ AdminReset(r, u)
      PROVE  LInv' /\ Promised
  <2>1. PICK call \in {"register", "login", "bad_login", "request_reset", "admin_reset"} :
            Begin(r, call, u, None, None)
    BY <1>1 DEF Register, Login, BadLogin, RequestReset, AdminReset
  <2>2. LInv'
    BY <2>1, BeginKeeps DEF Calls
  <2>3. QED
    BY <2>1, <2>2, LossIsWithdrawal DEF Begin, history
<1>2. ASSUME NEW r \in Requests, NEW c \in Cookies, NEW u \in Users,
             ChangePassword(r, c, u) \/ DeleteMe(r, c, u) \/ Resend(r, c, u)
      PROVE  LInv' /\ Promised
  <2>1. PICK call \in {"change", "delete_me", "resend"} : Begin(r, call, u, c, None)
    BY <1>2 DEF ChangePassword, DeleteMe, Resend
  <2>2. LInv'
    BY <2>1, BeginKeeps DEF Calls
  <2>3. QED
    BY <2>1, <2>2, LossIsWithdrawal DEF Begin, history
<1>3. ASSUME NEW r \in Requests, NEW l \in Links, Confirm(r, l) \/ VerifyEmail(r, l)
      PROVE  LInv' /\ Promised
  <2>1. links[l].user \in Users
    BY <1>3 DEF Confirm, VerifyEmail, Redeemable, LInv, LinkTypes, Link
  <2>2. PICK call \in {"confirm", "verify"} : Begin(r, call, links[l].user, None, l)
    BY <1>3 DEF Confirm, VerifyEmail
  <2>3. LInv'
    BY <2>1, <2>2, BeginKeeps DEF Calls
  <2>4. QED
    BY <2>2, <2>3, LossIsWithdrawal DEF Begin, history
<1>4. ASSUME NEW r \in Requests, Fail(r)
      PROVE  LInv' /\ Promised
  <2>1. /\ requests' = [requests EXCEPT ![r] = None] /\ UNCHANGED links /\ UNCHANGED history
    BY <1>4 DEF Fail, Refused, history
  <2>2. /\ requests' = [q \in Requests |-> requests'[q]]
        /\ \A q \in Requests : requests'[q] \in {requests[q], None}
    BY <2>1 DEF LInv, RequestsOK
  <2>3. QED
    BY <2>1, <2>2, RequestsEnd
<1>5. ASSUME NEW upgraded, Restart(upgraded)
      PROVE  LInv' /\ Promised
  <2>1. requests' = [q \in Requests |-> None] /\ UNCHANGED links /\ UNCHANGED history
    BY <1>5 DEF Restart, history
  <2>2. QED
    BY <2>1, RequestsEnd
<1>6. ASSUME UNCHANGED <<links, requests>>, UNCHANGED history
      PROVE  LInv' /\ Promised
  BY <1>6, RequestsEnd DEF LInv, RequestsOK
<1>7. QED
  <2>1. CASE \E c \in Cookies : Logout(c)
    BY <2>1, <1>6 DEF Logout, history
  <2>2. CASE Forget
    BY <2>2, <1>6 DEF Forget, history
  <2>3. CASE UNCHANGED vars
    BY <2>3, <1>6 DEF vars, history
  <2>4. QED
    BY <1>1, <1>2, <1>3, <1>4, <1>5, <2>1, <2>2, <2>3, CommitStep, ExpireStep DEF Next

-----------------------------------------------------------------------------
(* The results *)

(* The links keep the promise of EmailLinks for any number of accounts,     *)
(* links, requests and crashes: no link is redeemed twice or after it was  *)
(* withdrawn, and none takes effect twice or unredeemed.                   *)
THEOREM LinksKeepTheirPromiseHolds == Spec => LinksKeepTheirPromise
<1>1. Init => LInv /\ Promise!Init
  BY Start
<1>2. LInv /\ [Next]_vars => LInv' /\ [Promise!Next]_(Promise!vars)
  BY Step DEF Promised
<1>3. QED
  BY <1>1, <1>2, PTL DEF Spec, LinksKeepTheirPromise, Promise!Spec

(* However many requests issue links at the same time, an account never has *)
(* two links of one purpose that could both be redeemed.                   *)
THEOREM OneLiveLinkHolds == Spec => []OneLiveLink
<1>1. ASSUME SingleLive PROVE OneLiveLink
  <2>1. SUFFICES ASSUME NEW u \in Users, NEW purpose \in {"verify_email", "password_reset"}
                 PROVE  Cardinality(Live(u, purpose)) <= 1
    BY DEF OneLiveLink
  <2>2. CASE Live(u, purpose) = {}
    BY <2>2, FS_EmptySet
  <2>3. CASE Live(u, purpose) # {}
    <3>1. PICK l \in Live(u, purpose) : Live(u, purpose) = {l}
      BY <1>1, <2>3 DEF SingleLive
    <3>2. QED
      BY <3>1, FS_Singleton
  <2>4. QED
    BY <2>2, <2>3
<1>2. Init => LInv
  BY Start
<1>3. LInv /\ [Next]_vars => LInv'
  BY Step
<1>4. LInv => OneLiveLink
  BY <1>1 DEF LInv
<1>5. QED
  BY <1>2, <1>3, <1>4, PTL DEF Spec

-----------------------------------------------------------------------------
(***************************************************************************)
(* What opens an account: its password, the login limit, and the sessions  *)
(* and links that a password change takes away.                            *)
(***************************************************************************)

(* What each request may still have to commit: the rests of its plan. *)
Rests ==
    [register      |-> {<<"user", "verify_link", "cookie">>, <<"verify_link", "cookie">>,
                        <<"cookie">>},
     login         |-> {<<"rehash", "cookie">>, <<"cookie">>},
     bad_login     |-> {<<"failure">>},
     change        |-> {<<"password", "revoke", "withdraw">>, <<"revoke", "withdraw">>,
                        <<"withdraw">>},
     request_reset |-> {<<"reset_link">>},
     confirm       |-> {<<"claim", "password", "revoke", "withdraw">>,
                        <<"password", "revoke", "withdraw">>, <<"revoke", "withdraw">>,
                        <<"withdraw">>},
     verify        |-> {<<"claim", "verified">>, <<"verified">>},
     resend        |-> {<<"verify_link">>},
     admin_reset   |-> {<<"password", "revoke">>, <<"revoke">>},
     delete_me     |-> {<<"revoke", "delete">>, <<"delete">>}]

LEMMA PlanIsRest ==
    ASSUME NEW call \in Calls, NEW row
    PROVE  Plan(call, row) \in Rests[call]
<1>1. CASE call = "register" BY <1>1 DEF Plan, Rests
<1>2. CASE call = "login" /\ row.outdated BY <1>2 DEF Plan, Rests
<1>3. CASE call = "login" /\ ~row.outdated BY <1>3 DEF Plan, Rests
<1>4. CASE call = "bad_login" BY <1>4 DEF Plan, Rests
<1>5. CASE call = "change" BY <1>5 DEF Plan, Rests
<1>6. CASE call = "request_reset" BY <1>6 DEF Plan, Rests
<1>7. CASE call = "confirm" BY <1>7 DEF Plan, Rests
<1>8. CASE call = "verify" BY <1>8 DEF Plan, Rests
<1>9. CASE call = "resend" BY <1>9 DEF Plan, Rests
<1>10. CASE call = "admin_reset" BY <1>10 DEF Plan, Rests
<1>11. CASE call = "delete_me" BY <1>11 DEF Plan, Rests
<1>12. QED
  BY <1>1, <1>2, <1>3, <1>4, <1>5, <1>6, <1>7, <1>8, <1>9, <1>10, <1>11 DEF Calls

(* Sequences of up to four commits. *)
LEMMA One ==
    ASSUME NEW a
    PROVE  Len(<<a>>) = 1 /\ Head(<<a>>) = a /\ Range(<<a>>) = {a}
  BY DEF Range

LEMMA Two ==
    ASSUME NEW a, NEW b
    PROVE  Len(<<a, b>>) = 2 /\ Head(<<a, b>>) = a /\ Tail(<<a, b>>) = <<b>> /\ Range(<<a, b>>) = {a, b}
  BY DEF Range

LEMMA Three ==
    ASSUME NEW a, NEW b, NEW c
    PROVE  Len(<<a, b, c>>) = 3 /\ Head(<<a, b, c>>) = a /\ Tail(<<a, b, c>>) = <<b, c>> /\ Range(<<a, b, c>>) = {a, b, c}
  BY DEF Range

LEMMA Four ==
    ASSUME NEW a, NEW b, NEW c, NEW d
    PROVE  Len(<<a, b, c, d>>) = 4 /\ Head(<<a, b, c, d>>) = a /\ Tail(<<a, b, c, d>>) = <<b, c, d>> /\ Range(<<a, b, c, d>>) = {a, b, c, d}
  BY DEF Range
(* What is left of a plan makes each kind of commit at most once. *)
Orderly(p) ==
    /\ p \in Seq(Commits) /\ Len(p) >= 1
    /\ Head(p) \in Range(p)
    /\ Len(p) # 1 =>
           /\ Range(Tail(p)) \subseteq Range(p)
           /\ Head(p) \notin Range(Tail(p))
           /\ Head(p) \in {"user", "password"} =>
                  Range(Tail(p)) \cap {"user", "password"} = {}
           /\ Head(p) \in {"rehash", "password"} =>
                  Range(Tail(p)) \cap {"rehash", "password"} = {}

LEMMA RestIsOrderly ==
    ASSUME NEW call \in Calls, NEW plan \in Rests[call]
    PROVE  Orderly(plan) /\ (Len(plan) # 1 => Tail(plan) \in Rests[call])
<1>1. ASSUME NEW a \in Commits, plan = <<a>> PROVE Orderly(plan) /\ Len(plan) = 1
  BY <1>1, One DEF Orderly
<1>2. ASSUME NEW a \in Commits, NEW b \in Commits, plan = <<a, b>>, a # b,
             ~(a \in {"user", "password"} /\ b \in {"user", "password"}),
             ~(a \in {"rehash", "password"} /\ b \in {"rehash", "password"})
      PROVE  Orderly(plan) /\ Tail(plan) = <<b>>
  <2>1. Len(plan) = 2 /\ Head(plan) = a /\ Tail(plan) = <<b>> /\ Range(plan) = {a, b}
    BY <1>2, Two
  <2>2. Range(Tail(plan)) = {b}
    BY <2>1, One
  <2>3. plan \in Seq(Commits)
    BY <1>2
  <2>4. QED
    BY <1>2, <2>1, <2>2, <2>3 DEF Orderly
<1>3. ASSUME NEW a \in Commits, NEW b \in Commits, NEW c \in Commits,
             plan = <<a, b, c>>, a \notin {b, c},
             a \in {"user", "password"} => {b, c} \cap {"user", "password"} = {},
             a \in {"rehash", "password"} => {b, c} \cap {"rehash", "password"} = {}
      PROVE  Orderly(plan) /\ Tail(plan) = <<b, c>>
  <2>1. Len(plan) = 3 /\ Head(plan) = a /\ Tail(plan) = <<b, c>> /\ Range(plan) = {a, b, c}
    BY <1>3, Three
  <2>2. Range(Tail(plan)) = {b, c}
    BY <2>1, Two
  <2>3. plan \in Seq(Commits)
    BY <1>3
  <2>4. Range(Tail(plan)) \subseteq Range(plan) /\ Head(plan) \notin Range(Tail(plan))
    BY <1>3, <2>1, <2>2
  <2>5. /\ Head(plan) \in {"user", "password"} =>
               Range(Tail(plan)) \cap {"user", "password"} = {}
        /\ Head(plan) \in {"rehash", "password"} =>
               Range(Tail(plan)) \cap {"rehash", "password"} = {}
    BY <1>3, <2>1, <2>2
  <2>6. QED
    BY <2>1, <2>3, <2>4, <2>5 DEF Orderly
<1>4. CASE plan = <<"claim", "password", "revoke", "withdraw">>
  <2>1. /\ Len(plan) = 4 /\ Head(plan) = "claim"
        /\ Tail(plan) = <<"password", "revoke", "withdraw">>
        /\ Range(plan) = {"claim", "password", "revoke", "withdraw"}
    BY <1>4, Four
  <2>0. Range(<<"password", "revoke", "withdraw">>) = {"password", "revoke", "withdraw"}
    BY Three
  <2>2. Range(Tail(plan)) = {"password", "revoke", "withdraw"}
    BY <2>0, <2>1
  <2>3. plan \in Seq(Commits)
    BY <1>4 DEF Commits
  <2>4. Orderly(plan)
    BY <2>1, <2>2, <2>3 DEF Orderly
  <2>5. call = "confirm" => Tail(plan) \in Rests[call]
    BY <2>1 DEF Rests
  <2>6. call = "confirm"
    BY <1>4 DEF Rests, Calls
  <2>7. QED
    BY <2>4, <2>5, <2>6
<1>5. CASE plan = <<"user", "verify_link", "cookie">>
  <2>1. Orderly(plan) /\ Tail(plan) = <<"verify_link", "cookie">>
    BY <1>3, <1>5 DEF Commits
  <2>2. call \in {"register"}
    BY <1>5 DEF Rests, Calls
  <2>3. <<"verify_link", "cookie">> \in Rests[call]
    BY <2>2 DEF Rests
  <2>4. QED
    BY <2>1, <2>3
<1>6. CASE plan = <<"password", "revoke", "withdraw">>
  <2>1. Orderly(plan) /\ Tail(plan) = <<"revoke", "withdraw">>
    BY <1>3, <1>6 DEF Commits
  <2>2. call \in {"change", "confirm"}
    BY <1>6 DEF Rests, Calls
  <2>3. <<"revoke", "withdraw">> \in Rests[call]
    BY <2>2 DEF Rests
  <2>4. QED
    BY <2>1, <2>3
<1>7. CASE plan = <<"verify_link", "cookie">>
  <2>1. Orderly(plan) /\ Tail(plan) = <<"cookie">>
    BY <1>2, <1>7 DEF Commits
  <2>2. call \in {"register"}
    BY <1>7 DEF Rests, Calls
  <2>3. <<"cookie">> \in Rests[call]
    BY <2>2 DEF Rests
  <2>4. QED
    BY <2>1, <2>3
<1>8. CASE plan = <<"rehash", "cookie">>
  <2>1. Orderly(plan) /\ Tail(plan) = <<"cookie">>
    BY <1>2, <1>8 DEF Commits
  <2>2. call \in {"login"}
    BY <1>8 DEF Rests, Calls
  <2>3. <<"cookie">> \in Rests[call]
    BY <2>2 DEF Rests
  <2>4. QED
    BY <2>1, <2>3
<1>9. CASE plan = <<"revoke", "withdraw">>
  <2>1. Orderly(plan) /\ Tail(plan) = <<"withdraw">>
    BY <1>2, <1>9 DEF Commits
  <2>2. call \in {"change", "confirm"}
    BY <1>9 DEF Rests, Calls
  <2>3. <<"withdraw">> \in Rests[call]
    BY <2>2 DEF Rests
  <2>4. QED
    BY <2>1, <2>3
<1>10. CASE plan = <<"claim", "verified">>
  <2>1. Orderly(plan) /\ Tail(plan) = <<"verified">>
    BY <1>2, <1>10 DEF Commits
  <2>2. call \in {"verify"}
    BY <1>10 DEF Rests, Calls
  <2>3. <<"verified">> \in Rests[call]
    BY <2>2 DEF Rests
  <2>4. QED
    BY <2>1, <2>3
<1>11. CASE plan = <<"password", "revoke">>
  <2>1. Orderly(plan) /\ Tail(plan) = <<"revoke">>
    BY <1>2, <1>11 DEF Commits
  <2>2. call \in {"admin_reset"}
    BY <1>11 DEF Rests, Calls
  <2>3. <<"revoke">> \in Rests[call]
    BY <2>2 DEF Rests
  <2>4. QED
    BY <2>1, <2>3
<1>12. CASE plan = <<"revoke", "delete">>
  <2>1. Orderly(plan) /\ Tail(plan) = <<"delete">>
    BY <1>2, <1>12 DEF Commits
  <2>2. call \in {"delete_me"}
    BY <1>12 DEF Rests, Calls
  <2>3. <<"delete">> \in Rests[call]
    BY <2>2 DEF Rests
  <2>4. QED
    BY <2>1, <2>3
<1>13. CASE plan \in {<<"cookie">>, <<"failure">>, <<"withdraw">>, <<"reset_link">>,
                      <<"verified">>, <<"verify_link">>, <<"revoke">>, <<"delete">>}
  BY <1>1, <1>13 DEF Commits
<1>14. QED
  BY <1>4, <1>5, <1>6, <1>7, <1>8, <1>9, <1>10, <1>11, <1>12, <1>13 DEF Rests, Calls

(* Who writes a password from a row loaded before, and who records a       *)
(* failure.                                                                *)
LEMMA WhoWrites ==
    ASSUME NEW call \in Calls, NEW plan \in Rests[call],
           Range(plan) \cap {"rehash", "password"} # {}
    PROVE  call \in {"login", "change", "confirm", "admin_reset"}
<1>1. CASE plan \in {<<"cookie">>, <<"failure">>, <<"reset_link">>, <<"verified">>,
                    <<"verify_link">>, <<"delete">>}
  BY <1>1, One
<1>2. /\ Range(<<"verify_link", "cookie">>) = {"verify_link", "cookie"}
      /\ Range(<<"claim", "verified">>) = {"claim", "verified"}
      /\ Range(<<"revoke", "delete">>) = {"revoke", "delete"}
      /\ Range(<<"revoke", "withdraw">>) = {"revoke", "withdraw"}
  BY Two
<1>3. /\ Range(<<"user", "verify_link", "cookie">>) = {"user", "verify_link", "cookie"}
  BY Three
<1>4. QED
  BY <1>1, <1>2, <1>3 DEF Rests, Calls

LEMMA OnlyBadLoginFails ==
    ASSUME NEW call \in Calls, NEW plan \in Rests[call], "failure" \in Range(plan)
    PROVE  call = "bad_login" /\ plan = <<"failure">>
<1>1. CASE plan \in {<<"cookie">>, <<"withdraw">>, <<"reset_link">>, <<"verified">>,
                    <<"verify_link">>, <<"revoke">>, <<"delete">>}
  BY <1>1, One
<1>2. /\ Range(<<"verify_link", "cookie">>) = {"verify_link", "cookie"}
      /\ Range(<<"rehash", "cookie">>) = {"rehash", "cookie"}
      /\ Range(<<"revoke", "withdraw">>) = {"revoke", "withdraw"}
      /\ Range(<<"claim", "verified">>) = {"claim", "verified"}
      /\ Range(<<"password", "revoke">>) = {"password", "revoke"}
      /\ Range(<<"revoke", "delete">>) = {"revoke", "delete"}
  BY Two
<1>3. /\ Range(<<"user", "verify_link", "cookie">>) = {"user", "verify_link", "cookie"}
      /\ Range(<<"password", "revoke", "withdraw">>) = {"password", "revoke", "withdraw"}
  BY Three
<1>4. Range(<<"claim", "password", "revoke", "withdraw">>) = {"claim", "password", "revoke", "withdraw"}
  BY DEF Range
<1>5. QED
  BY <1>1, <1>2, <1>3, <1>4 DEF Rests, Calls

-----------------------------------------------------------------------------
(* The invariant *)

(* A request with a password still to write knows the account it loaded. *)
Shape(rec) ==
    /\ rec \in Request
    /\ rec.plan \in Rests[rec.call]
    /\ Range(rec.plan) \cap {"rehash", "password"} # {} => rec.row # None

Tables ==
    /\ DOMAIN users \subseteq registered /\ registered \subseteq Users
    /\ \A u \in DOMAIN users : users[u] \in Account /\ users[u].password \in DOMAIN by
    /\ DOMAIN cookies \subseteq Cookies
    /\ \A c \in DOMAIN cookies : cookies[c] \in DOMAIN users
    /\ \A l \in DOMAIN links : links[l].user \in DOMAIN users
    /\ by \in Seq({"user", "admin"})
    /\ failures \in Nat /\ crashes \in 0..MaxCrashes

Shapes ==
    \A r \in Requests : requests[r] # None =>
        /\ Shape(requests[r])
        /\ requests[r].row # None => requests[r].row.password \in DOMAIN by

(* The requests that will still choose a password. *)
Choosing == Pending("user") \cup Pending("password")

Chosen == Len(by) + Cardinality(Choosing) <= MaxPasswords

Tried == failures + Cardinality(Pending("failure")) <= LoginLimit - 1 + Cardinality(Requests)

(* As long as no write overwrote a later one, a request that knows the      *)
(* current password knows its flag too.                                    *)
Knows(rec) ==
    rec # None /\ rec.row # None /\ rec.user \in DOMAIN users =>
        \/ users[rec.user].lost
        \/ rec.row.password # users[rec.user].password
        \/ rec.row.must_change = users[rec.user].must_change

Flagged == TemporaryIsFlagged /\ \A r \in Requests : Knows(requests[r])

(* What a change still has to take away is what its next commits take. *)
Locks(rec) ==
    rec # None /\ rec.call \in {"change", "confirm", "admin_reset"} =>
        /\ Head(rec.plan) = "revoke" =>
               \A c \in rec.doomed \cap DOMAIN cookies :
                   cookies[c] = rec.user /\ c # rec.cookie
        /\ Head(rec.plan) = "withdraw" => rec.doomed \cap DOMAIN cookies = {}
        /\ Head(rec.plan) \in {"revoke", "withdraw"} =>
               /\ rec.dead \subseteq issued
               /\ rec.call = "admin_reset" => rec.dead = {}
               /\ \A l \in rec.dead \cap DOMAIN links :
                      \/ links[l].used
                      \/ links[l].user = rec.user /\ links[l].purpose = "password_reset"

Locked == \A r \in Requests : Locks(requests[r])

AInv == LInv /\ Tables /\ Shapes /\ Chosen /\ Tried /\ Flagged /\ Locked

-----------------------------------------------------------------------------
(* Steps that start no request and choose no password *)

Onward(old, new) ==
    /\ new.call = old.call /\ new.user = old.user /\ new.cookie = old.cookie
    /\ new.link = old.link /\ new.doomed = old.doomed /\ new.dead = old.dead
    /\ new.plan = Tail(old.plan) /\ new.row \in {old.row, None}
    /\ Len(old.plan) # 1
    /\ Shape(new)

Quiet ==
    \A q \in Requests : requests'[q] # None =>
        /\ requests[q] # None
        /\ requests'[q] = requests[q] \/ Onward(requests[q], requests'[q])

LEMMA ProceedOnward ==
    ASSUME LInv, Shapes, NEW r \in Requests, requests[r] # None, Proceed(r, requests[r])
    PROVE  /\ \A q \in Requests \ {r} : requests'[q] = requests[q]
           /\ requests'[r] # None => Onward(requests[r], requests'[r])
<1> DEFINE rec == requests[r]
           row == IF Head(rec.plan) = "rehash" THEN None ELSE rec.row
           rest == [rec EXCEPT !.plan = Tail(@), !.row = row]
<1>1. rec \in Request /\ rec.plan \in Rests[rec.call] /\ rec.call \in Calls
  BY DEF Shapes, Shape, Request
<1>2. Orderly(rec.plan) /\ (Len(rec.plan) # 1 => Tail(rec.plan) \in Rests[rec.call])
  BY <1>1, RestIsOrderly
<1>3. /\ \A q \in Requests \ {r} : requests'[q] = requests[q]
      /\ requests'[r] = IF Len(rec.plan) = 1 THEN None ELSE rest
  BY DEF LInv, RequestsOK, Proceed
<1>4. ASSUME Len(rec.plan) # 1 PROVE Onward(rec, rest)
  <2>1. Tail(rec.plan) \in Rests[rec.call] /\ Tail(rec.plan) \in Seq(Commits)
    BY <1>1, <1>2, <1>4, RestIsOrderly DEF Orderly
  <2>2. row \in Memory \cup {None}
    BY <1>1 DEF Request
  <2>3. rest \in Request
    BY <1>1, <2>1, <2>2 DEF Request
  <2>4. /\ rest.call = rec.call /\ rest.user = rec.user /\ rest.cookie = rec.cookie
        /\ rest.link = rec.link /\ rest.doomed = rec.doomed /\ rest.dead = rec.dead
        /\ rest.plan = Tail(rec.plan) /\ rest.row = row
    BY <1>1 DEF Request
  <2>5. Range(Tail(rec.plan)) \cap {"rehash", "password"} # {} => row # None
    BY <1>2, <1>4 DEF Shapes, Shape, Orderly
  <2>6. QED
    BY <1>4, <2>1, <2>3, <2>4, <2>5 DEF Onward, Shape
<1>5. QED
  BY <1>3, <1>4

LEMMA ProceedQuiet ==
    ASSUME LInv, Shapes, NEW r \in Requests, requests[r] # None, Proceed(r, requests[r])
    PROVE  Quiet
  BY ProceedOnward DEF Quiet

LEMMA QuietShapes ==
    ASSUME Shapes, Quiet, DOMAIN by \subseteq DOMAIN by'
    PROVE  Shapes'
<1>1. SUFFICES ASSUME NEW r \in Requests, requests'[r] # None
               PROVE  /\ Shape(requests'[r])
                      /\ requests'[r].row # None => requests'[r].row.password \in DOMAIN by'
  BY DEF Shapes, Shape
<1>2. requests[r] # None /\ (requests'[r] = requests[r] \/ Onward(requests[r], requests'[r]))
  BY <1>1 DEF Quiet
<1>3. QED
  BY <1>1, <1>2 DEF Shapes, Onward

LEMMA QuietPending ==
    ASSUME Shapes, Quiet, NEW commit
    PROVE  Pending(commit)' \subseteq Pending(commit)
<1>1. SUFFICES ASSUME NEW r \in Pending(commit)' PROVE r \in Pending(commit)
  OBVIOUS
<1>2. r \in Requests /\ requests'[r] # None /\ commit \in Range(requests'[r].plan)
  BY DEF Pending
<1>3. requests[r] # None /\ (requests'[r] = requests[r] \/ Onward(requests[r], requests'[r]))
  BY <1>2 DEF Quiet
<1>4. Range(requests'[r].plan) \subseteq Range(requests[r].plan)
  <2>1. requests[r].call \in Calls /\ requests[r].plan \in Rests[requests[r].call]
    BY <1>2, <1>3 DEF Shapes, Shape, Request
  <2>2. QED
    BY <1>3, <2>1, RestIsOrderly DEF Onward, Orderly
<1>5. QED
  BY <1>2, <1>3, <1>4 DEF Pending

LEMMA PendingFinite ==
    ASSUME NEW set, set \subseteq Requests
    PROVE  /\ IsFiniteSet(set) /\ Cardinality(set) \in Nat
           /\ Cardinality(set) <= Cardinality(Requests) /\ Cardinality(Requests) \in Nat
  BY FS_Subset, FS_CardinalityType, AccountAssumption

LEMMA QuietChosen ==
    ASSUME Shapes, Tables, Chosen, Quiet, by' = by
    PROVE  Chosen'
<1>1. Choosing' \subseteq Choosing /\ Choosing \subseteq Requests
  BY QuietPending DEF Choosing, Pending
<1>2. Cardinality(Choosing') <= Cardinality(Choosing)
  BY <1>1, PendingFinite, FS_Subset
<1>3. Cardinality(Choosing) \in Nat /\ Cardinality(Choosing') \in Nat /\ Len(by) \in Nat
  BY <1>1, PendingFinite DEF Tables
<1>4. QED
  BY <1>2, <1>3, AccountAssumption DEF Chosen

LEMMA QuietTried ==
    ASSUME Shapes, Tables, Tried, Quiet, failures' \in Nat, failures' <= failures
    PROVE  Tried'
<1>1. Pending("failure")' \subseteq Pending("failure") /\ Pending("failure") \subseteq Requests
  BY QuietPending DEF Pending
<1>2. Cardinality(Pending("failure")') <= Cardinality(Pending("failure"))
  BY <1>1, PendingFinite, FS_Subset
<1>3. /\ Cardinality(Pending("failure")) \in Nat /\ Cardinality(Pending("failure")') \in Nat
      /\ Cardinality(Requests) \in Nat /\ failures \in Nat
  BY <1>1, PendingFinite DEF Tables
<1>4. QED
  BY <1>2, <1>3, AccountAssumption DEF Tried

(* Accounts may go, and keep their password, flag and history otherwise. *)
AccountsStay ==
    \A u \in DOMAIN users' :
        /\ u \in DOMAIN users
        /\ users'[u].password = users[u].password
        /\ users'[u].must_change = users[u].must_change
        /\ users'[u].lost = users[u].lost

LEMMA QuietFlagged ==
    ASSUME Flagged, Quiet, by' = by, AccountsStay
    PROVE  Flagged'
<1>1. TemporaryIsFlagged'
  BY DEF Flagged, TemporaryIsFlagged, AccountsStay
<1>2. ASSUME NEW r \in Requests PROVE Knows(requests[r])'
  <2>1. SUFFICES ASSUME requests'[r] # None, requests'[r].row # None,
                        requests'[r].user \in DOMAIN users'
                 PROVE  \/ users'[requests'[r].user].lost
                        \/ requests'[r].row.password # users'[requests'[r].user].password
                        \/ requests'[r].row.must_change = users'[requests'[r].user].must_change
    BY DEF Knows
  <2>2. /\ requests[r] # None
        /\ requests'[r].user = requests[r].user /\ requests'[r].row = requests[r].row
    BY <2>1 DEF Quiet, Onward
  <2>3. QED
    BY <2>1, <2>2 DEF Flagged, Knows, AccountsStay
<1>3. QED
  BY <1>1, <1>2 DEF Flagged

(* A new login session is in no list of sessions to go, a new link neither. *)
CookiesStay ==
    \A c \in DOMAIN cookies' :
        \/ c \in DOMAIN cookies /\ cookies'[c] = cookies[c]
        \/ \A q \in Requests : requests[q] # None => c \notin requests[q].doomed

LinksStay ==
    /\ issued \subseteq issued'
    /\ \A l \in DOMAIN links' :
           \/ /\ l \in DOMAIN links
              /\ links'[l].user = links[l].user /\ links'[l].purpose = links[l].purpose
              /\ links[l].used => links'[l].used
           \/ l \notin issued

LEMMA LocksKept ==
    ASSUME CookiesStay, LinksStay, NEW r \in Requests, requests[r] # None, Locks(requests[r])
    PROVE  Locks(requests[r])'  \/ requests'[r] # requests[r]
<1> SUFFICES ASSUME requests'[r] = requests[r] PROVE Locks(requests[r])'
  OBVIOUS
<1> DEFINE rec == requests[r]
<1>1. \A c \in rec.doomed \cap DOMAIN cookies' : c \in DOMAIN cookies /\ cookies'[c] = cookies[c]
  BY DEF CookiesStay
<1>2. rec.dead \subseteq issued => rec.dead \subseteq issued'
  BY DEF LinksStay
<1>3. rec.dead \subseteq issued =>
          \A l \in rec.dead \cap DOMAIN links' :
              /\ l \in DOMAIN links
              /\ links'[l].user = links[l].user /\ links'[l].purpose = links[l].purpose
              /\ links[l].used => links'[l].used
  BY DEF LinksStay
<1> HIDE DEF rec
<1>4. Locks(rec)'
  <2>1. rec' = rec
    BY DEF rec
  <2>2. Locks(rec)
    BY DEF rec
  <2>3. SUFFICES ASSUME rec # None, rec.call \in {"change", "confirm", "admin_reset"}
                 PROVE  Locks(rec)'
    BY <2>1 DEF Locks
  <2>4. Head(rec.plan) = "revoke" =>
            \A c \in rec.doomed \cap DOMAIN cookies' : cookies'[c] = rec.user /\ c # rec.cookie
    BY <1>1, <2>2, <2>3 DEF Locks
  <2>5. Head(rec.plan) = "withdraw" => rec.doomed \cap DOMAIN cookies' = {}
    BY <1>1, <2>2, <2>3 DEF Locks
  <2>6. Head(rec.plan) \in {"revoke", "withdraw"} =>
               /\ rec.dead \subseteq issued'
               /\ rec.call = "admin_reset" => rec.dead = {}
               /\ \A l \in rec.dead \cap DOMAIN links' :
                      \/ links'[l].used
                      \/ links'[l].user = rec.user /\ links'[l].purpose = "password_reset"
    BY <1>2, <1>3, <2>2, <2>3 DEF Locks
  <2>7. QED
    BY <2>1, <2>4, <2>5, <2>6 DEF Locks
<1>5. QED
  BY <1>4 DEF rec

(* The requests that stand still keep what they have to take away. *)
LEMMA LockedKept ==
    ASSUME Locked, CookiesStay, LinksStay,
           \A q \in Requests : requests'[q] # None =>
               \/ requests[q] # None /\ requests'[q] = requests[q]
               \/ Locks(requests[q])'
    PROVE  Locked'
<1>1. SUFFICES ASSUME NEW q \in Requests PROVE Locks(requests[q])'
  BY DEF Locked
<1>2. CASE requests'[q] = None
  BY <1>2 DEF Locks
<1>3. CASE requests'[q] # None /\ requests[q] # None /\ requests'[q] = requests[q]
  BY <1>3, LocksKept DEF Locked
<1>4. QED
  BY <1>2, <1>3

(* A request that does not come to take something away now. *)
LEMMA LocksIdle ==
    ASSUME NEW r, requests'[r] # None,
           Head(requests'[r].plan) \notin {"revoke", "withdraw"}
    PROVE  Locks(requests[r])'
  BY DEF Locks

-----------------------------------------------------------------------------
(* The start of a request *)

LEMMA BeginKeepsAccess ==
    ASSUME AInv, NEW r \in Requests, NEW call \in Calls, NEW u \in Users,
           NEW cookie \in Cookies \cup {None}, NEW link \in Links \cup {None},
           call \in {"login", "change", "confirm", "admin_reset"} => u \in DOMAIN users,
           call = "bad_login" => NotLimited,
           Begin(r, call, u, cookie, link)
    PROVE  Tables' /\ Shapes' /\ Chosen' /\ Tried' /\ Flagged' /\ Locked'
<1> DEFINE account == IF u \in DOMAIN users THEN users[u] ELSE None
           plan == Plan(call, account)
           row == Loaded(call, account)
           new == [call |-> call, user |-> u, row |-> row, cookie |-> cookie,
                   link |-> link, plan |-> plan, doomed |-> {}, dead |-> {}]
<1>1. /\ requests[r] = None /\ WithinBounds(plan)
      /\ requests' = [requests EXCEPT ![r] = new]
      /\ UNCHANGED <<users, cookies, links, by, failures, crashes, registered, history>>
  BY DEF Begin
<1>2. /\ requests'[r] = new
      /\ \A q \in Requests \ {r} : requests'[q] = requests[q]
  BY <1>1 DEF AInv, LInv, RequestsOK
<1>3. plan \in Rests[call] /\ Orderly(plan)
  BY PlanIsRest, RestIsOrderly
<1>4. u \in DOMAIN users => account = users[u] /\ account \in Account /\ account # None
  BY NoneIsNoRow DEF AInv, Tables
<1>5. row # None => /\ u \in DOMAIN users
                    /\ row = [password |-> users[u].password, must_change |-> users[u].must_change]
                    /\ row.password \in DOMAIN by
  BY <1>4 DEF Loaded, AInv, Tables
<1>6. row \in Memory \cup {None}
  BY <1>4, <1>5 DEF Account, Memory
<1>7. new \in Request
  BY <1>3, <1>6 DEF Request, Orderly
<1>8. Range(plan) \cap {"rehash", "password"} # {} => row # None
  <2>1. Range(plan) \cap {"rehash", "password"} # {} =>
            call \in {"login", "change", "confirm", "admin_reset"}
    BY <1>3, WhoWrites
  <2>2. u \in DOMAIN users =>
            [password |-> account.password, must_change |-> account.must_change] \in Memory
    BY <1>4 DEF Account, Memory
  <2>3. QED
    BY <1>4, <2>1, <2>2, NoneIsNoRow DEF Loaded
<1>9. Shape(new)
  BY <1>3, <1>7, <1>8 DEF Shape
<1>10. Tables'
  BY <1>1 DEF AInv, Tables
<1>11. Shapes'
  BY <1>1, <1>2, <1>5, <1>9 DEF AInv, Shapes, Shape
<1>12. /\ \A q \in Requests : q # r /\ requests'[q] # None => requests'[q] = requests[q]
       /\ \A commit : Pending(commit)' \subseteq Pending(commit) \cup {r}
       /\ \A commit : commit \notin Range(plan) => Pending(commit)' \subseteq Pending(commit)
  BY <1>2 DEF Pending
<1>13. Chosen'
  <2>1. CASE Range(plan) \cap {"user", "password"} = {}
    <3>1. Choosing' \subseteq Choosing /\ Choosing \subseteq Requests
      BY <1>12, <2>1 DEF Choosing, Pending
    <3>2. Cardinality(Choosing') <= Cardinality(Choosing)
      BY <3>1, PendingFinite, FS_Subset
    <3>3. Cardinality(Choosing) \in Nat /\ Cardinality(Choosing') \in Nat /\ Len(by) \in Nat
      BY <3>1, PendingFinite DEF AInv, Tables
    <3>4. QED
      BY <1>1, <3>2, <3>3, AccountAssumption DEF AInv, Chosen
  <2>2. CASE Range(plan) \cap {"user", "password"} # {}
    <3>1. Choosing' \subseteq Choosing \cup {r} /\ Choosing \subseteq Requests
      BY <1>12 DEF Choosing, Pending
    <3>2. /\ IsFiniteSet(Choosing) /\ IsFiniteSet(Choosing \cup {r})
          /\ Cardinality(Choosing \cup {r}) <= Cardinality(Choosing) + 1
      BY <3>1, PendingFinite, FS_AddElement
    <3>3. Cardinality(Choosing') <= Cardinality(Choosing \cup {r})
      BY <3>1, <3>2, FS_Subset
    <3>4. /\ Cardinality(Choosing) \in Nat /\ Cardinality(Choosing') \in Nat
          /\ Cardinality(Choosing \cup {r}) \in Nat /\ Len(by) \in Nat
      BY <3>1, <3>2, PendingFinite, FS_CardinalityType, FS_Subset DEF AInv, Tables
    <3>5. Len(by) + Cardinality(Choosing) < MaxPasswords
      BY <1>1, <2>2 DEF WithinBounds, Choosing
    <3>6. by' = by
      BY <1>1
    <3>7. QED
      BY <3>2, <3>3, <3>4, <3>5, <3>6, AccountAssumption DEF Chosen
  <2>3. QED
    BY <2>1, <2>2
<1>14. Tried'
  <2>1. CASE call = "bad_login"
    <3>1. Pending("failure")' \subseteq Requests
      BY DEF Pending
    <3>2. /\ Cardinality(Pending("failure")') \in Nat /\ Cardinality(Requests) \in Nat
          /\ Cardinality(Pending("failure")') <= Cardinality(Requests)
      BY <3>1, PendingFinite
    <3>3. failures < LoginLimit /\ failures' = failures /\ failures \in Nat
      BY <1>1, <2>1 DEF NotLimited, AInv, Tables
    <3>4. QED
      BY <3>2, <3>3, AccountAssumption DEF Tried
  <2>2. CASE call # "bad_login"
    <3>1. "failure" \notin Range(plan)
      BY <1>3, <2>2, OnlyBadLoginFails
    <3>2. Pending("failure")' \subseteq Pending("failure") /\ Pending("failure") \subseteq Requests
      BY <1>12, <3>1 DEF Pending
    <3>3. Cardinality(Pending("failure")') <= Cardinality(Pending("failure"))
      BY <3>2, PendingFinite, FS_Subset
    <3>4. /\ Cardinality(Pending("failure")) \in Nat /\ Cardinality(Pending("failure")') \in Nat
          /\ Cardinality(Requests) \in Nat /\ failures \in Nat
      BY <3>2, PendingFinite DEF AInv, Tables
    <3>5. failures' = failures
      BY <1>1
    <3>6. QED
      BY <3>3, <3>4, <3>5, AccountAssumption DEF AInv, Tried
  <2>3. QED
    BY <2>1, <2>2
<1>15. Flagged'
  <2>1. TemporaryIsFlagged'
    BY <1>1 DEF AInv, Flagged, TemporaryIsFlagged
  <2>2. ASSUME NEW q \in Requests PROVE Knows(requests[q])'
    <3>1. CASE q = r
      <4>1. requests'[q] = new /\ new.row = row /\ new.user = u
        BY <1>2, <3>1
      <4> HIDE DEF new
      <4>2. QED
        BY <1>1, <1>5, <4>1 DEF Knows
    <3>2. CASE q # r
      BY <1>1, <1>2, <3>2 DEF AInv, Flagged, Knows
    <3>3. QED
      BY <3>1, <3>2
  <2>3. QED
    BY <2>1, <2>2 DEF Flagged
<1>16. Locked'
  <2>1. CookiesStay /\ LinksStay
    BY <1>1 DEF CookiesStay, LinksStay, history
  <2>2. Locks(requests[r])'
    <3>1. requests'[r] = new /\ new.doomed = {} /\ new.dead = {}
      BY <1>2
    <3> HIDE DEF new
    <3>2. QED
      BY <3>1 DEF Locks
  <2>3. QED
    BY <1>2, <2>1, <2>2, LockedKept DEF AInv
<1>17. QED
  BY <1>10, <1>11, <1>13, <1>14, <1>15, <1>16

-----------------------------------------------------------------------------
(* The commits *)

LEMMA RestHeads ==
    ASSUME NEW call \in Calls, NEW plan \in Rests[call]
    PROVE  /\ Head(plan) = "user" => call = "register"
           /\ Head(plan) = "password" =>
                  /\ call \in {"change", "confirm", "admin_reset"}
                  /\ Len(plan) # 1 /\ Head(Tail(plan)) = "revoke"
           /\ Head(plan) = "revoke" =>
                  \/ call \in {"change", "confirm"} /\ plan = <<"revoke", "withdraw">>
                  \/ call = "admin_reset" /\ plan = <<"revoke">>
                  \/ call = "delete_me"
           /\ Head(plan) = "withdraw" =>
                  call \in {"change", "confirm"} /\ plan = <<"withdraw">>
           /\ Head(plan) \notin {"password", "revoke"} /\ Len(plan) # 1 =>
                  Head(Tail(plan)) \notin {"revoke", "withdraw"}
<1> DEFINE Goal == 
           /\ Head(plan) = "user" => call = "register"
           /\ Head(plan) = "password" =>
                  /\ call \in {"change", "confirm", "admin_reset"}
                  /\ Len(plan) # 1 /\ Head(Tail(plan)) = "revoke"
           /\ Head(plan) = "revoke" =>
                  \/ call \in {"change", "confirm"} /\ plan = <<"revoke", "withdraw">>
                  \/ call = "admin_reset" /\ plan = <<"revoke">>
                  \/ call = "delete_me"
           /\ Head(plan) = "withdraw" =>
                  call \in {"change", "confirm"} /\ plan = <<"withdraw">>
           /\ Head(plan) \notin {"password", "revoke"} /\ Len(plan) # 1 =>
                  Head(Tail(plan)) \notin {"revoke", "withdraw"}
<1>1. ASSUME NEW a, plan = <<a>> PROVE Goal
  BY <1>1, One DEF Rests, Calls
<1>2. ASSUME NEW a, NEW b, plan = <<a, b>> PROVE Goal
  BY <1>2, One, Two DEF Rests, Calls
<1>3. ASSUME NEW a, NEW b, NEW c, plan = <<a, b, c>> PROVE Goal
  BY <1>3, Two, Three DEF Rests, Calls
<1>4. CASE plan = <<"claim", "password", "revoke", "withdraw">>
  BY <1>4, Three, Four DEF Rests, Calls
<1>5. QED
  BY <1>1, <1>2, <1>3, <1>4 DEF Rests, Calls

LEMMA AtHead ==
    ASSUME Shapes, NEW r \in Requests, requests[r] # None
    PROVE  /\ requests[r] \in Request /\ requests[r].call \in Calls
           /\ requests[r].user \in Users
           /\ requests[r].plan \in Rests[requests[r].call]
           /\ Orderly(requests[r].plan)
<1>1. /\ requests[r] \in Request /\ requests[r].call \in Calls /\ requests[r].user \in Users
      /\ requests[r].plan \in Rests[requests[r].call]
  BY DEF Shapes, Shape, Request
<1>2. QED
  BY <1>1, RestIsOrderly

LEMMA ProceedLocks ==
    ASSUME LInv, Shapes, Locked, NEW r \in Requests, requests[r] # None, Proceed(r, requests[r]),
           Head(requests[r].plan) \notin {"password", "revoke"}, CookiesStay, LinksStay
    PROVE  Locked'
<1>1. /\ \A q \in Requests \ {r} : requests'[q] = requests[q]
      /\ requests'[r] # None => Onward(requests[r], requests'[r])
  BY ProceedOnward
<1>2. Locks(requests[r])'
  <2>1. CASE requests'[r] = None
    BY <2>1 DEF Locks
  <2>2. CASE requests'[r] # None
    <3>1. Head(requests'[r].plan) \notin {"revoke", "withdraw"}
      BY <1>1, <2>2, AtHead, RestHeads DEF Onward
    <3>2. QED
      BY <2>2, <3>1, LocksIdle
  <2>3. QED
    BY <2>1, <2>2
<1>3. QED
  BY <1>1, <1>2, LockedKept

(* What is left of a request is without the commit it made. *)
LEMMA ProceedDone ==
    ASSUME LInv, Shapes, NEW r \in Requests, requests[r] # None, Proceed(r, requests[r]),
           NEW commit, commit = Head(requests[r].plan)
    PROVE  /\ r \in Pending(commit) /\ r \notin Pending(commit)'
           /\ commit \in {"user", "password"} => r \notin Choosing'
<1>1. requests'[r] # None => Onward(requests[r], requests'[r])
  BY ProceedOnward
<1>2. Orderly(requests[r].plan)
  BY AtHead
<1>3. r \in Pending(commit)
  BY <1>2 DEF Orderly, Pending
<1>4. requests'[r] # None => commit \notin Range(requests'[r].plan)
  BY <1>1, <1>2 DEF Orderly, Onward
<1>5. requests'[r] # None /\ commit \in {"user", "password"} =>
          "user" \notin Range(requests'[r].plan) /\ "password" \notin Range(requests'[r].plan)
  BY <1>1, <1>2 DEF Orderly, Onward
<1>6. QED
  BY <1>3, <1>4, <1>5 DEF Pending, Choosing

(* Commits that change no password, no flag, and end no account. *)
LEMMA PlainCommit ==
    ASSUME AInv, NEW r \in Requests, requests[r] # None, Proceed(r, requests[r]),
           Head(requests[r].plan) \notin {"password", "revoke"},
           by' = by, failures' = failures, AccountsStay, CookiesStay, LinksStay
    PROVE  Shapes' /\ Chosen' /\ Tried' /\ Flagged' /\ Locked'
<1>1. Quiet
  BY ProceedQuiet DEF AInv
<1>2. Shapes' /\ Chosen' /\ Flagged'
  BY <1>1, QuietShapes, QuietChosen, QuietFlagged DEF AInv
<1>3. Tried'
  BY <1>1, QuietTried DEF AInv, Tables
<1>4. Locked'
  BY ProceedLocks DEF AInv
<1>5. QED
  BY <1>2, <1>3, <1>4

(* One password more is chosen, by a request that leaves those to choose one. *)
LEMMA ChosenOne ==
    ASSUME Tables, Chosen, NEW r \in Requests, r \in Choosing,
           Choosing' \subseteq Choosing \ {r}, Len(by') = Len(by) + 1
    PROVE  Chosen' /\ Len(by) + 1 \in 1..MaxPasswords
<1>1. Choosing \subseteq Requests
  BY DEF Choosing, Pending
<1>2. /\ IsFiniteSet(Choosing) /\ IsFiniteSet(Choosing \ {r})
      /\ Cardinality(Choosing \ {r}) = Cardinality(Choosing) - 1
  BY <1>1, PendingFinite, FS_RemoveElement
<1>3. Cardinality(Choosing') <= Cardinality(Choosing \ {r})
  BY <1>2, FS_Subset
<1>4. /\ Cardinality(Choosing) \in Nat /\ Cardinality(Choosing \ {r}) \in Nat
      /\ Cardinality(Choosing') \in Nat /\ Len(by) \in Nat
  BY <1>1, PendingFinite DEF Tables
<1>5. QED
  BY <1>2, <1>3, <1>4, AccountAssumption DEF Chosen

LEMMA WriteUserKeeps ==
    ASSUME AInv, NEW r \in Requests, requests[r] # None, Head(requests[r].plan) = "user",
           WriteUser(r, requests[r])
    PROVE  Tables' /\ Shapes' /\ Chosen' /\ Tried' /\ Flagged' /\ Locked'
<1> DEFINE u == requests[r].user
           new == [password |-> Len(by) + 1, must_change |-> FALSE, verified |-> FALSE,
                   outdated |-> FALSE, lost |-> FALSE]
<1>1. /\ u \notin registered /\ users' = Put(users, u, new) /\ registered' = registered \cup {u}
      /\ by' = Append(by, "user") /\ Proceed(r, requests[r])
      /\ UNCHANGED <<cookies, links, failures, crashes, history>>
  BY DEF WriteUser
<1>2. Quiet /\ u \in Users
  BY <1>1, ProceedQuiet, AtHead DEF AInv
<1>3. by \in Seq({"user", "admin"}) /\ Len(by) \in Nat
  BY DEF AInv, Tables
<1>4. /\ by' \in Seq({"user", "admin"}) /\ Len(by') = Len(by) + 1
      /\ DOMAIN by = 1..Len(by) /\ DOMAIN by' = 1..(Len(by) + 1)
      /\ by'[Len(by) + 1] = "user" /\ \A p \in DOMAIN by : by'[p] = by[p]
  BY <1>1, <1>3
<1>5. r \in Choosing /\ Choosing' \subseteq Choosing \ {r}
  <2>1. r \in Choosing /\ r \notin Choosing'
    BY <1>1, ProceedDone DEF AInv, Choosing
  <2>2. QED
    BY <1>2, <2>1, QuietPending DEF AInv, Choosing
<1>6. Chosen' /\ Len(by) + 1 \in 1..MaxPasswords
  BY <1>4, <1>5, ChosenOne DEF AInv
<1>7. new \in Account
  BY <1>6 DEF Account
<1>8. /\ DOMAIN users' = DOMAIN users \cup {u} /\ u \notin DOMAIN users /\ users'[u] = new
      /\ \A v \in DOMAIN users : users'[v] = users[v]
  BY <1>1 DEF Put, AInv, Tables
<1>9. Tables'
  <2>1. DOMAIN users' \subseteq registered' /\ registered' \subseteq Users
    BY <1>1, <1>2, <1>8 DEF AInv, Tables
  <2>2. \A v \in DOMAIN users' : users'[v] \in Account /\ users'[v].password \in DOMAIN by'
    BY <1>3, <1>4, <1>7, <1>8 DEF AInv, Tables
  <2>3. QED
    BY <1>1, <1>4, <1>8, <2>1, <2>2 DEF AInv, Tables
<1>10. Shapes' /\ Tried'
  BY <1>1, <1>2, <1>3, <1>4, QuietShapes, QuietTried DEF AInv, Tables
<1>11. Locked'
  <2>1. CookiesStay /\ LinksStay
    BY <1>1 DEF CookiesStay, LinksStay, history
  <2>2. QED
    BY <1>1, <2>1, ProceedLocks DEF AInv
<1>12. Flagged'
  <2>1. TemporaryIsFlagged'
    BY <1>4, <1>8 DEF TemporaryIsFlagged, AInv, Flagged, Tables
  <2>2. ASSUME NEW q \in Requests PROVE Knows(requests[q])'
    <3>1. SUFFICES ASSUME requests'[q] # None, requests'[q].row # None,
                          requests'[q].user \in DOMAIN users'
                   PROVE  \/ users'[requests'[q].user].lost
                          \/ requests'[q].row.password # users'[requests'[q].user].password
                          \/ requests'[q].row.must_change = users'[requests'[q].user].must_change
      BY DEF Knows
    <3>2. /\ requests[q] # None
          /\ requests'[q].user = requests[q].user /\ requests'[q].row = requests[q].row
      BY <1>2, <3>1 DEF Quiet, Onward
    <3>3. requests[q].row.password \in DOMAIN by
      BY <3>1, <3>2 DEF AInv, Shapes
    <3>4. CASE requests[q].user = u
      BY <1>3, <1>4, <1>8, <3>2, <3>3, <3>4
    <3>5. CASE requests[q].user # u
      BY <1>8, <3>1, <3>2, <3>5 DEF AInv, Flagged, Knows
    <3>6. QED
      BY <3>4, <3>5
  <2>3. QED
    BY <2>1, <2>2 DEF Flagged
<1>13. QED
  BY <1>6, <1>9, <1>10, <1>11, <1>12

LEMMA WritePasswordRequests ==
    ASSUME LInv, Tables, Shapes, NEW r \in Requests, requests[r] # None,
           Head(requests[r].plan) = "password", WritePassword(r, requests[r])
    PROVE  /\ \A q \in Requests \ {r} : requests'[q] = requests[q]
           /\ Shape(requests'[r]) /\ requests'[r].row = None
           /\ requests'[r].user = requests[r].user /\ requests'[r].call = requests[r].call
           /\ requests'[r].cookie = requests[r].cookie
           /\ requests'[r].plan = Tail(requests[r].plan)
           /\ requests'[r].doomed = CookiesOf(requests[r].user) \ {requests[r].cookie}
           /\ requests'[r].dead = IF requests[r].call = "admin_reset" THEN {}
                                  ELSE Live(requests[r].user, "password_reset")
<1> DEFINE rec == requests[r]
           doomed == CookiesOf(rec.user) \ {rec.cookie}
           dead == IF rec.call = "admin_reset" THEN {} ELSE Live(rec.user, "password_reset")
           rest == [rec EXCEPT !.plan = Tail(@), !.row = None, !.doomed = doomed, !.dead = dead]
<1>1. requests' = [requests EXCEPT ![r] = rest]
  BY DEF WritePassword
<1>2. (\A q \in Requests \ {r} : requests'[q] = requests[q]) /\ requests'[r] = rest
  BY <1>1 DEF LInv, RequestsOK
<1>3. /\ rec \in Request /\ rec.call \in Calls /\ rec.plan \in Rests[rec.call]
      /\ Orderly(rec.plan) /\ Len(rec.plan) # 1
  BY AtHead, RestHeads
<1>4. Tail(rec.plan) \in Rests[rec.call] /\ Orderly(Tail(rec.plan))
  BY <1>3, RestIsOrderly
<1>5. /\ rest.call = rec.call /\ rest.user = rec.user /\ rest.cookie = rec.cookie
      /\ rest.plan = Tail(rec.plan) /\ rest.row = None
      /\ rest.doomed = doomed /\ rest.dead = dead
  BY <1>3 DEF Request
<1>6. Range(Tail(rec.plan)) \cap {"rehash", "password"} = {}
  BY <1>3 DEF Orderly
<1>7. rest \in Request
  <2>1. /\ doomed \in SUBSET Cookies /\ dead \in SUBSET Links
        /\ Tail(rec.plan) \in Seq(Commits)
    BY <1>4 DEF CookiesOf, Live, Orderly, LInv, LinkTypes, Tables
  <2> HIDE DEF doomed, dead
  <2>2. QED
    BY <1>3, <2>1 DEF Request
<1> HIDE DEF rest
<1>8. QED
  BY <1>2, <1>3, <1>4, <1>5, <1>6, <1>7 DEF Shape

LEMMA WritePasswordAccess ==
    ASSUME AInv, NEW r \in Requests, requests[r] # None, Head(requests[r].plan) = "password",
           WritePassword(r, requests[r])
    PROVE  Tables' /\ Shapes' /\ Chosen' /\ Tried' /\ Flagged' /\ Locked'
<1> DEFINE rec == requests[r]
           u == rec.user
           who == IF rec.call = "admin_reset" THEN "admin" ELSE "user"
           new == PasswordWritten(users[u], rec)
<1>1. /\ u \in DOMAIN users /\ users' = [users EXCEPT ![u] = new]
      /\ by' = Append(by, who)
      /\ UNCHANGED <<cookies, links, failures, crashes, registered, issued, redeemed>>
  BY DEF WritePassword
<1>2. /\ \A q \in Requests \ {r} : requests'[q] = requests[q]
      /\ Shape(requests'[r]) /\ requests'[r].row = None
      /\ requests'[r].plan = Tail(rec.plan)
  BY WritePasswordRequests DEF AInv
<1>3. /\ rec \in Request /\ rec.call \in Calls /\ rec.plan \in Rests[rec.call]
      /\ Orderly(rec.plan) /\ Len(rec.plan) # 1 /\ Head(Tail(rec.plan)) = "revoke"
      /\ rec.row # None
  <2>1. /\ rec \in Request /\ rec.call \in Calls /\ rec.plan \in Rests[rec.call]
        /\ Orderly(rec.plan)
    BY AtHead DEF AInv
  <2>2. Len(rec.plan) # 1 /\ Head(Tail(rec.plan)) = "revoke"
    BY <2>1, RestHeads
  <2>3. Range(rec.plan) \cap {"rehash", "password"} # {}
    BY <2>1 DEF Orderly
  <2>4. QED
    BY <2>1, <2>2, <2>3 DEF AInv, Shapes, Shape
<1>4. /\ by \in Seq({"user", "admin"}) /\ Len(by) \in Nat
      /\ by' \in Seq({"user", "admin"}) /\ Len(by') = Len(by) + 1
      /\ DOMAIN by = 1..Len(by) /\ DOMAIN by' = 1..(Len(by) + 1)
      /\ by'[Len(by) + 1] = who /\ \A p \in DOMAIN by : by'[p] = by[p]
  <2>1. by \in Seq({"user", "admin"}) /\ who \in {"user", "admin"}
    BY DEF AInv, Tables
  <2> HIDE DEF who
  <2>2. QED
    BY <1>1, <2>1
<1>5. \A commit : /\ Pending(commit)' \subseteq Pending(commit)
                  /\ commit \in {"user", "password"} => r \notin Pending(commit)'
  BY <1>2, <1>3 DEF Pending, Orderly
<1>6. r \in Choosing /\ Choosing' \subseteq Choosing \ {r}
  BY <1>3, <1>5 DEF Choosing, Pending, Orderly
<1>7. Chosen' /\ Len(by) + 1 \in 1..MaxPasswords
  BY <1>4, <1>6, ChosenOne DEF AInv
<1>8. users[u] \in Account /\ rec.row \in Memory
  BY <1>1, <1>3 DEF AInv, Tables, Request
<1>9. /\ new \in Account /\ new.password = Len(by) + 1
      /\ new.lost <=> users[u].lost \/ rec.row.password # users[u].password
      /\ rec.call = "admin_reset" /\ rec.row.must_change = users[u].must_change
             => new.must_change
  BY <1>7, <1>8 DEF PasswordWritten, Account, Memory
<1> HIDE DEF new
<1>10. /\ DOMAIN users' = DOMAIN users /\ users'[u] = new
       /\ \A v \in DOMAIN users \ {u} : users'[v] = users[v]
  BY <1>1
<1>11. Tables'
  <2>1. \A v \in DOMAIN users' : users'[v] \in Account /\ users'[v].password \in DOMAIN by'
    BY <1>4, <1>9, <1>10 DEF AInv, Tables
  <2>2. QED
    BY <1>1, <1>4, <1>10, <2>1 DEF AInv, Tables
<1>12. Shapes'
  <2>1. SUFFICES ASSUME NEW q \in Requests, requests'[q] # None
                 PROVE  /\ Shape(requests'[q])
                        /\ requests'[q].row # None => requests'[q].row.password \in DOMAIN by'
    BY DEF Shapes, Shape
  <2>2. CASE q = r
    BY <1>2, <2>2
  <2>3. CASE q # r
    BY <1>2, <1>4, <2>1, <2>3 DEF AInv, Shapes
  <2>4. QED
    BY <2>2, <2>3
<1>13. Tried'
  <2>1. Pending("failure")' \subseteq Pending("failure") /\ Pending("failure") \subseteq Requests
    BY <1>5 DEF Pending
  <2>2. Cardinality(Pending("failure")') <= Cardinality(Pending("failure"))
    BY <2>1, PendingFinite, FS_Subset
  <2>3. /\ Cardinality(Pending("failure")) \in Nat /\ Cardinality(Pending("failure")') \in Nat
        /\ Cardinality(Requests) \in Nat /\ failures \in Nat
    BY <2>1, PendingFinite DEF AInv, Tables
  <2>4. failures' = failures
    BY <1>1
  <2>5. QED
    BY <2>2, <2>3, <2>4, AccountAssumption DEF AInv, Tried
<1>14. Flagged'
  <2>1. ASSUME NEW v \in DOMAIN users', by'[users'[v].password] = "admin"
        PROVE  users'[v].must_change \/ users'[v].lost
    <3>1. CASE v # u
      BY <1>4, <1>10, <2>1, <3>1 DEF AInv, Flagged, TemporaryIsFlagged, Tables
    <3>2. CASE v = u
      <4>1. rec.call = "admin_reset"
        BY <1>4, <1>9, <1>10, <2>1, <3>2
      <4>2. Knows(rec)
        BY DEF AInv, Flagged
      <4>3. CASE rec.row.must_change = users[u].must_change
        BY <1>9, <1>10, <3>2, <4>1, <4>3
      <4>4. CASE users[u].lost \/ rec.row.password # users[u].password
        BY <1>9, <1>10, <3>2, <4>4
      <4>5. QED
        BY <1>1, <1>3, <4>2, <4>3, <4>4 DEF Knows
    <3>3. QED
      BY <3>1, <3>2
  <2>2. ASSUME NEW q \in Requests PROVE Knows(requests[q])'
    <3>1. CASE q = r
      BY <1>2, <3>1 DEF Knows
    <3>2. CASE q # r
      <4>1. requests'[q] = requests[q]
        BY <1>2, <3>2
      <4>2. requests[q] # None /\ requests[q].row # None => requests[q].row.password \in DOMAIN by
        BY DEF AInv, Shapes
      <4>3. requests[q].row.password \in DOMAIN by => requests[q].row.password # Len(by) + 1
        BY <1>4
      <4>4. QED
        BY <1>9, <1>10, <4>1, <4>2, <4>3 DEF AInv, Flagged, Knows
    <3>3. QED
      BY <3>1, <3>2
  <2>3. QED
    BY <2>1, <2>2 DEF Flagged, TemporaryIsFlagged
<1>15. Locked'
  <2>1. CookiesStay /\ LinksStay
    BY <1>1 DEF CookiesStay, LinksStay
  <2>2. Locks(requests[r])'
    <3>1. /\ requests'[r].user = u /\ requests'[r].call = rec.call
          /\ requests'[r].cookie = rec.cookie
          /\ requests'[r].doomed = CookiesOf(u) \ {rec.cookie}
          /\ requests'[r].dead = IF rec.call = "admin_reset" THEN {} ELSE Live(u, "password_reset")
      BY WritePasswordRequests DEF AInv
    <3>2. Head(requests'[r].plan) = "revoke"
      BY <1>2, <1>3
    <3>3. \A c \in requests'[r].doomed : cookies'[c] = u /\ c # rec.cookie
      BY <1>1, <3>1 DEF CookiesOf
    <3>4. \A l \in requests'[r].dead : /\ l \in issued' /\ links'[l].user = u
                                       /\ links'[l].purpose = "password_reset"
      BY <1>1, <3>1 DEF Live, AInv, LInv, LinkTypes
    <3>5. QED
      BY <3>1, <3>2, <3>3, <3>4 DEF Locks
  <2>3. QED
    BY <1>2, <2>1, <2>2, LockedKept DEF AInv
<1>16. QED
  BY <1>7, <1>11, <1>12, <1>13, <1>14, <1>15

LEMMA WriteRehashKeeps ==
    ASSUME AInv, NEW r \in Requests, requests[r] # None, Head(requests[r].plan) = "rehash",
           WriteRehash(r, requests[r])
    PROVE  Tables' /\ Shapes' /\ Chosen' /\ Tried' /\ Flagged' /\ Locked'
<1> DEFINE rec == requests[r]
           u == rec.user
           new == Rehashed(users[u], rec)
<1>1. /\ u \in DOMAIN users /\ users' = [users EXCEPT ![u] = new] /\ Proceed(r, rec)
      /\ UNCHANGED <<cookies, links, by, failures, crashes, registered, history>>
  BY DEF WriteRehash
<1>2. Quiet
  BY <1>1, ProceedQuiet DEF AInv
<1>3. rec \in Request /\ rec.row # None /\ rec.row.password \in DOMAIN by
  <2>1. rec \in Request /\ Orderly(rec.plan)
    BY AtHead DEF AInv
  <2>2. Range(rec.plan) \cap {"rehash", "password"} # {}
    BY <2>1 DEF Orderly
  <2>3. QED
    BY <2>1, <2>2 DEF AInv, Shapes, Shape
<1>4. users[u] \in Account /\ rec.row \in Memory
  BY <1>1, <1>3 DEF AInv, Tables, Request
<1>5. /\ new \in Account /\ new.password = rec.row.password
      /\ new.must_change = users[u].must_change
      /\ new.lost <=> users[u].lost \/ rec.row.password # users[u].password
  BY <1>4 DEF Rehashed, Account, Memory
<1> HIDE DEF new
<1>6. /\ DOMAIN users' = DOMAIN users /\ users'[u] = new
      /\ \A v \in DOMAIN users \ {u} : users'[v] = users[v]
  BY <1>1
<1>7. Tables'
  <2>1. \A v \in DOMAIN users' : users'[v] \in Account /\ users'[v].password \in DOMAIN by'
    BY <1>1, <1>3, <1>5, <1>6 DEF AInv, Tables
  <2>2. QED
    BY <1>1, <1>6, <2>1 DEF AInv, Tables
<1>8. Shapes' /\ Chosen' /\ Tried'
  BY <1>1, <1>2, QuietShapes, QuietChosen, QuietTried DEF AInv, Tables
<1>9. Locked'
  <2>1. CookiesStay /\ LinksStay
    BY <1>1 DEF CookiesStay, LinksStay, history
  <2>2. QED
    BY <1>1, <2>1, ProceedLocks DEF AInv
<1>10. new.lost \/ new.password = users[u].password
  BY <1>5
<1>11. new.lost \/ ~users[u].lost
  BY <1>5
<1>12. Flagged'
  <2>1. TemporaryIsFlagged'
    BY <1>1, <1>5, <1>6, <1>10, <1>11 DEF AInv, Flagged, TemporaryIsFlagged
  <2>2. ASSUME NEW q \in Requests PROVE Knows(requests[q])'
    <3>1. SUFFICES ASSUME requests'[q] # None, requests'[q].row # None,
                          requests'[q].user \in DOMAIN users'
                   PROVE  \/ users'[requests'[q].user].lost
                          \/ requests'[q].row.password # users'[requests'[q].user].password
                          \/ requests'[q].row.must_change = users'[requests'[q].user].must_change
      BY DEF Knows
    <3>2. /\ requests[q] # None
          /\ requests'[q].user = requests[q].user /\ requests'[q].row = requests[q].row
      BY <1>2, <3>1 DEF Quiet, Onward
    <3>3. Knows(requests[q])
      BY DEF AInv, Flagged
    <3>4. CASE requests[q].user = u
      BY <1>5, <1>6, <1>10, <1>11, <3>1, <3>2, <3>3, <3>4 DEF Knows
    <3>5. CASE requests[q].user # u
      BY <1>6, <3>1, <3>2, <3>3, <3>5 DEF Knows
    <3>6. QED
      BY <3>4, <3>5
  <2>3. QED
    BY <2>1, <2>2 DEF Flagged
<1>13. QED
  BY <1>7, <1>8, <1>9, <1>12

LEMMA WriteVerifiedAccess ==
    ASSUME AInv, NEW r \in Requests, requests[r] # None, Head(requests[r].plan) = "verified",
           WriteVerified(r, requests[r])
    PROVE  Tables' /\ Shapes' /\ Chosen' /\ Tried' /\ Flagged' /\ Locked'
<1> DEFINE u == requests[r].user
<1>1. /\ u \in DOMAIN users /\ users' = [users EXCEPT ![u].verified = TRUE]
      /\ Proceed(r, requests[r])
      /\ UNCHANGED <<cookies, links, by, failures, crashes, registered, issued>>
  BY DEF WriteVerified
<1>2. /\ DOMAIN users' = DOMAIN users
      /\ \A v \in DOMAIN users : /\ users'[v] \in Account
                                 /\ users'[v].password = users[v].password
                                 /\ users'[v].must_change = users[v].must_change
                                 /\ users'[v].lost = users[v].lost
  BY <1>1 DEF AInv, Tables, Account
<1>3. Tables'
  BY <1>1, <1>2 DEF AInv, Tables
<1>4. AccountsStay /\ CookiesStay /\ LinksStay
  BY <1>1, <1>2 DEF AccountsStay, CookiesStay, LinksStay
<1>5. QED
  BY <1>1, <1>3, <1>4, PlainCommit

LEMMA WriteCookieKeeps ==
    ASSUME AInv, NEW r \in Requests, requests[r] # None, Head(requests[r].plan) = "cookie",
           WriteCookie(r, requests[r])
    PROVE  Tables' /\ Shapes' /\ Chosen' /\ Tried' /\ Flagged' /\ Locked'
<1> DEFINE u == requests[r].user
<1>1. /\ u \in DOMAIN users /\ Proceed(r, requests[r])
      /\ UNCHANGED <<users, links, by, failures, crashes, registered, history>>
  BY DEF WriteCookie
<1>2. PICK c \in Cookies \ (DOMAIN cookies
                           \cup UNION {requests[q].doomed \cup {requests[q].cookie}
                                       : q \in {p \in Requests : requests[p] # None}}) :
           cookies' = Put(cookies, c, u)
  BY DEF WriteCookie
<1>3. /\ DOMAIN cookies' = DOMAIN cookies \cup {c} /\ cookies'[c] = u
      /\ \A d \in DOMAIN cookies : cookies'[d] = cookies[d]
  BY <1>2 DEF Put
<1>4. \A q \in Requests : requests[q] # None => c \notin requests[q].doomed
  BY <1>2
<1>5. Tables'
  BY <1>1, <1>2, <1>3 DEF AInv, Tables
<1>6. AccountsStay /\ CookiesStay /\ LinksStay
  BY <1>1, <1>3, <1>4 DEF AccountsStay, CookiesStay, LinksStay, history
<1>7. QED
  BY <1>1, <1>5, <1>6, PlainCommit

LEMMA WriteLinkAccess ==
    ASSUME AInv, NEW r \in Requests, requests[r] # None,
           NEW purpose \in {"verify_email", "password_reset"},
           Head(requests[r].plan) \in {"verify_link", "reset_link"},
           WriteLink(r, requests[r], purpose)
    PROVE  Tables' /\ Shapes' /\ Chosen' /\ Tried' /\ Flagged' /\ Locked'
<1> DEFINE u == requests[r].user
           new == [user |-> u, purpose |-> purpose, used |-> FALSE, expired |-> FALSE]
<1>1. /\ u \in DOMAIN users /\ Proceed(r, requests[r])
      /\ UNCHANGED <<users, cookies, by, failures, crashes, registered>>
  BY DEF WriteLink
<1>2. PICK l \in Links \ issued :
          links' = LinkIssued(requests[r], purpose, l) /\ issued' = issued \cup {l}
  BY DEF WriteLink
<1>3. /\ DOMAIN links' \subseteq DOMAIN links \cup {l} /\ l \notin DOMAIN links
      /\ links'[l] = new
      /\ \A k \in DOMAIN links' \ {l} : k \in DOMAIN links /\ links'[k] = links[k]
  BY <1>2 DEF LinkIssued, Put, Drop, AInv, LInv, LinkTypes
<1>4. Tables'
  BY <1>1, <1>3 DEF AInv, Tables
<1>5. AccountsStay /\ CookiesStay /\ LinksStay
  BY <1>1, <1>2, <1>3 DEF AccountsStay, CookiesStay, LinksStay
<1>6. QED
  BY <1>1, <1>4, <1>5, PlainCommit

LEMMA ClaimAccess ==
    ASSUME AInv, NEW r \in Requests, requests[r] # None, Head(requests[r].plan) = "claim",
           Claim(r, requests[r])
    PROVE  Tables' /\ Shapes' /\ Chosen' /\ Tried' /\ Flagged' /\ Locked'
<1> DEFINE l == requests[r].link
<1>1. /\ l \in DOMAIN links /\ links' = [links EXCEPT ![l].used = TRUE]
      /\ Proceed(r, requests[r])
      /\ UNCHANGED <<users, cookies, by, failures, crashes, registered, issued>>
  BY DEF Claim, Claimable
<1>2. /\ DOMAIN links' = DOMAIN links
      /\ \A k \in DOMAIN links : /\ links'[k].user = links[k].user
                                 /\ links'[k].purpose = links[k].purpose
                                 /\ links[k].used => links'[k].used
  BY <1>1 DEF AInv, LInv, LinkTypes, Link
<1>3. Tables'
  BY <1>1, <1>2 DEF AInv, Tables
<1>4. AccountsStay /\ CookiesStay /\ LinksStay
  BY <1>1, <1>2 DEF AccountsStay, CookiesStay, LinksStay
<1>5. QED
  BY <1>1, <1>3, <1>4, PlainCommit

LEMMA WithdrawAccess ==
    ASSUME AInv, NEW r \in Requests, requests[r] # None, Head(requests[r].plan) = "withdraw",
           Withdraw(r, requests[r])
    PROVE  Tables' /\ Shapes' /\ Chosen' /\ Tried' /\ Flagged' /\ Locked'
<1>1. /\ links' = Drop(links, Live(requests[r].user, "password_reset"))
      /\ Proceed(r, requests[r])
      /\ UNCHANGED <<users, cookies, by, failures, crashes, registered, history>>
  BY DEF Withdraw
<1>2. \A l \in DOMAIN links' : l \in DOMAIN links /\ links'[l] = links[l]
  BY <1>1 DEF Drop
<1>3. Tables'
  BY <1>1, <1>2 DEF AInv, Tables
<1>4. AccountsStay /\ CookiesStay /\ LinksStay
  BY <1>1, <1>2 DEF AccountsStay, CookiesStay, LinksStay, history
<1>5. QED
  BY <1>1, <1>3, <1>4, PlainCommit

LEMMA DeleteUserKeeps ==
    ASSUME AInv, NEW r \in Requests, requests[r] # None, Head(requests[r].plan) = "delete",
           DeleteUser(r, requests[r])
    PROVE  Tables' /\ Shapes' /\ Chosen' /\ Tried' /\ Flagged' /\ Locked'
<1> DEFINE u == requests[r].user
<1>1. /\ users' = Drop(users, {u}) /\ cookies' = Drop(cookies, CookiesOf(u))
      /\ links' = Drop(links, {l \in DOMAIN links : links[l].user = u})
      /\ Proceed(r, requests[r])
      /\ UNCHANGED <<by, failures, crashes, registered, history>>
  BY DEF DeleteUser
<1>2. /\ DOMAIN users' = DOMAIN users \ {u}
      /\ \A v \in DOMAIN users' : users'[v] = users[v]
  BY <1>1 DEF Drop
<1>3. \A c \in DOMAIN cookies' : c \in DOMAIN cookies /\ cookies[c] # u /\ cookies'[c] = cookies[c]
  BY <1>1 DEF Drop, CookiesOf
<1>4. \A l \in DOMAIN links' : l \in DOMAIN links /\ links[l].user # u /\ links'[l] = links[l]
  BY <1>1 DEF Drop
<1>5. Tables'
  BY <1>1, <1>2, <1>3, <1>4 DEF AInv, Tables
<1>6. AccountsStay /\ CookiesStay /\ LinksStay
  BY <1>1, <1>2, <1>3, <1>4 DEF AccountsStay, CookiesStay, LinksStay, history
<1>7. QED
  BY <1>1, <1>5, <1>6, PlainCommit

LEMMA RevokeKeeps ==
    ASSUME AInv, NEW r \in Requests, requests[r] # None, Head(requests[r].plan) = "revoke",
           Revoke(r, requests[r])
    PROVE  Tables' /\ Shapes' /\ Chosen' /\ Tried' /\ Flagged' /\ Locked'
<1> DEFINE rec == requests[r]
           kept == IF rec.call = "change" THEN {rec.cookie} ELSE {}
<1>1. /\ cookies' = Drop(cookies, CookiesOf(rec.user) \ kept)
      /\ Proceed(r, rec)
      /\ UNCHANGED <<users, links, by, failures, crashes, registered, history>>
  BY DEF Revoke
<1>2. /\ \A c \in DOMAIN cookies' : c \in DOMAIN cookies /\ cookies'[c] = cookies[c]
      /\ \A c \in DOMAIN cookies' : cookies[c] = rec.user => c = rec.cookie
  BY <1>1 DEF Drop, CookiesOf
<1>3. Tables'
  BY <1>1, <1>2 DEF AInv, Tables
<1>4. Quiet
  BY <1>1, ProceedQuiet DEF AInv
<1>5. AccountsStay /\ CookiesStay /\ LinksStay
  BY <1>1, <1>2 DEF AccountsStay, CookiesStay, LinksStay, history
<1>6. Shapes' /\ Chosen' /\ Tried' /\ Flagged'
  BY <1>1, <1>4, <1>5, QuietShapes, QuietChosen, QuietTried, QuietFlagged DEF AInv, Tables
<1>7. Locked'
  <2>1. /\ \A q \in Requests \ {r} : requests'[q] = requests[q]
        /\ requests'[r] # None => Onward(rec, requests'[r])
    BY <1>1, ProceedOnward DEF AInv
  <2>2. rec.call \in Calls /\ rec.plan \in Rests[rec.call]
    BY AtHead DEF AInv
  <2>3. ASSUME requests'[r] # None, rec.call \in {"change", "confirm", "admin_reset"}
        PROVE  Locks(requests[r])'
    <3>1. /\ requests'[r].call = rec.call /\ requests'[r].user = rec.user
          /\ requests'[r].doomed = rec.doomed /\ requests'[r].dead = rec.dead
          /\ requests'[r].plan = Tail(rec.plan) /\ Len(rec.plan) # 1
      BY <2>1, <2>3 DEF Onward
    <3>2. rec.call # "admin_reset" /\ Head(requests'[r].plan) = "withdraw"
      <4>1. rec.plan = <<"revoke", "withdraw">> \/ rec.plan = <<"revoke">>
        BY <2>2, <2>3, RestHeads
      <4>2. CASE rec.plan = <<"revoke">>
        BY <3>1, <4>2
      <4>3. CASE rec.plan = <<"revoke", "withdraw">>
        BY <2>2, <3>1, <4>3 DEF Rests
      <4>4. QED
        BY <4>1, <4>2, <4>3
    <3>3. Locks(rec)
      BY DEF AInv, Locked
    <3>4. rec.doomed \cap DOMAIN cookies' = {}
      BY <1>2, <2>3, <3>3 DEF Locks
    <3>5. /\ rec.dead \subseteq issued'
          /\ \A l \in rec.dead \cap DOMAIN links' :
                 \/ links'[l].used
                 \/ links'[l].user = rec.user /\ links'[l].purpose = "password_reset"
      BY <1>1, <2>3, <3>3 DEF Locks, history
    <3>6. QED
      BY <3>1, <3>2, <3>4, <3>5 DEF Locks
  <2>4. Locks(requests[r])'
    BY <2>1, <2>3 DEF Locks, Onward
  <2>5. QED
    BY <1>5, <2>1, <2>4, LockedKept DEF AInv
<1>8. QED
  BY <1>3, <1>6, <1>7

LEMMA RecordFailureKeeps ==
    ASSUME AInv, NEW r \in Requests, requests[r] # None, Head(requests[r].plan) = "failure",
           RecordFailure(r, requests[r])
    PROVE  Tables' /\ Shapes' /\ Chosen' /\ Tried' /\ Flagged' /\ Locked'
<1>1. /\ failures' = failures + 1 /\ Proceed(r, requests[r])
      /\ UNCHANGED <<users, cookies, links, by, crashes, registered, history>>
  BY DEF RecordFailure
<1>2. Quiet
  BY <1>1, ProceedQuiet DEF AInv
<1>3. AccountsStay /\ CookiesStay /\ LinksStay
  BY <1>1 DEF AccountsStay, CookiesStay, LinksStay, history
<1>4. Tables'
  BY <1>1 DEF AInv, Tables
<1>5. Shapes' /\ Chosen' /\ Flagged' /\ Locked'
  BY <1>1, <1>2, <1>3, QuietShapes, QuietChosen, QuietFlagged, ProceedLocks DEF AInv
<1>6. Tried'
  <2> DEFINE F == Pending("failure")
             G == Pending("failure")'
  <2>1. r \in F /\ r \notin G
    BY <1>1, ProceedDone DEF AInv
  <2>2. G \subseteq F \ {r} /\ F \subseteq Requests
    BY <1>2, <2>1, QuietPending DEF AInv, Pending
  <2>3. IsFiniteSet(F) /\ IsFiniteSet(F \ {r}) /\ Cardinality(F \ {r}) = Cardinality(F) - 1
    BY <2>1, <2>2, PendingFinite, FS_RemoveElement
  <2>4. Cardinality(G) <= Cardinality(F \ {r})
    BY <2>2, <2>3, FS_Subset
  <2>5. /\ Cardinality(F) \in Nat /\ Cardinality(F \ {r}) \in Nat /\ Cardinality(G) \in Nat
        /\ Cardinality(Requests) \in Nat /\ failures \in Nat
    BY <2>2, PendingFinite DEF AInv, Tables
  <2>6. failures + Cardinality(F) <= LoginLimit - 1 + Cardinality(Requests)
    BY DEF AInv, Tried
  <2> HIDE DEF F, G
  <2>7. failures' + Cardinality(G) <= LoginLimit - 1 + Cardinality(Requests)
    BY <1>1, <2>3, <2>4, <2>5, <2>6, AccountAssumption
  <2>8. QED
    BY <2>7 DEF Tried, G
<1>7. QED
  BY <1>4, <1>5, <1>6

LEMMA CommitAccess ==
    ASSUME AInv, NEW r \in Requests, Commit(r)
    PROVE  Tables' /\ Shapes' /\ Chosen' /\ Tried' /\ Flagged' /\ Locked'
<1>1. requests[r] # None
  BY DEF Commit
<1>2. QED
  BY <1>1, WriteUserKeeps, WritePasswordAccess, WriteRehashKeeps, WriteVerifiedAccess,
     WriteCookieKeeps, WriteLinkAccess, ClaimAccess, RevokeKeeps, WithdrawAccess,
     DeleteUserKeeps, RecordFailureKeeps DEF Commit

-----------------------------------------------------------------------------
(* The steps that only end requests, or belong to none *)

LEMMA OtherStep ==
    ASSUME AInv, Quiet, by' = by, failures' \in Nat, failures' <= failures,
           AccountsStay, CookiesStay, LinksStay,
           \A q \in Requests : requests'[q] \in {requests[q], None}
    PROVE  Shapes' /\ Chosen' /\ Tried' /\ Flagged' /\ Locked'
<1>1. Shapes' /\ Chosen' /\ Tried' /\ Flagged'
  BY QuietShapes, QuietChosen, QuietTried, QuietFlagged DEF AInv
<1>2. Locked'
  BY LockedKept DEF AInv
<1>3. QED
  BY <1>1, <1>2

LEMMA FailAccess ==
    ASSUME AInv, NEW r \in Requests, Fail(r)
    PROVE  Tables' /\ Shapes' /\ Chosen' /\ Tried' /\ Flagged' /\ Locked'
<1>1. /\ requests' = [requests EXCEPT ![r] = None]
      /\ UNCHANGED <<users, cookies, links, by, failures, crashes, registered, history>>
  BY DEF Fail, Refused
<1>2. \A q \in Requests : requests'[q] \in {requests[q], None}
  BY <1>1 DEF AInv, LInv, RequestsOK
<1>3. /\ Quiet /\ AccountsStay /\ CookiesStay /\ LinksStay
      /\ failures' \in Nat /\ failures' <= failures
  BY <1>1, <1>2 DEF Quiet, AccountsStay, CookiesStay, LinksStay, history, AInv, Tables
<1>4. Tables'
  BY <1>1 DEF AInv, Tables
<1>5. QED
  BY <1>1, <1>2, <1>3, <1>4, OtherStep

LEMMA RestartAccess ==
    ASSUME AInv, NEW upgraded \in BOOLEAN, Restart(upgraded)
    PROVE  Tables' /\ Shapes' /\ Chosen' /\ Tried' /\ Flagged' /\ Locked'
<1>1. /\ crashes < MaxCrashes /\ crashes' = crashes + 1
      /\ requests' = [r \in Requests |-> None] /\ failures' = 0
      /\ users' = [u \in DOMAIN users |-> [users[u] EXCEPT !.outdated = @ \/ upgraded]]
      /\ UNCHANGED <<cookies, links, by, registered, history>>
  BY DEF Restart
<1>2. /\ DOMAIN users' = DOMAIN users
      /\ \A u \in DOMAIN users : /\ users'[u] \in Account
                                 /\ users'[u].password = users[u].password
                                 /\ users'[u].must_change = users[u].must_change
                                 /\ users'[u].lost = users[u].lost
  BY <1>1 DEF AInv, Tables, Account
<1>3. \A q \in Requests : requests'[q] = None
  BY <1>1
<1>4. /\ Quiet /\ AccountsStay /\ CookiesStay /\ LinksStay
      /\ failures' \in Nat /\ failures' <= failures
  <2>1. Quiet
    BY <1>3 DEF Quiet
  <2>2. AccountsStay /\ CookiesStay /\ LinksStay
    BY <1>1, <1>2 DEF AccountsStay, CookiesStay, LinksStay, history
  <2>3. QED
    BY <1>1, <2>1, <2>2 DEF AInv, Tables
<1>5. Tables'
  BY <1>1, <1>2, AccountAssumption DEF AInv, Tables
<1>6. QED
  BY <1>1, <1>3, <1>4, <1>5, OtherStep

LEMMA LogoutAccess ==
    ASSUME AInv, NEW c \in Cookies, Logout(c)
    PROVE  Tables' /\ Shapes' /\ Chosen' /\ Tried' /\ Flagged' /\ Locked'
<1>1. /\ cookies' = Drop(cookies, {c})
      /\ UNCHANGED <<users, links, by, failures, requests, crashes, registered, history>>
  BY DEF Logout
<1>2. \A d \in DOMAIN cookies' : d \in DOMAIN cookies /\ cookies'[d] = cookies[d]
  BY <1>1 DEF Drop
<1>3. /\ Quiet /\ AccountsStay /\ CookiesStay /\ LinksStay
      /\ failures' \in Nat /\ failures' <= failures
  <2>1. Quiet /\ AccountsStay /\ CookiesStay /\ LinksStay
    BY <1>1, <1>2 DEF Quiet, AccountsStay, CookiesStay, LinksStay, history
  <2>2. QED
    BY <1>1, <2>1 DEF AInv, Tables
<1>4. Tables'
  BY <1>1, <1>2 DEF AInv, Tables
<1>5. QED
  BY <1>1, <1>3, <1>4, OtherStep

LEMMA ExpireAccess ==
    ASSUME AInv, NEW l \in Links, ExpireLink(l)
    PROVE  Tables' /\ Shapes' /\ Chosen' /\ Tried' /\ Flagged' /\ Locked'
<1>1. /\ links' = [links EXCEPT ![l].expired = TRUE] /\ l \in DOMAIN links
      /\ UNCHANGED <<users, cookies, by, failures, requests, crashes, registered, history>>
  BY DEF ExpireLink
<1>2. /\ DOMAIN links' = DOMAIN links
      /\ \A k \in DOMAIN links : /\ links'[k].user = links[k].user
                                 /\ links'[k].purpose = links[k].purpose
                                 /\ links'[k].used = links[k].used
  BY <1>1 DEF AInv, LInv, LinkTypes, Link
<1>3. /\ Quiet /\ AccountsStay /\ CookiesStay /\ LinksStay
      /\ failures' \in Nat /\ failures' <= failures
  BY <1>1, <1>2 DEF Quiet, AccountsStay, CookiesStay, LinksStay, history, AInv, Tables
<1>4. Tables'
  BY <1>1, <1>2 DEF AInv, Tables
<1>5. QED
  BY <1>1, <1>3, <1>4, OtherStep

LEMMA IdleAccess ==
    ASSUME AInv, Forget \/ UNCHANGED vars
    PROVE  Tables' /\ Shapes' /\ Chosen' /\ Tried' /\ Flagged' /\ Locked'
<1>1. /\ failures' \in Nat /\ failures' <= failures
      /\ UNCHANGED <<users, cookies, links, by, requests, crashes, registered, history>>
  BY DEF Forget, vars, history, AInv, Tables
<1>2. Quiet /\ AccountsStay /\ CookiesStay /\ LinksStay
  BY <1>1 DEF Quiet, AccountsStay, CookiesStay, LinksStay, history
<1>3. Tables'
  BY <1>1 DEF AInv, Tables
<1>4. QED
  BY <1>1, <1>2, <1>3, OtherStep

-----------------------------------------------------------------------------
(* The results *)

LEMMA AccessStart ==
    ASSUME Init
    PROVE  AInv
<1>1. LInv
  BY Start
<1>2. Tables
  BY AccountAssumption DEF Init, Tables
<1>3. \A r \in Requests : requests[r] = None
  BY DEF Init
<1>4. \A commit : Pending(commit) = {}
  BY <1>3 DEF Pending
<1>5. Cardinality({}) = 0 /\ Cardinality(Requests) \in Nat
  BY FS_EmptySet, PendingFinite
<1>6. Chosen
  <2>1. Choosing = {} /\ Len(by) = 0
    BY <1>4 DEF Choosing, Init
  <2>2. QED
    BY <1>5, <2>1, AccountAssumption DEF Chosen
<1>7. Tried
  <2>1. Pending("failure") = {} /\ failures = 0
    BY <1>4 DEF Init
  <2>2. QED
    BY <1>5, <2>1, AccountAssumption DEF Tried
<1>8. Shapes /\ Flagged /\ Locked
  BY <1>3 DEF Init, Shapes, Flagged, TemporaryIsFlagged, Knows, Locked, Locks
<1>9. QED
  BY <1>1, <1>2, <1>6, <1>7, <1>8 DEF AInv

LEMMA AccessStep ==
    ASSUME AInv, [Next]_vars
    PROVE  AInv'
<1>1. LInv'
  BY Step DEF AInv
<1>2. ASSUME NEW r \in Requests, NEW u \in Users,
             Register(r, u) \/ Login(r, u) \/ BadLogin(r, u) \/ RequestReset(r, u)
                 \/ AdminReset(r, u)
      PROVE  Tables' /\ Shapes' /\ Chosen' /\ Tried' /\ Flagged' /\ Locked'
  <2>1. PICK call \in {"register", "login", "bad_login", "request_reset", "admin_reset"} :
            /\ Begin(r, call, u, None, None)
            /\ call \in {"login", "admin_reset"} => u \in DOMAIN users
            /\ call = "bad_login" => NotLimited
    BY <1>2 DEF Register, Login, BadLogin, RequestReset, AdminReset
  <2>2. QED
    BY <2>1, BeginKeepsAccess DEF Calls
<1>3. ASSUME NEW r \in Requests, NEW c \in Cookies, NEW u \in Users,
             ChangePassword(r, c, u) \/ DeleteMe(r, c, u) \/ Resend(r, c, u)
      PROVE  Tables' /\ Shapes' /\ Chosen' /\ Tried' /\ Flagged' /\ Locked'
  <2>1. PICK call \in {"change", "delete_me", "resend"} : Begin(r, call, u, c, None)
    BY <1>3 DEF ChangePassword, DeleteMe, Resend
  <2>2. u \in DOMAIN users
    BY <1>3 DEF ChangePassword, DeleteMe, Resend, SignedIn, AInv, Tables
  <2>3. QED
    BY <2>1, <2>2, BeginKeepsAccess DEF Calls
<1>4. ASSUME NEW r \in Requests, NEW l \in Links, Confirm(r, l) \/ VerifyEmail(r, l)
      PROVE  Tables' /\ Shapes' /\ Chosen' /\ Tried' /\ Flagged' /\ Locked'
  <2>1. links[l].user \in DOMAIN users /\ links[l].user \in Users
    BY <1>4 DEF Confirm, VerifyEmail, Redeemable, AInv, Tables
  <2>2. PICK call \in {"confirm", "verify"} : Begin(r, call, links[l].user, None, l)
    BY <1>4 DEF Confirm, VerifyEmail
  <2>3. QED
    BY <2>1, <2>2, BeginKeepsAccess DEF Calls
<1>5. Tables' /\ Shapes' /\ Chosen' /\ Tried' /\ Flagged' /\ Locked'
  <2>1. CASE Forget \/ UNCHANGED vars
    BY <2>1, IdleAccess
  <2>2. CASE \E upgraded \in BOOLEAN : Restart(upgraded)
    BY <2>2, RestartAccess
  <2>3. CASE \E c \in Cookies : Logout(c)
    BY <2>3, LogoutAccess
  <2>4. CASE \E l \in Links : ExpireLink(l)
    BY <2>4, ExpireAccess
  <2>5. CASE \E r \in Requests : Commit(r) \/ Fail(r)
    BY <2>5, CommitAccess, FailAccess
  <2>6. QED
    BY <1>2, <1>3, <1>4, <2>1, <2>2, <2>3, <2>4, <2>5 DEF Next
<1>6. QED
  BY <1>1, <1>5 DEF AInv

(* The state keeps its types whatever requests overlap: an account's        *)
(* password is one that was chosen, and every login session and every link *)
(* belongs to an account that exists.                                      *)
THEOREM ATypeOKHolds == Spec => []ATypeOK
<1>1. ASSUME AInv PROVE ATypeOK
  <2>1. \A r \in Requests : requests[r] = None \/ requests[r] \in Request
    BY <1>1 DEF AInv, Shapes, Shape
  <2>2. Len(by) <= MaxPasswords
    <3>1. Choosing \subseteq Requests
      BY DEF Choosing, Pending
    <3>2. Cardinality(Choosing) \in Nat /\ Len(by) \in Nat
      BY <1>1, <3>1, PendingFinite DEF AInv, Tables
    <3>3. QED
      BY <1>1, <3>2, AccountAssumption DEF AInv, Chosen
  <2>3. QED
    BY <1>1, <2>1, <2>2 DEF ATypeOK, AInv, Tables, LInv, LinkTypes
<1>2. QED
  BY <1>1, AccessStart, AccessStep, PTL DEF Spec

(* However many passwords, requests and restarts there are, a temporary     *)
(* password is flagged until the user changes it, unless a write of the    *)
(* account's password overwrote one chosen after it was loaded.            *)
THEOREM TemporaryIsFlaggedHolds == Spec => []TemporaryIsFlagged
<1>1. AInv => TemporaryIsFlagged
  BY DEF AInv, Flagged
<1>2. QED
  BY <1>1, AccessStart, AccessStep, PTL DEF Spec

(* For any limit, failed logins exceed it by less than the number of        *)
(* requests that can be in progress.                                       *)
THEOREM AttemptsBoundedHolds == Spec => []AttemptsBounded
<1>1. ASSUME AInv PROVE AttemptsBounded
  <2>1. Pending("failure") \subseteq Requests
    BY DEF Pending
  <2>2. /\ Cardinality(Pending("failure")) \in Nat /\ Cardinality(Requests) \in Nat
        /\ failures \in Nat
    BY <1>1, <2>1, PendingFinite DEF AInv, Tables
  <2>3. QED
    BY <1>1, <2>2, AccountAssumption DEF AInv, Tried, AttemptsBounded
<1>2. QED
  BY <1>1, AccessStart, AccessStep, PTL DEF Spec

LEMMA FinishLocksOut ==
    ASSUME AInv, [Next]_vars, NEW r \in Requests, Finishes(r)
    PROVE  /\ requests[r].doomed \cap DOMAIN cookies' = {}
           /\ \A l \in requests[r].dead \cap DOMAIN links' : links'[l].used
<1> DEFINE rec == requests[r]
<1>1. /\ rec # None /\ rec.call \in {"change", "confirm", "admin_reset"} /\ Len(rec.plan) = 1
      /\ requests'[r] = None /\ crashes' = crashes
  BY DEF Finishes
<1>2. /\ rec.plan \in Rests[rec.call] /\ Locks(rec)
      /\ requests = [q \in Requests |-> requests[q]]
  BY <1>1, AtHead DEF AInv, Locked, LInv, RequestsOK
<1>3. \/ rec.call \in {"change", "confirm"} /\ rec.plan = <<"withdraw">>
      \/ rec.call = "admin_reset" /\ rec.plan = <<"revoke">>
  BY <1>1, <1>2 DEF Rests
<1>4. Head(rec.plan) \in {"withdraw", "revoke"}
  BY <1>3
<1>5. Commit(r)
  <2>1. ~Fail(r)
    BY <1>4 DEF Fail
  <2>2. ASSUME NEW q \in Requests, NEW call, NEW u, NEW cookie, NEW link,
               Begin(q, call, u, cookie, link)
        PROVE  FALSE
    BY <1>1, <1>2, <2>2 DEF Begin
  <2>3. ASSUME NEW q \in Requests \ {r}, Commit(q) \/ Fail(q)
        PROVE  requests'[r] = rec
    <3>1. requests'[r] = requests[r]
      BY <1>2, <2>3 DEF Commit, Fail, Refused, Proceed, WriteUser, WritePassword, WriteRehash,
         WriteVerified, WriteCookie, WriteLink, Claim, Revoke, Withdraw, DeleteUser, RecordFailure
    <3>2. QED
      BY <3>1
  <2>4. ASSUME NEW q \in Requests, NEW u \in Users,
               Register(q, u) \/ Login(q, u) \/ BadLogin(q, u) \/ RequestReset(q, u)
                   \/ AdminReset(q, u)
        PROVE  FALSE
    BY <2>2, <2>4 DEF Register, Login, BadLogin, RequestReset, AdminReset
  <2>5. ASSUME NEW q \in Requests, NEW c \in Cookies, NEW u \in Users,
               ChangePassword(q, c, u) \/ DeleteMe(q, c, u) \/ Resend(q, c, u)
        PROVE  FALSE
    BY <2>2, <2>5 DEF ChangePassword, DeleteMe, Resend
  <2>6. ASSUME NEW q \in Requests, NEW l \in Links, Confirm(q, l) \/ VerifyEmail(q, l)
        PROVE  FALSE
    BY <2>2, <2>6 DEF Confirm, VerifyEmail
  <2>7. ~\E upgraded \in BOOLEAN : Restart(upgraded)
    BY <1>1 DEF Restart, AInv, Tables
  <2>8. requests' # requests
    BY <1>1
  <2>9. ~((\E c \in Cookies : Logout(c)) \/ (\E l \in Links : ExpireLink(l)) \/ Forget
             \/ UNCHANGED vars)
    BY <2>8 DEF Logout, ExpireLink, Forget, vars
  <2>10. \E q \in Requests : Commit(q) \/ Fail(q)
    BY <2>4, <2>5, <2>6, <2>7, <2>9 DEF Next
  <2>11. QED
    BY <1>1, <2>1, <2>3, <2>10
<1>6. CASE rec.call \in {"change", "confirm"} /\ rec.plan = <<"withdraw">>
  <2>1. Withdraw(r, rec)
    BY <1>5, <1>6 DEF Commit
  <2>2. cookies' = cookies /\ links' = Drop(links, Live(rec.user, "password_reset"))
    BY <2>1 DEF Withdraw
  <2>3. /\ rec.doomed \cap DOMAIN cookies = {}
        /\ \A l \in rec.dead \cap DOMAIN links :
               \/ links[l].used
               \/ links[l].user = rec.user /\ links[l].purpose = "password_reset"
    BY <1>1, <1>2, <1>6 DEF Locks
  <2>4. QED
    BY <2>2, <2>3 DEF Drop, Live
<1>7. CASE rec.call = "admin_reset" /\ rec.plan = <<"revoke">>
  <2>1. Revoke(r, rec)
    BY <1>5, <1>7 DEF Commit
  <2>2. cookies' = Drop(cookies, CookiesOf(rec.user))
    BY <1>7, <2>1 DEF Revoke
  <2>3. rec.dead = {} /\ \A c \in rec.doomed \cap DOMAIN cookies : cookies[c] = rec.user
    BY <1>1, <1>2, <1>7 DEF Locks
  <2>4. QED
    BY <2>2, <2>3 DEF Drop, CookiesOf
<1>8. QED
  BY <1>3, <1>6, <1>7

(* When a password change ends, the login sessions and the reset links it   *)
(* found at its first commit are gone, for any number of requests between  *)
(* its commits.                                                            *)
THEOREM ChangeLocksOutHolds == Spec => ChangeLocksOut
<1>1. AInv /\ [Next]_vars =>
          [\A r \in Requests : Finishes(r) =>
              /\ requests[r].doomed \cap DOMAIN cookies' = {}
              /\ \A l \in requests[r].dead \cap DOMAIN links' : links'[l].used]_vars
  BY FinishLocksOut
<1>2. QED
  BY <1>1, AccessStart, AccessStep, PTL DEF Spec, ChangeLocksOut

===============================================================================
