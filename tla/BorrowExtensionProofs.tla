---------------------- MODULE BorrowExtensionProofs ----------------------
(***************************************************************************)
(* Proofs about BorrowExtension, for any number of extensions, of requests *)
(* in progress and of dates.                                               *)
(***************************************************************************)
EXTENDS ExtensionDesk, FiniteSetTheorems, TLAPS

\* Every step keeps the types.
LEMMA ExtensionTypeStep ==
  ASSUME ExtensionTypeOK, [ExtensionNext]_extensionVars
  PROVE  ExtensionTypeOK'
<1> USE DEF ExtensionTypeOK
<1>1. ASSUME NEW w \in Workers, Done(w)
      PROVE  request' \in [Workers -> Requests]
  BY <1>1 DEF Done, Requests
<1>2. ASSUME NEW w \in Workers, NEW type \in {"DESK", "ONLINE"},
             NEW date \in Dates, ReadCreate(w, type, date)
      PROVE  ExtensionTypeOK'
  <2>1. date \in Nat
    BY ExtensionAssumption
  <2>2. borrow.count + 1 \in Nat /\ borrow.due \in Nat
    BY DEF BorrowRow
  <2> DEFINE row == [status |-> IF type = "DESK" THEN "APPROVED"
                                ELSE "PENDING",
                     round  |-> borrow.count + 1,
                     was    |-> borrow.due,
                     asked  |-> date]
  <2>3. [op |-> "CREATE", row |-> row] \in Requests
    BY <2>1, <2>2 DEF Requests
  <2>4. QED
    BY <1>2, <2>3 DEF ReadCreate
<1>3. ASSUME NEW w \in Workers, CommitCreate(w)
      PROVE  ExtensionTypeOK'
  <2>1. request[w].row \in [status : {"PENDING", "APPROVED"},
                            round : Nat, was : Nat, asked : Nat]
    BY <1>3 DEF CommitCreate, Requests, NoRequest
  <2>2. request[w].row \in ExtensionRow
    BY <2>1 DEF ExtensionRow, Decided
  <2>3. extension' \in [Extensions -> ExtensionRow]
    BY <1>3, <2>2 DEF CommitCreate, Having
  <2>4. borrow' \in BorrowRow
    BY <1>3, <2>1 DEF CommitCreate, BorrowRow
  <2>5. QED
    BY <1>1, <1>3, <2>3, <2>4 DEF CommitCreate
<1>4. ASSUME NEW w \in Workers, NEW e \in Extensions,
             NEW decision \in {"APPROVED", "REJECTED"},
             ReviewExtension(w, e, decision)
      PROVE  ExtensionTypeOK'
  <2>1. extension' \in [Extensions -> ExtensionRow]
    BY <1>4 DEF ReviewExtension, ExtensionRow, Decided
  <2>2. \A due, count \in Nat :
          [borrow EXCEPT !.due = due, !.count = count] \in BorrowRow
    BY DEF BorrowRow
  <2>3. /\ extension[e].asked \in Nat
        /\ borrow.count + 1 \in Nat
    BY DEF ExtensionRow, BorrowRow
  <2>4. borrow' \in BorrowRow
    BY <1>4, <2>2, <2>3 DEF ReviewExtension, BorrowRow
  <2>5. QED
    BY <1>4, <2>1, <2>4 DEF ReviewExtension
<1>5. ASSUME NEW w \in Workers, NEW e \in Extensions, ReadCancel(w, e)
      PROVE  ExtensionTypeOK'
  BY <1>5 DEF ReadCancel, Requests
<1>6. ASSUME NEW w \in Workers, CommitCancel(w)
      PROVE  ExtensionTypeOK'
  <2>1. request[w].id \in Extensions
    BY <1>6 DEF CommitCancel, Requests, NoRequest
  <2>2. extension' \in [Extensions -> ExtensionRow]
    BY <1>6, <2>1 DEF CommitCancel, ExtensionRow, Decided
  <2>3. QED
    BY <1>1, <1>6, <2>2 DEF CommitCancel
<1>7. ASSUME NEW w \in Workers, GiveBack(w)
      PROVE  ExtensionTypeOK'
  BY <1>7 DEF GiveBack, BorrowRow
<1>8. ASSUME NEW w \in Workers, GiveUp(w)
      PROVE  ExtensionTypeOK'
  BY <1>1, <1>8 DEF GiveUp
<1>9. CASE UNCHANGED extensionVars
  BY <1>9 DEF extensionVars
<1>10. QED
  BY <1>2, <1>3, <1>4, <1>5, <1>6, <1>7, <1>8, <1>9
     DEF ExtensionNext, ExtensionStep

(***************************************************************************)
(* The loan, its extension rows and what requests hold keep their types,   *)
(* whatever createExtension, reviewExtension and cancelExtension do.       *)
(***************************************************************************)
THEOREM ExtensionTypeCorrect == ExtensionSpec => []ExtensionTypeOK
<1>1. ExtensionInit => ExtensionTypeOK
  BY DEF ExtensionInit, ExtensionTypeOK, BorrowRow, ExtensionRow, NoExtension,
         Requests
<1>2. ExtensionTypeOK /\ [ExtensionNext]_extensionVars => ExtensionTypeOK'
  BY ExtensionTypeStep
<1>3. QED
  BY <1>1, <1>2, PTL DEF ExtensionSpec

(***************************************************************************)
(* However many requests overlap, the due date of the loan is one that was *)
(* granted: reviewExtension writes it only with the approval it won, and   *)
(* the desk only with the approved row it creates.                         *)
(***************************************************************************)
THEOREM DueDatesAreGranted == ExtensionSpec => []DueDateWasGranted
<1>1. ExtensionInit => DueDateWasGranted
  BY DEF ExtensionInit, DueDateWasGranted
<1>2. ExtensionTypeOK /\ DueDateWasGranted /\ [ExtensionNext]_extensionVars
        => DueDateWasGranted'
  <2> SUFFICES ASSUME ExtensionTypeOK, DueDateWasGranted,
                      [ExtensionNext]_extensionVars, borrow'.due # 0
               PROVE  \E e \in Granted' : extension'[e].asked = borrow'.due
    BY DEF DueDateWasGranted
  <2> USE DEF ExtensionTypeOK
  \* A step that leaves the due date and what was granted as they are.
  <2>1. ASSUME borrow'.due = borrow.due,
               \A e \in Granted : /\ e \in Granted'
                                  /\ extension'[e].asked = extension[e].asked
        PROVE  \E e \in Granted' : extension'[e].asked = borrow'.due
    BY <2>1 DEF DueDateWasGranted
  <2>2. ASSUME NEW w \in Workers, CommitCreate(w)
        PROVE  \E e \in Granted' : extension'[e].asked = borrow'.due
    <3>1. PICK e \in Having("NONE") :
            extension' = [extension EXCEPT ![e] = request[w].row]
      BY <2>2 DEF CommitCreate
    <3>2. CASE request[w].row.status = "APPROVED"
      <4>1. borrow'.due = request[w].row.asked
        BY <2>2, <3>2 DEF CommitCreate, BorrowRow
      <4>2. e \in Extensions /\ extension'[e] = request[w].row
        BY <3>1 DEF Having
      <4>3. QED
        BY <3>2, <4>1, <4>2 DEF Granted
    <3>3. CASE request[w].row.status # "APPROVED"
      <4>1. borrow' = borrow
        BY <2>2, <3>3 DEF CommitCreate
      <4>2. \A f \in Granted : f # e
        BY DEF Granted, Having
      <4>3. QED
        BY <2>1, <3>1, <4>1, <4>2 DEF Granted
    <3>4. QED
      BY <3>2, <3>3
  <2>3. ASSUME NEW w \in Workers, NEW e \in Extensions,
               NEW decision \in {"APPROVED", "REJECTED"},
               ReviewExtension(w, e, decision)
        PROVE  \E f \in Granted' : extension'[f].asked = borrow'.due
    <3>1. extension' = [extension EXCEPT ![e].status = decision]
      BY <2>3 DEF ReviewExtension
    <3>2. CASE decision = "APPROVED"
      <4>1. borrow'.due = extension[e].asked
        BY <2>3, <3>2 DEF ReviewExtension, BorrowRow
      <4>2. extension'[e].status = "APPROVED"
              /\ extension'[e].asked = extension[e].asked
        BY <3>1, <3>2 DEF ExtensionRow
      <4>3. QED
        BY <4>1, <4>2 DEF Granted
    <3>3. CASE decision = "REJECTED"
      <4>1. borrow' = borrow
        BY <2>3, <3>3 DEF ReviewExtension
      <4>2. \A f \in Granted : f # e
        BY <2>3 DEF Granted, ReviewExtension
      <4>3. QED
        BY <2>1, <3>1, <4>1, <4>2 DEF Granted
    <3>4. QED
      BY <3>2, <3>3
  <2>4. ASSUME NEW w \in Workers, CommitCancel(w)
        PROVE  \E e \in Granted' : extension'[e].asked = borrow'.due
    <3> DEFINE id == request[w].id
    <3>1. id \in Extensions
      BY <2>4 DEF CommitCancel, Requests, NoRequest
    <3>2. extension' = [extension EXCEPT ![id].status = "CANCELLED"]
      BY <2>4 DEF CommitCancel
    <3>3. ASSUME NEW f \in Granted
          PROVE  f \in Granted' /\ extension'[f].asked = extension[f].asked
      BY <3>1, <3>2 DEF Granted, ExtensionRow
    <3>4. QED
      BY <2>1, <2>4, <3>3 DEF CommitCancel
  <2>5. ASSUME UNCHANGED extension, borrow'.due = borrow.due
        PROVE  \E e \in Granted' : extension'[e].asked = borrow'.due
    BY <2>1, <2>5 DEF Granted
  <2>6. ASSUME NEW w \in Workers, GiveBack(w)
        PROVE  UNCHANGED extension /\ borrow'.due = borrow.due
    BY <2>6 DEF GiveBack, BorrowRow
  <2>7. QED
    BY <2>2, <2>3, <2>4, <2>5, <2>6
       DEF ExtensionNext, ExtensionStep, extensionVars, ReadCreate, ReadCancel,
           GiveUp
<1>3. QED
  BY <1>1, <1>2, ExtensionTypeCorrect, PTL DEF ExtensionSpec

----------------------------------------------------------------------------
\* The round a desk request has read may be stale, but it is never ahead of
\* the grants by more than its own.
Rounds(w) ==
  request[w].op = "CREATE" => request[w].row.round <= Cardinality(Granted) + 1

CountInv ==
  /\ ExtensionTypeOK
  /\ CountWithinGranted
  /\ \A w \in Workers : Rounds(w)

\* There are as many grants as extensions at most.
LEMMA GrantedIsFinite ==
  /\ IsFiniteSet(Granted) /\ Cardinality(Granted) \in Nat
  /\ IsFiniteSet(Granted') /\ Cardinality(Granted') \in Nat
<1>1. Granted \subseteq Extensions /\ Granted' \subseteq Extensions
  BY DEF Granted
<1> QED
  BY <1>1, ExtensionAssumption, FS_Subset, FS_CardinalityType

\* No step takes a grant back: an approval that is cancelled stays a grant.
LEMMA GrantsOnlyGrow ==
  ASSUME ExtensionTypeOK, [ExtensionNext]_extensionVars
  PROVE  Granted \subseteq Granted' /\ Cardinality(Granted) <= Cardinality(Granted')
<1> USE DEF ExtensionTypeOK
<1>1. ASSUME NEW w \in Workers, CommitCreate(w)
      PROVE  Granted \subseteq Granted'
  BY <1>1 DEF CommitCreate, Having, Granted
<1>2. ASSUME NEW w \in Workers, NEW e \in Extensions,
             NEW decision \in {"APPROVED", "REJECTED"},
             ReviewExtension(w, e, decision)
      PROVE  Granted \subseteq Granted'
  BY <1>2 DEF ReviewExtension, Granted
<1>3. ASSUME NEW w \in Workers, CommitCancel(w)
      PROVE  Granted \subseteq Granted'
  <2>1. request[w].id \in Extensions
    BY <1>3 DEF CommitCancel, Requests, NoRequest
  <2>2. QED
    BY <1>3, <2>1 DEF CommitCancel, Granted, ExtensionRow
<1>4. ASSUME UNCHANGED extension
      PROVE  Granted \subseteq Granted'
  BY <1>4 DEF Granted
<1>5. Granted \subseteq Granted'
  BY <1>1, <1>2, <1>3, <1>4
     DEF ExtensionNext, ExtensionStep, extensionVars, ReadCreate, ReadCancel,
         GiveBack, GiveUp
<1>6. IsFiniteSet(Granted')
  BY GrantedIsFinite
<1> QED
  BY <1>5, <1>6, FS_Subset

\* One more grant: what was not granted before now is.
LEMMA OneMoreGrant ==
  ASSUME NEW e \in Granted', e \notin Granted, Granted \subseteq Granted'
  PROVE  Cardinality(Granted') >= Cardinality(Granted) + 1
<1>1. IsFiniteSet(Granted) /\ IsFiniteSet(Granted')
  BY GrantedIsFinite
<1>2. /\ IsFiniteSet(Granted \union {e})
      /\ Cardinality(Granted \union {e}) = Cardinality(Granted) + 1
  BY <1>1, FS_AddElement
<1>3. Granted \union {e} \subseteq Granted'
  OBVIOUS
<1>4. Cardinality(Granted \union {e}) <= Cardinality(Granted')
  BY <1>1, <1>3, FS_Subset
<1> QED
  BY <1>1, <1>2, <1>4, FS_CardinalityType

(***************************************************************************)
(* However many requests overlap, the extension count of the loan stays    *)
(* within the extensions that were granted: createExtension may write an   *)
(* old round over a newer one, but never invents one.                      *)
(***************************************************************************)
THEOREM CountsWithinGrants == ExtensionSpec => []CountWithinGranted
<1>1. ExtensionInit => CountWithinGranted /\ \A w \in Workers : Rounds(w)
  BY GrantedIsFinite DEF ExtensionInit, CountWithinGranted, Rounds, NoRequest
<1>2. CountInv /\ ExtensionTypeOK' /\ [ExtensionNext]_extensionVars => CountInv'
  <2> SUFFICES ASSUME CountInv, ExtensionTypeOK', [ExtensionNext]_extensionVars
               PROVE  CountWithinGranted' /\ \A w \in Workers : Rounds(w)'
    BY DEF CountInv
  <2> DEFINE g == Cardinality(Granted)
  <2>1. g \in Nat /\ g' \in Nat /\ g <= g' /\ Granted \subseteq Granted'
    <3>1. g \in Nat
      BY GrantedIsFinite
    <3>2. g' \in Nat
      BY GrantedIsFinite
    <3>3. QED
      BY <3>1, <3>2, GrantsOnlyGrow DEF CountInv
  <2>2. /\ borrow.count \in Nat /\ borrow.count <= g
        /\ \A w \in Workers : request[w].op = "CREATE" =>
             request[w].row.round \in Nat /\ request[w].row.round <= g + 1
    BY DEF CountInv, CountWithinGranted, Rounds, ExtensionTypeOK, BorrowRow,
           Requests, NoRequest
  \* What is kept of the requests, when w alone goes on and writes no round.
  <2>3. ASSUME NEW w \in Workers, NEW r,
               request' = [request EXCEPT ![w] = r], r.op # "CREATE"
        PROVE  \A v \in Workers : Rounds(v)'
    <3> SUFFICES ASSUME NEW v \in Workers, request'[v].op = "CREATE"
                 PROVE  request'[v].row.round <= g' + 1
      BY DEF Rounds
    <3>1. request'[v] = request[v]
      BY <2>3 DEF CountInv, ExtensionTypeOK
    <3>2. QED
      BY <2>1, <2>2, <3>1
  <2>4. ASSUME UNCHANGED request
        PROVE  \A v \in Workers : Rounds(v)'
    BY <2>1, <2>2, <2>4 DEF Rounds
  <2>5. ASSUME borrow'.count = borrow.count
        PROVE  CountWithinGranted'
    BY <2>1, <2>2, <2>5 DEF CountWithinGranted
  <2>6. ASSUME NEW w \in Workers, NEW type \in {"DESK", "ONLINE"},
               NEW date \in Dates, ReadCreate(w, type, date)
        PROVE  \A v \in Workers : Rounds(v)'
    <3> SUFFICES ASSUME NEW v \in Workers, request'[v].op = "CREATE"
                 PROVE  request'[v].row.round <= g' + 1
      BY DEF Rounds
    <3>1. CASE v = w
      <4>1. request'[v].row.round = borrow.count + 1
        BY <2>6, <3>1 DEF ReadCreate, CountInv, ExtensionTypeOK
      <4>2. QED
        BY <2>1, <2>2, <4>1
    <3>2. CASE v # w
      BY <2>1, <2>2, <2>6, <3>2 DEF ReadCreate, CountInv, ExtensionTypeOK
    <3>3. QED
      BY <3>1, <3>2
  <2>7. ASSUME NEW w \in Workers, Done(w)
        PROVE  \A v \in Workers : Rounds(v)'
    <3>1. NoRequest.op # "CREATE"
      BY DEF NoRequest
    <3>2. QED
      BY <2>3, <2>7, <3>1 DEF Done
  <2>8. ASSUME NEW w \in Workers, CommitCreate(w)
        PROVE  CountWithinGranted'
    <3>1. PICK e \in Having("NONE") :
            extension' = [extension EXCEPT ![e] = request[w].row]
      BY <2>8 DEF CommitCreate
    <3>2. CASE request[w].row.status = "APPROVED"
      <4>1. borrow'.count = request[w].row.round
        BY <2>8, <3>2 DEF CommitCreate, CountInv, ExtensionTypeOK, BorrowRow
      <4>2. e \in Granted' /\ e \notin Granted
        BY <3>1, <3>2 DEF Granted, Having, CountInv, ExtensionTypeOK
      <4>3. g' >= g + 1
        BY <2>1, <4>2, OneMoreGrant
      <4>4. request[w].row.round \in Nat /\ request[w].row.round <= g + 1
        BY <2>2, <2>8 DEF CommitCreate
      <4>5. QED
        BY <2>1, <4>1, <4>3, <4>4 DEF CountWithinGranted
    <3>3. CASE request[w].row.status # "APPROVED"
      BY <2>5, <2>8, <3>3 DEF CommitCreate
    <3>4. QED
      BY <3>2, <3>3
  <2>9. ASSUME NEW w \in Workers, NEW e \in Extensions,
               NEW decision \in {"APPROVED", "REJECTED"},
               ReviewExtension(w, e, decision)
        PROVE  CountWithinGranted'
    <3>1. CASE decision = "APPROVED"
      <4>1. borrow'.count = borrow.count + 1
        BY <2>9, <3>1 DEF ReviewExtension, CountInv, ExtensionTypeOK, BorrowRow
      <4>2. e \in Granted' /\ e \notin Granted
        BY <2>9, <3>1
           DEF ReviewExtension, Granted, CountInv, ExtensionTypeOK, ExtensionRow
      <4>3. g' >= g + 1
        BY <2>1, <4>2, OneMoreGrant
      <4>4. QED
        BY <2>1, <2>2, <4>1, <4>3 DEF CountWithinGranted
    <3>2. CASE decision # "APPROVED"
      BY <2>5, <2>9, <3>2 DEF ReviewExtension
    <3>3. QED
      BY <3>1, <3>2
  <2>10. ASSUME NEW w \in Workers, GiveBack(w)
         PROVE  borrow'.count = borrow.count
    BY <2>10 DEF GiveBack, CountInv, ExtensionTypeOK, BorrowRow
  <2>11. ASSUME NEW w \in Workers, NEW e \in Extensions, ReadCancel(w, e)
         PROVE  \A v \in Workers : Rounds(v)'
    <3> DEFINE r == [op |-> "CANCEL", id |-> e]
    <3>1. request' = [request EXCEPT ![w] = r] /\ r.op # "CREATE"
      BY <2>11 DEF ReadCancel
    <3> HIDE DEF r
    <3>2. QED
      BY <2>3, <3>1
  <2>12. ASSUME NEW w \in Workers, ExtensionStep(w)
         PROVE  CountWithinGranted' /\ \A v \in Workers : Rounds(v)'
    <3>1. CASE \E type \in {"DESK", "ONLINE"}, date \in Dates :
                 ReadCreate(w, type, date)
      BY <2>5, <2>6, <3>1 DEF ReadCreate
    <3>2. CASE CommitCreate(w)
      BY <2>7, <2>8, <3>2 DEF CommitCreate
    <3>3. CASE \E e \in Extensions, decision \in {"APPROVED", "REJECTED"} :
                 ReviewExtension(w, e, decision)
      BY <2>4, <2>9, <3>3 DEF ReviewExtension
    <3>4. CASE \E e \in Extensions : ReadCancel(w, e)
      BY <2>5, <2>11, <3>4 DEF ReadCancel
    <3>5. CASE CommitCancel(w) \/ GiveUp(w)
      BY <2>5, <2>7, <3>5 DEF CommitCancel, GiveUp
    <3>6. CASE GiveBack(w)
      BY <2>4, <2>5, <2>10, <3>6 DEF GiveBack
    <3>7. QED
      BY <2>12, <3>1, <3>2, <3>3, <3>4, <3>5, <3>6 DEF ExtensionStep
  <2>13. CASE UNCHANGED extensionVars
    BY <2>4, <2>5, <2>13 DEF extensionVars
  <2>14. QED
    BY <2>12, <2>13 DEF ExtensionNext
<1>3. QED
  BY <1>1, <1>2, ExtensionTypeCorrect, PTL DEF ExtensionSpec, CountInv

----------------------------------------------------------------------------
\* The requests of a desk that serves one at a time.
OneRequest ==
  \A v, w \in Workers : request[v] # NoRequest /\ request[w] # NoRequest => v = w

\* What the approvals of the loan tell: the rounds of HistoryKept, and that
\* none asked for a later date than the one in force.
Approvals ==
  LET approved == Having("APPROVED") IN
  /\ borrow.count = Cardinality(approved)
  /\ {extension[e].round : e \in approved} = 1 .. borrow.count
  /\ \A e, f \in approved :
       extension[e].round < extension[f].round
         => extension[e].asked < extension[f].asked
  /\ \A e \in approved :
       /\ extension[e].asked <= borrow.due
       /\ extension[e].round = borrow.count => extension[e].asked = borrow.due

\* Such a row is the next round of the loan.
NextRound(row) == row.round = borrow.count + 1 /\ row.asked > borrow.due

OneWaits == \A e, f \in Having("PENDING") : NextRound(extension[e]) /\ e = f

\* What a request has read is still so.
StillSo(r) ==
  /\ r.op = "CREATE" => NextRound(r.row) /\ Having("PENDING") = {}
  /\ r.op = "CANCEL" => r.id \in Having("PENDING")

TurnInv ==
  OneRequest /\ Approvals /\ OneWaits /\ \A w \in Workers : StillSo(request[w])

\* Nothing is approved, and nothing else changes what is.
LEMMA ApprovalsStay ==
  ASSUME Approvals, Having("APPROVED")' = Having("APPROVED"),
         \A e \in Having("APPROVED") : extension'[e] = extension[e],
         borrow'.count = borrow.count, borrow'.due = borrow.due
  PROVE  Approvals'
<1> DEFINE A == Having("APPROVED")
<1>1. /\ borrow.count = Cardinality(A)
      /\ {extension[e].round : e \in A} = 1 .. borrow.count
      /\ \A e, f \in A : extension[e].round < extension[f].round
                           => extension[e].asked < extension[f].asked
      /\ \A e \in A :
           /\ extension[e].asked <= borrow.due
           /\ extension[e].round = borrow.count => extension[e].asked = borrow.due
  BY DEF Approvals
<1>2. A' = A /\ \A e \in A : extension'[e] = extension[e]
  OBVIOUS
<1> HIDE DEF A
<1>3. {extension'[e].round : e \in A} = {extension[e].round : e \in A}
  BY <1>2
<1>4. Approvals' <=>
        /\ borrow'.count = Cardinality(A')
        /\ {extension'[e].round : e \in A'} = 1 .. borrow'.count
        /\ \A e, f \in A' : extension'[e].round < extension'[f].round
                              => extension'[e].asked < extension'[f].asked
        /\ \A e \in A' :
             /\ extension'[e].asked <= borrow'.due
             /\ extension'[e].round = borrow'.count
                  => extension'[e].asked = borrow'.due
  BY DEF Approvals, A
<1> QED
  BY <1>1, <1>2, <1>3, <1>4

\* The next round is approved: it becomes the last one.
LEMMA NextRoundApproved ==
  ASSUME ExtensionTypeOK, ExtensionTypeOK', Approvals,
         NEW e \in Extensions, e \notin Having("APPROVED"),
         Having("APPROVED")' = Having("APPROVED") \union {e},
         \A f \in Having("APPROVED") : extension'[f] = extension[f],
         NextRound(extension'[e]),
         borrow'.count = borrow.count + 1, borrow'.due = extension'[e].asked
  PROVE  Approvals'
<1> DEFINE A == Having("APPROVED")
<1>1. /\ borrow.count = Cardinality(A)
      /\ {extension[f].round : f \in A} = 1 .. borrow.count
      /\ \A f, g \in A : extension[f].round < extension[g].round
                           => extension[f].asked < extension[g].asked
      /\ \A f \in A : extension[f].asked <= borrow.due
  BY DEF Approvals
<1>2. A \subseteq Extensions /\ IsFiniteSet(A) /\ Cardinality(A) \in Nat
  BY ExtensionAssumption, FS_Subset, FS_CardinalityType DEF Having
<1>3. /\ A' = A \union {e} /\ e \notin A
      /\ \A f \in A : extension'[f] = extension[f]
  OBVIOUS
<1>4. Cardinality(A') = borrow.count + 1
  BY <1>1, <1>2, <1>3, FS_AddElement
<1>5. /\ extension'[e].round = borrow.count + 1
      /\ extension'[e].asked > borrow.due
      /\ extension'[e].asked \in Nat /\ borrow.due \in Nat /\ borrow.count \in Nat
  BY DEF NextRound, ExtensionTypeOK, BorrowRow, ExtensionRow
<1>6. \A f \in A : /\ extension[f].round \in 1 .. borrow.count
                   /\ extension[f].asked \in Nat
  BY <1>1, <1>2 DEF ExtensionTypeOK, ExtensionRow
<1> HIDE DEF A
<1>7. {extension'[f].round : f \in A'} = 1 .. borrow'.count
  <2>1. {extension'[f].round : f \in A'}
          = {extension[f].round : f \in A} \union {extension'[e].round}
    BY <1>3
  <2>2. 1 .. borrow'.count = 1 .. borrow.count \union {borrow.count + 1}
    BY <1>5
  <2> QED
    BY <1>1, <1>5, <2>1, <2>2
<1>8. \A f, g \in A' : extension'[f].round < extension'[g].round
                         => extension'[f].asked < extension'[g].asked
  <2> SUFFICES ASSUME NEW f \in A', NEW g \in A',
                      extension'[f].round < extension'[g].round
               PROVE  extension'[f].asked < extension'[g].asked
    OBVIOUS
  <2>1. CASE f \in A /\ g \in A
    BY <1>1, <1>3, <2>1
  <2>2. CASE f \in A /\ g = e
    BY <1>1, <1>3, <1>5, <1>6, <2>2
  <2>3. f # e
    BY <1>3, <1>5, <1>6
  <2> QED
    BY <1>3, <2>1, <2>2, <2>3
<1>9. ASSUME NEW f \in A'
      PROVE  /\ extension'[f].asked <= borrow'.due
             /\ extension'[f].round = borrow'.count
                  => extension'[f].asked = borrow'.due
  <2>1. CASE f \in A
    BY <1>1, <1>3, <1>5, <1>6, <2>1
  <2>2. CASE f = e
    BY <1>5, <2>2
  <2> QED
    BY <1>3, <2>1, <2>2
<1>10. Approvals' <=>
        /\ borrow'.count = Cardinality(A')
        /\ {extension'[f].round : f \in A'} = 1 .. borrow'.count
        /\ \A f, g \in A' : extension'[f].round < extension'[g].round
                              => extension'[f].asked < extension'[g].asked
        /\ \A f \in A' :
             /\ extension'[f].asked <= borrow'.due
             /\ extension'[f].round = borrow'.count
                  => extension'[f].asked = borrow'.due
  BY DEF Approvals, A
<1> QED
  BY <1>4, <1>7, <1>8, <1>9, <1>10

\* A desk that serves one request at a time has no other in progress.
LEMMA ServedAlone ==
  ASSUME OneRequest, NEW w \in Workers, Cardinality(Others(w)) < 1
  PROVE  Others(w) = {}
<1>1. SUFFICES ASSUME NEW v \in Others(w)
               PROVE  FALSE
  OBVIOUS
<1>2. Others(w) = {v}
  BY DEF OneRequest, Others
<1>3. Cardinality(Others(w)) = 1
  BY <1>2, FS_Singleton
<1> QED
  BY <1>3

LEMMA TurnStep ==
  ASSUME ExtensionTypeOK, ExtensionTypeOK', TurnInv,
         NEW w \in Workers, ExtensionStep(w), Others(w) = {}
  PROVE  TurnInv'
<1>1. /\ borrow \in BorrowRow
      /\ extension \in [Extensions -> ExtensionRow]
      /\ request \in [Workers -> Requests]
      /\ request' \in [Workers -> Requests]
  BY DEF ExtensionTypeOK
<1>2. Approvals /\ OneWaits /\ StillSo(request[w])
  BY DEF TurnInv
<1>3. \A v \in Workers \ {w} : request'[v] = request[v] /\ request[v] = NoRequest
  BY <1>1
     DEF Others, ExtensionStep, ReadCreate, CommitCreate, ReviewExtension,
         ReadCancel, CommitCancel, GiveBack, GiveUp, Done
\* What is left to show of a step.
<1>4. ASSUME Approvals', OneWaits', StillSo(request[w])'
      PROVE  TurnInv'
  <2>1. OneRequest'
    BY <1>3 DEF OneRequest
  <2>2. ASSUME NEW v \in Workers \ {w}
        PROVE  StillSo(request[v])'
    BY <1>3, <2>2 DEF StillSo, NoRequest
  <2> QED
    BY <1>4, <2>1, <2>2 DEF TurnInv
<1>5. ASSUME Done(w)
      PROVE  StillSo(request[w])'
  <2>1. request'[w] = NoRequest
    BY <1>1, <1>5 DEF Done
  <2> QED
    BY <2>1 DEF StillSo, NoRequest
<1>6. ASSUME extension' = extension, borrow'.count = borrow.count,
             borrow'.due = borrow.due
      PROVE  Approvals' /\ OneWaits' /\ Having("PENDING")' = Having("PENDING")
  <2>1. \A s : Having(s)' = Having(s)
    BY <1>6 DEF Having
  <2>2. Approvals'
    BY <1>2, <1>6, <2>1, ApprovalsStay
  <2> QED
    BY <1>2, <1>6, <2>1, <2>2 DEF OneWaits, NextRound
<1>7. ASSUME NEW type \in {"DESK", "ONLINE"}, NEW date \in Dates,
             ReadCreate(w, type, date)
      PROVE  TurnInv'
  <2> DEFINE row == [status |-> IF type = "DESK" THEN "APPROVED" ELSE "PENDING",
                     round  |-> borrow.count + 1,
                     was    |-> borrow.due,
                     asked  |-> date]
  <2>1. /\ request'[w] = [op |-> "CREATE", row |-> row]
        /\ UNCHANGED <<borrow, extension>>
        /\ Having("PENDING") = {} /\ date > borrow.due
    BY <1>1, <1>7 DEF ReadCreate
  <2>2. request'[w].op = "CREATE" /\ request'[w].row = row
    BY <2>1
  <2>3. row.round = borrow.count + 1 /\ row.asked = date
    OBVIOUS
  <2> HIDE DEF row
  <2>4. StillSo(request[w])'
    BY <1>6, <2>1, <2>2, <2>3 DEF StillSo, NextRound
  <2> QED
    BY <1>4, <1>6, <2>1, <2>4
<1>8. ASSUME CommitCreate(w)
      PROVE  TurnInv'
  <2> DEFINE row == request[w].row
  <2>1. PICK e \in Having("NONE") : extension' = [extension EXCEPT ![e] = row]
    BY <1>8 DEF CommitCreate
  <2>2. /\ Done(w)
        /\ NextRound(row) /\ Having("PENDING") = {}
        /\ row.status \in {"PENDING", "APPROVED"}
        /\ borrow' = IF row.status = "APPROVED"
                     THEN [borrow EXCEPT !.due = row.asked, !.count = row.round]
                     ELSE borrow
    BY <1>1, <1>2, <1>8 DEF CommitCreate, StillSo, Requests, NoRequest
  <2> HIDE DEF row
  <2>3. /\ e \in Extensions /\ extension[e].status = "NONE"
        /\ extension'[e] = row
        /\ \A f \in Extensions \ {e} : extension'[f] = extension[f]
    BY <1>1, <2>1 DEF Having
  <2>4. CASE row.status = "APPROVED"
    <3>1. borrow'.due = row.asked /\ borrow'.count = borrow.count + 1
      BY <1>1, <2>2, <2>4 DEF NextRound, BorrowRow
    <3>2. /\ Having("APPROVED")' = Having("APPROVED") \union {e}
          /\ e \notin Having("APPROVED") /\ Having("PENDING")' = {}
      BY <2>2, <2>3, <2>4 DEF Having
    <3>3. \A f \in Having("APPROVED") : extension'[f] = extension[f]
      BY <2>3, <3>2 DEF Having
    <3>4. Approvals'
      BY <1>2, <2>2, <2>3, <3>1, <3>2, <3>3, NextRoundApproved
    <3>5. OneWaits'
      BY <3>2 DEF OneWaits
    <3> QED
      BY <1>4, <1>5, <2>2, <3>4, <3>5
  <2>5. CASE row.status = "PENDING"
    <3>1. borrow' = borrow
      BY <2>2, <2>5
    <3>2. Having("APPROVED")' = Having("APPROVED") /\ Having("PENDING")' = {e}
      BY <2>2, <2>3, <2>5 DEF Having
    <3>3. \A f \in Having("APPROVED") : extension'[f] = extension[f]
      BY <2>3 DEF Having
    <3>4. Approvals'
      BY <1>2, <3>1, <3>2, <3>3, ApprovalsStay
    <3>5. OneWaits'
      BY <2>2, <2>3, <3>1, <3>2 DEF OneWaits, NextRound
    <3> QED
      BY <1>4, <1>5, <2>2, <3>4, <3>5
  <2> QED
    BY <2>2, <2>4, <2>5
<1>9. ASSUME NEW e \in Extensions, NEW decision \in {"APPROVED", "REJECTED"},
             ReviewExtension(w, e, decision)
      PROVE  TurnInv'
  <2>1. /\ request[w] = NoRequest /\ request' = request
        /\ extension[e].status = "PENDING"
        /\ extension' = [extension EXCEPT ![e].status = decision]
    BY <1>9 DEF ReviewExtension
  <2>2. /\ extension'[e].status = decision
        /\ extension'[e].round = extension[e].round
        /\ extension'[e].asked = extension[e].asked
        /\ \A f \in Extensions \ {e} : extension'[f] = extension[f]
    BY <1>1, <2>1 DEF ExtensionRow
  <2>3. NextRound(extension[e]) /\ Having("PENDING") = {e}
    BY <1>2, <2>1 DEF OneWaits, Having
  <2>4. Having("PENDING")' = {}
    BY <2>2, <2>3 DEF Having
  <2>5. OneWaits' /\ StillSo(request[w])'
    BY <2>1, <2>4 DEF OneWaits, StillSo, NoRequest
  <2>6. CASE decision = "APPROVED"
    <3>1. borrow'.due = extension[e].asked /\ borrow'.count = borrow.count + 1
      BY <1>1, <1>9, <2>6 DEF ReviewExtension, BorrowRow
    <3>2. /\ Having("APPROVED")' = Having("APPROVED") \union {e}
          /\ e \notin Having("APPROVED")
          /\ \A f \in Having("APPROVED") : extension'[f] = extension[f]
      BY <2>1, <2>2, <2>6 DEF Having
    <3>3. NextRound(extension'[e])
      BY <2>2, <2>3 DEF NextRound
    <3>4. Approvals'
      BY <1>2, <2>2, <3>1, <3>2, <3>3, NextRoundApproved
    <3> QED
      BY <1>4, <2>5, <3>4
  <2>7. CASE decision = "REJECTED"
    <3>1. borrow' = borrow
      BY <1>9, <2>7 DEF ReviewExtension
    <3>2. /\ Having("APPROVED")' = Having("APPROVED")
          /\ \A f \in Having("APPROVED") : extension'[f] = extension[f]
      BY <2>1, <2>2, <2>7 DEF Having
    <3>3. Approvals'
      BY <1>2, <3>1, <3>2, ApprovalsStay
    <3> QED
      BY <1>4, <2>5, <3>3
  <2> QED
    BY <2>6, <2>7
<1>10. ASSUME NEW e \in Extensions, ReadCancel(w, e)
       PROVE  TurnInv'
  <2>1. /\ request'[w] = [op |-> "CANCEL", id |-> e]
        /\ UNCHANGED <<borrow, extension>>
        /\ e \in Having("PENDING")
    BY <1>1, <1>10 DEF ReadCancel, Having
  <2>2. StillSo(request[w])'
    BY <1>6, <2>1 DEF StillSo
  <2> QED
    BY <1>4, <1>6, <2>1, <2>2
<1>11. ASSUME CommitCancel(w)
       PROVE  TurnInv'
  <2> DEFINE e == request[w].id
  <2>1. e \in Having("PENDING") /\ borrow' = borrow /\ Done(w)
    BY <1>2, <1>11 DEF CommitCancel, StillSo
  <2>2. /\ e \in Extensions /\ extension[e].status = "PENDING"
        /\ extension'[e].status = "CANCELLED"
        /\ \A f \in Extensions \ {e} : extension'[f] = extension[f]
    BY <1>1, <1>11, <2>1 DEF CommitCancel, Having, ExtensionRow
  <2> HIDE DEF e
  <2>3. Having("PENDING")' = {}
    BY <1>2, <2>1, <2>2 DEF OneWaits, Having
  <2>4. /\ Having("APPROVED")' = Having("APPROVED")
        /\ \A f \in Having("APPROVED") : extension'[f] = extension[f]
    BY <2>2 DEF Having
  <2>5. Approvals'
    BY <1>2, <2>1, <2>4, ApprovalsStay
  <2>6. OneWaits'
    BY <2>3 DEF OneWaits
  <2> QED
    BY <1>4, <1>5, <2>1, <2>5, <2>6
<1>12. ASSUME GiveBack(w)
       PROVE  TurnInv'
  <2>1. /\ extension' = extension /\ request' = request
        /\ borrow'.count = borrow.count /\ borrow'.due = borrow.due
        /\ request[w] = NoRequest
    BY <1>1, <1>12 DEF GiveBack, BorrowRow
  <2>2. StillSo(request[w])'
    BY <2>1 DEF StillSo, NoRequest
  <2> QED
    BY <1>4, <1>6, <2>1, <2>2
<1>13. ASSUME GiveUp(w)
       PROVE  TurnInv'
  BY <1>4, <1>5, <1>6, <1>13 DEF GiveUp
<1> QED
  BY <1>7, <1>8, <1>9, <1>10, <1>11, <1>12, <1>13 DEF ExtensionStep

\* A desk does what the handlers do: the invariants above are also its own.
LEMMA DeskHandlesExtensions == DeskSpec => ExtensionSpec
<1>1. DeskInit => ExtensionInit
  BY DEF DeskInit
<1>2. [DeskNext]_deskVars => [ExtensionNext]_extensionVars
  BY DEF DeskNext, deskVars, ExtensionNext
<1> QED
  BY <1>1, <1>2, PTL DEF DeskSpec, ExtensionSpec

LEMMA TurnInvCorrect == DeskSpec => [](atOnce = 1 => TurnInv)
<1> DEFINE Inv == atOnce = 1 => TurnInv
<1>1. DeskInit => Inv
  <2> SUFFICES ASSUME DeskInit
               PROVE  Inv
    OBVIOUS
  <2>1. ExtensionInit
    BY DEF DeskInit
  <2>2. Having("APPROVED") = {} /\ Having("PENDING") = {}
    BY <2>1 DEF ExtensionInit, Having, NoExtension
  <2>3. Approvals
    BY <2>1, <2>2, FS_EmptySet DEF ExtensionInit, Approvals
  <2>4. OneRequest /\ OneWaits /\ \A w \in Workers : StillSo(request[w])
    BY <2>1, <2>2 DEF ExtensionInit, OneRequest, OneWaits, StillSo, NoRequest
  <2> QED
    BY <2>3, <2>4 DEF TurnInv
<1>2. ExtensionTypeOK /\ ExtensionTypeOK' /\ Inv /\ [DeskNext]_deskVars => Inv'
  <2> SUFFICES ASSUME ExtensionTypeOK, ExtensionTypeOK', Inv, [DeskNext]_deskVars
               PROVE  Inv'
    OBVIOUS
  <2>1. atOnce' = atOnce
    BY DEF DeskNext, deskVars
  <2>2. CASE DeskNext /\ atOnce = 1
    <3>1. PICK w \in Workers : ExtensionStep(w) /\ Cardinality(Others(w)) < 1
      BY <2>2 DEF DeskNext
    <3>2. Others(w) = {}
      BY <2>2, <3>1, ServedAlone DEF TurnInv
    <3> QED
      BY <2>1, <2>2, <3>1, <3>2, TurnStep
  <2>3. CASE UNCHANGED extensionVars
    <3>1. \A s : Having(s)' = Having(s)
      BY <2>3 DEF extensionVars, Having
    <3>2. TurnInv => Approvals'
      BY <2>3, <3>1, ApprovalsStay DEF TurnInv, extensionVars
    <3>3. TurnInv => TurnInv'
      BY <2>3, <3>1, <3>2
         DEF TurnInv, extensionVars, OneRequest, OneWaits, NextRound, StillSo
    <3> QED
      BY <2>1, <3>3
  <2> QED
    BY <2>1, <2>2, <2>3 DEF deskVars
<1>3. DeskSpec => []ExtensionTypeOK
  BY DeskHandlesExtensions, ExtensionTypeCorrect
<1> QED
  BY <1>1, <1>2, <1>3, PTL DEF DeskSpec

(***************************************************************************)
(* One request after the other keeps the history of a loan, for any number *)
(* of extensions and dates: createExtension, reviewExtension and           *)
(* cancelExtension then agree on the count, the rounds and the date in     *)
(* force, and one extension at most waits for its review.                  *)
(***************************************************************************)
THEOREM HistoryIsKeptInTurn == DeskSpec => []HistoryKeptInTurn
<1>1. (atOnce = 1 => TurnInv) => HistoryKeptInTurn
  <2> SUFFICES ASSUME atOnce = 1 => TurnInv, atOnce = 1
               PROVE  HistoryKept
    BY DEF HistoryKeptInTurn
  <2>1. Approvals /\ OneWaits
    BY DEF TurnInv
  <2>2. Cardinality(Having("PENDING")) <= 1
    <3>1. Having("PENDING") = {} \/ \E e : Having("PENDING") = {e}
      BY <2>1 DEF OneWaits
    <3>2. Cardinality(Having("PENDING")) \in {0, 1}
      BY <3>1, FS_EmptySet, FS_Singleton
    <3> QED
      BY <3>2
  <2> QED
    BY <2>1, <2>2 DEF Approvals, HistoryKept
<1> QED
  BY <1>1, TurnInvCorrect, PTL

(***************************************************************************)
(* One request after the other, whatever createExtension, reviewExtension  *)
(* and cancelExtension do either leaves the due date and the count alone   *)
(* or is an extension: a later date, and one more on the count.            *)
(***************************************************************************)
THEOREM LoanExtendsInTurn == DeskSpec => ExtendsInTurn
<1> DEFINE Stays   == UNCHANGED <<borrow.due, borrow.count>>
           Extends == borrow'.due > borrow.due /\ borrow'.count = borrow.count + 1
<1>1. ASSUME ExtensionTypeOK, TurnInv, NEW w \in Workers, ExtensionStep(w)
      PROVE  Stays \/ Extends
  <2> USE DEF ExtensionTypeOK
  <2>1. Approvals /\ OneWaits /\ StillSo(request[w])
    BY <1>1 DEF TurnInv
  <2>2. ASSUME borrow' = borrow
        PROVE  Stays
    BY <2>2
  <2>3. ASSUME CommitCreate(w), request[w].row.status = "APPROVED"
        PROVE  Extends
    <3>1. NextRound(request[w].row)
      BY <2>1, <2>3 DEF CommitCreate, StillSo
    <3>2. /\ borrow'.due = request[w].row.asked
          /\ borrow'.count = request[w].row.round
      BY <1>1, <2>3 DEF CommitCreate, BorrowRow
    <3> QED
      BY <3>1, <3>2 DEF NextRound
  <2>4. ASSUME NEW e \in Extensions, ReviewExtension(w, e, "APPROVED")
        PROVE  Extends
    <3>1. NextRound(extension[e])
      BY <2>1, <2>4 DEF OneWaits, ReviewExtension, Having
    <3>2. borrow'.due = extension[e].asked /\ borrow'.count = borrow.count + 1
      BY <1>1, <2>4 DEF ReviewExtension, BorrowRow
    <3> QED
      BY <3>1, <3>2 DEF NextRound
  <2>5. ASSUME GiveBack(w)
        PROVE  Stays
    BY <1>1, <2>5 DEF GiveBack, BorrowRow
  <2>6. CASE CommitCreate(w)
    BY <2>2, <2>3, <2>6 DEF CommitCreate
  <2>7. CASE \E e \in Extensions, decision \in {"APPROVED", "REJECTED"} :
               ReviewExtension(w, e, decision)
    BY <2>2, <2>4, <2>7 DEF ReviewExtension
  <2> QED
    BY <1>1, <2>2, <2>5, <2>6, <2>7
       DEF ExtensionStep, ReadCreate, ReadCancel, CommitCancel, GiveUp
<1>2. ASSUME ExtensionTypeOK, atOnce = 1 => TurnInv, [DeskNext]_deskVars,
             atOnce = 1
      PROVE  Stays \/ Extends
  <2>1. CASE DeskNext
    BY <1>1, <1>2, <2>1 DEF DeskNext
  <2>2. CASE UNCHANGED deskVars
    BY <2>2 DEF deskVars, extensionVars
  <2> QED
    BY <1>2, <2>1, <2>2
<1>3. DeskSpec => []ExtensionTypeOK
  BY DeskHandlesExtensions, ExtensionTypeCorrect
<1>4. ExtensionTypeOK /\ (atOnce = 1 => TurnInv) /\ [DeskNext]_deskVars
        => [atOnce = 1 => Stays \/ Extends]_deskVars
  BY <1>2
<1> QED
  BY <1>3, <1>4, TurnInvCorrect, PTL DEF DeskSpec, ExtendsInTurn
=============================================================================
