------------------------- MODULE ApprovalGateProofs -------------------------
(***************************************************************************)
(* Proofs about ApprovalGate for every set of requests and sessions and    *)
(* every choice of the times.  Requests do not act on each other, so the   *)
(* invariant is a type invariant and a fact about each request: what the   *)
(* record in memory, the durable row, the history and the clocks of one    *)
(* request have to do with each other.                                     *)
(***************************************************************************)
EXTENDS ApprovalGate, TLAPS

\* An unclaimed row has its record in memory: what a restart brings back was open.
RowHasRecord(i) == Claimable(i) => mem[i] # Nil

\* The row and the owner of an open approval, as ApprovalsReachable asks for them.
Reachable(i) ==
    i \in Approvals /\ mem[i] # Nil =>
        Claimable(i) /\ (mem[i].owner \in conn \cup {Nil, Rest} \/ mem[i].late)

\* What FrozenIsQuiet says of one request.
Quiet(i) == frozen /\ ~torn => ~(mem[i] # Nil /\ Claimable(i))

\* The history agrees with what is open, and an effect is recorded.
Recorded(i) ==
    /\ mem[i] # Nil => ended[i] = "no"
    /\ ended[i] = "no" => ran[i] = 0

\* Of the clocks that the sweep asks, one is no older than the present window.
Covered(i) ==
    /\ mem[i] # Nil =>
         \/ mem[i].age <= window[i]
         \/ i \in Approvals /\ row[i].age <= window[i]
    /\ i \in Actions /\ row[i] # Nil => row[i].stamp <= row[i].age

Point(i) ==
    /\ RowHasRecord(i)
    /\ Reachable(i)
    /\ Quiet(i)
    /\ Recorded(i)
    /\ Covered(i)

IInv == TypeOK /\ \A i \in Items : Point(i)

\* What Point(i) speaks of.
core(i) == <<mem[i], row[i], ran[i], ended[i], window[i]>>

-----------------------------------------------------------------------------
(* Helpers.                                                                *)

LEMMA UpStays ==
  ASSUME NEW cap \in Nat, NEW age \in -1..cap
  PROVE  Up(age, cap) \in 0..cap /\ Up(age, cap) >= age
  BY DEF Up

LEMMA Caps ==
  /\ TTL + 1 \in Nat /\ HeardCap \in Nat /\ CAP \in Nat /\ CAP <= HeardCap
  /\ \A i \in Items : AgeCap(i) \in Nat /\ TTL + 1 <= AgeCap(i)
  BY TimesAssumption DEF AgeCap, HeardCap

\* A request that was just added is well formed and is something.
LEMMA NewOnes ==
  /\ \A owner \in Sessions \cup {Nil, Rest} : NewRecord(owner) \in Records
  /\ \A i \in Items : NewRow \in Rows(i)
  /\ \A text \in {"call", "over"} : NewLetter(text) \in Letters /\ Resubmitted(text) \in Letters
<1>1. ASSUME NEW owner \in Sessions \cup {Nil, Rest}
      PROVE  NewRecord(owner) \in Records
  BY Caps, TimesAssumption DEF NewRecord, Records
<1>2. ASSUME NEW i \in Items
      PROVE  NewRow \in Rows(i)
  BY Caps DEF NewRow, Rows
<1>3. ASSUME NEW text \in {"call", "over"}
      PROVE  NewLetter(text) \in Letters /\ Resubmitted(text) \in Letters
  <2>1. NewLetter(text) = [dated |-> IF text = "call" THEN TRUE ELSE FALSE, text |-> text,
                           age |-> 0, paused |-> 0, tick |-> -1, held |-> FALSE]
    BY Zenon DEF NewLetter
  <2>2. NewLetter(text) \in Letters
    BY <2>1, Caps DEF Letters
  <2>. QED  BY <2>2, Zenon DEF Resubmitted, Letters
<1>. QED  BY <1>1, <1>2, <1>3

LEMMA LettersStay ==
  ASSUME NEW m \in Letters, NEW floorHeld \in BOOLEAN
  PROVE  /\ Advanced(m, floorHeld) \in Letters
         /\ FactsForDrain(m) \in {"call", "over"}
<1>1. Advanced(m, floorHeld) \in Letters
  <2>1. CASE ~m.dated
    BY <2>1 DEF Advanced
  <2>2. CASE m.dated
    <3>1. /\ m.tick \in -1..CAP /\ m.paused \in 0..CAP /\ 0 \in -1..CAP
          /\ m.tick > 0 => Least(CAP, m.paused + m.tick) \in 0..CAP
      BY Caps DEF Letters, Least
    <3>2. PICK paused \in 0..CAP :
             Advanced(m, floorHeld) = [m EXCEPT !.paused = paused, !.tick = 0, !.held = floorHeld]
      BY <2>2, <3>1 DEF Advanced
    <3>. QED  BY <3>1, <3>2, Zenon DEF Letters
  <2>. QED  BY <2>1, <2>2
<1>2. FactsForDrain(m) \in {"call", "over"}
  BY DEF FactsForDrain, Letters
<1>. QED  BY <1>1, <1>2

LEMMA SettleTypes ==
  ASSUME TypeOK, NEW S \in SUBSET Items, NEW how \in Endings, Settle(S, how)
  PROVE  /\ mem' \in [Items -> Records \cup {Nil}]
         /\ DOMAIN row' = Items /\ \A i \in Items : row'[i] \in Rows(i) \cup {Nil}
         /\ ended' \in [Items -> Endings]
         /\ \A i \in Items :
              /\ mem'[i] = IF i \in S THEN Nil ELSE mem[i]
              /\ row'[i] = IF i \in S THEN Nil ELSE row[i]
              /\ ended'[i] = IF i \in S THEN how ELSE ended[i]
  BY DEF TypeOK, Settle, Without, Ending

LEMMA UnqueueTypes ==
  ASSUME TypeOK, NEW S, Unqueue(S)
  PROVE  letter' \in [Items -> Letters \cup {Nil}] /\ credit' \in [Items -> 0..CAP]
  BY Caps DEF TypeOK, Unqueue, Without, Zeroed

\* The rows a restart may find: as they were, but for claims and deletions.
Leftover(r) ==
  \A i \in Items : r[i] = row[i] \/ r[i] = Nil
                    \/ (r[i] \in Rows(i) /\ r[i].claimed)

\* A restart keeps exactly the requests whose row is left and unclaimed; of the others
\* the open ones are closed.
LEMMA RebootKeeps ==
  ASSUME IInv, NEW r, Leftover(r), Reboot(r)
  PROVE  /\ mem' \in [Items -> Records \cup {Nil}]
         /\ DOMAIN row' = Items /\ \A i \in Items : row'[i] \in Rows(i) \cup {Nil}
         /\ ran' \in [Items -> Nat] /\ ran' = ran
         /\ ended' \in [Items -> Endings]
         /\ window' \in [Items -> 0..(TTL + 1)]
         /\ conn' = {} /\ gone' = {} /\ active' = Nil
         /\ letter' \in [Items -> Letters \cup {Nil}]
         /\ credit' \in [Items -> 0..CAP]
         /\ \A i \in Items :
              \/ /\ mem'[i] = Nil /\ row'[i] = Nil
                 /\ ended'[i] = IF mem[i] # Nil /\ ended[i] = "no" THEN "done" ELSE ended[i]
              \/ /\ row[i] # Nil /\ ~row[i].claimed
                 /\ mem'[i] = [NewRecord(Nil) EXCEPT !.age = row[i].stamp]
                 /\ row'[i] = row[i] /\ ended'[i] = ended[i]
                 /\ window'[i] = Least(row[i].stamp, row[i].age)
<1>. DEFINE kept(i) == /\ r[i] # Nil /\ ~r[i].claimed
                      /\ ~(i \in Actions /\ r[i].age > TTL + PRUNE)
<1>1. TypeOK
  BY DEF IInv
<1>2. ASSUME NEW i \in Items, kept(i)
      PROVE  /\ r[i] = row[i] /\ row[i] \in Rows(i) /\ row[i] # Nil /\ ~row[i].claimed
             /\ row[i].stamp \in 0..(TTL + 1) /\ row[i].age \in 0..AgeCap(i)
  BY <1>1, <1>2 DEF Leftover, TypeOK, Rows
<1>3. ASSUME NEW i \in Items, kept(i)
      PROVE  /\ [NewRecord(Nil) EXCEPT !.age = r[i].stamp] \in Records
             /\ Least(r[i].stamp, r[i].age) \in 0..(TTL + 1)
  <2>1. Least(r[i].stamp, r[i].age) \in 0..(TTL + 1)
    BY <1>2, <1>3, Caps DEF Least
  <2>2. NewRecord(Nil) \in Records
    BY NewOnes
  <2>3. r[i].stamp \in 0..(TTL + 1)
    BY <1>2, <1>3
  <2>. QED  BY <2>1, <2>2, <2>3 DEF Records
<1>4. mem' \in [Items -> Records \cup {Nil}]
  BY <1>3 DEF Reboot
<1>5. DOMAIN row' = Items /\ \A i \in Items : row'[i] \in Rows(i) \cup {Nil}
  BY <1>2 DEF Reboot
<1>6. ended' \in [Items -> Endings]
  BY <1>1 DEF Reboot, Ending, Endings, TypeOK
<1>7. window' \in [Items -> 0..(TTL + 1)]
  BY <1>3, Caps DEF Reboot
<1>8. letter' \in [Items -> Letters \cup {Nil}] /\ credit' \in [Items -> 0..CAP]
  BY Caps DEF Reboot
<1>9. ran' \in [Items -> Nat] /\ ran' = ran /\ conn' = {} /\ gone' = {} /\ active' = Nil
  BY <1>1 DEF Reboot, TypeOK
<1>10. ASSUME NEW i \in Items
       PROVE  \/ /\ mem'[i] = Nil /\ row'[i] = Nil
                 /\ ended'[i] = IF mem[i] # Nil /\ ended[i] = "no" THEN "done" ELSE ended[i]
              \/ /\ row[i] # Nil /\ ~row[i].claimed
                 /\ mem'[i] = [NewRecord(Nil) EXCEPT !.age = row[i].stamp]
                 /\ row'[i] = row[i] /\ ended'[i] = ended[i]
                 /\ window'[i] = Least(row[i].stamp, row[i].age)
  <2>1. CASE kept(i)
    BY <1>2, <2>1 DEF Reboot, Ending
  <2>2. CASE ~kept(i)
    BY <2>2 DEF Reboot, Ending, Open
  <2>. QED  BY <2>1, <2>2
<1>. QED  BY <1>4, <1>5, <1>6, <1>7, <1>8, <1>9, <1>10

-----------------------------------------------------------------------------
(* Types.                                                                  *)

\* A sweep of any part of the requests.
LEMMA SweepTypes ==
  ASSUME TypeOK, NEW S \in SUBSET Items, SweepItems(S)
  PROVE  TypeOK'
<1>1. \A i \in Items : mem[i] # Nil => [mem[i] EXCEPT !.heard = 0] \in Records
  BY Caps DEF TypeOK, Records
<1>2. mem' \in [Items -> Records \cup {Nil}]
  BY <1>1 DEF SweepItems, TypeOK, Calls, Listed
<1>3. DOMAIN row' = Items /\ \A i \in Items : row'[i] \in Rows(i) \cup {Nil}
  BY DEF SweepItems, TypeOK
<1>4. ended' \in [Items -> Endings]
  BY DEF SweepItems, Endings, TypeOK
<1>5. letter' \in [Items -> Letters \cup {Nil}]
  BY NewOnes DEF SweepItems, TypeOK
<1>6. credit' \in [Items -> 0..CAP]
  BY Caps DEF SweepItems, TypeOK
<1>7. UNCHANGED <<ran, window, conn, gone, active, frozen, torn>>
  BY DEF SweepItems
<1>. QED  BY <1>2, <1>3, <1>4, <1>5, <1>6, <1>7 DEF TypeOK

\* Time keeps a record a record and a row a row.
LEMMA Aging ==
  /\ \A m \in Records :
       [m EXCEPT !.age = Up(@, TTL + 1),
                 !.heard = IF @ < 0 THEN @ ELSE Up(@, HeardCap)] \in Records
  /\ \A i \in Items : \A m \in Rows(i) :
       [m EXCEPT !.stamp = Up(@, TTL + 1), !.age = Up(@, AgeCap(i))] \in Rows(i)
<1>1. ASSUME NEW m \in Records
      PROVE  [m EXCEPT !.age = Up(@, TTL + 1),
                       !.heard = IF @ < 0 THEN @ ELSE Up(@, HeardCap)] \in Records
  <2>1. m.age \in 0..(TTL + 1) /\ m.heard \in -1..HeardCap
    BY DEF Records
  <2>2. Up(m.age, TTL + 1) \in 0..(TTL + 1)
    BY <2>1, Caps DEF Up
  <2>3. (IF m.heard < 0 THEN m.heard ELSE Up(m.heard, HeardCap)) \in -1..HeardCap
    BY <2>1, Caps DEF Up
  <2>. QED  BY <2>2, <2>3 DEF Records
<1>2. ASSUME NEW i \in Items, NEW m \in Rows(i)
      PROVE  [m EXCEPT !.stamp = Up(@, TTL + 1), !.age = Up(@, AgeCap(i))] \in Rows(i)
  <2>1. m.stamp \in 0..(TTL + 1) /\ m.age \in 0..AgeCap(i)
    BY DEF Rows
  <2>2. Up(m.stamp, TTL + 1) \in 0..(TTL + 1) /\ Up(m.age, AgeCap(i)) \in 0..AgeCap(i)
    BY <2>1, Caps DEF Up
  <2>. QED  BY <2>2 DEF Rows
<1>. QED  BY <1>1, <1>2

LEMMA TickTypes ==
  ASSUME TypeOK, Tick
  PROVE  TypeOK'
<1>1. mem' \in [Items -> Records \cup {Nil}]
  BY Aging DEF Tick, TypeOK
<1>2. DOMAIN row' = Items /\ \A i \in Items : row'[i] \in Rows(i) \cup {Nil}
  BY Aging DEF Tick, TypeOK
<1>3. window' \in [Items -> 0..(TTL + 1)]
  <2>1. \A i \in Items : Up(window[i], TTL + 1) \in 0..(TTL + 1) /\ 0 \in 0..(TTL + 1)
    BY UpStays, Caps DEF TypeOK
  <2>. QED  BY <2>1 DEF Tick
<1>4. letter' \in [Items -> Letters \cup {Nil}]
  <2>1. ASSUME NEW m \in Letters
        PROVE  [m EXCEPT !.age = Up(@, HeardCap),
                         !.tick = IF @ < 0 THEN @ ELSE Up(@, CAP)] \in Letters
    <3>1. m.age \in 0..HeardCap /\ m.tick \in -1..CAP
      BY DEF Letters
    <3>2. Up(m.age, HeardCap) \in 0..HeardCap
      BY <3>1, Caps DEF Up
    <3>3. (IF m.tick < 0 THEN m.tick ELSE Up(m.tick, CAP)) \in -1..CAP
      BY <3>1, Caps DEF Up
    <3>. QED  BY <3>2, <3>3 DEF Letters
  <2>. QED  BY <2>1 DEF Tick, TypeOK
<1>5. UNCHANGED <<ran, ended, conn, gone, active, credit, frozen, torn>>
  BY DEF Tick
<1>. QED  BY <1>1, <1>2, <1>3, <1>4, <1>5 DEF TypeOK

LEMMA DrainTypes ==
  ASSUME TypeOK, DrainArbiterTick
  PROVE  TypeOK'
<1>0. UNCHANGED <<mem, row, ran, ended, window, conn, gone, active, frozen, torn>>
  BY DEF DrainArbiterTick
<1>. SUFFICES letter' \in [Items -> Letters \cup {Nil}] /\ credit' \in [Items -> 0..CAP]
  BY <1>0 DEF TypeOK
<1>. DEFINE told(h, i) == IF letter[i] = Nil THEN Nil ELSE Advanced(letter[i], h)
            dated(h, i) == told(h, i) # Nil /\ told(h, i).dated
            reached(h, i) == dated(h, i) /\ told(h, i).age >= GRACE + told(h, i).paused
            ledger(h, i) == IF dated(h, i) THEN told(h, i).paused ELSE credit[i]
            spoken(h, i) == IF h /\ told(h, i).age = GRACE + told(h, i).paused
                            THEN told(h, i).text ELSE FactsForDrain(told(h, i))
            out(h) == IF h THEN {{i} : i \in {k \in Items : reached(h, k)}}
                      ELSE {{i \in Items : told(h, i) # Nil}}
<1>1. PICK h \in BOOLEAN :
        \/ /\ letter' = [i \in Items |-> told(h, i)]
           /\ credit' = [i \in Items |-> ledger(h, i)]
        \/ \E S \in out(h) : \E sent \in BOOLEAN :
              /\ letter' = [i \in Items |-> IF i \notin S THEN told(h, i)
                                            ELSE IF sent THEN Nil
                                            ELSE Resubmitted(spoken(h, i))]
              /\ credit' = [i \in Items |-> IF i \in S /\ reached(h, i) THEN 0
                                            ELSE ledger(h, i)]
  BY Zenon DEF DrainArbiterTick
<1>2. \A i \in Items : told(h, i) \in Letters \cup {Nil}
  BY LettersStay DEF TypeOK
<1>3. \A i \in Items : ledger(h, i) \in 0..CAP
  BY <1>2 DEF TypeOK, Letters
<1>4. \A S \in out(h) : \A i \in S : i \in Items /\ told(h, i) # Nil
  OBVIOUS
<1>5. \A i \in Items : told(h, i) # Nil => Resubmitted(spoken(h, i)) \in Letters
  <2>1. SUFFICES ASSUME NEW i \in Items, told(h, i) # Nil
                 PROVE  Resubmitted(spoken(h, i)) \in Letters
    OBVIOUS
  <2>2. told(h, i) \in Letters
    BY <1>2, <2>1
  <2>. HIDE DEF told
  <2>3. told(h, i).text \in {"call", "over"} /\ FactsForDrain(told(h, i)) \in {"call", "over"}
    BY <2>2, LettersStay DEF Letters
  <2>4. spoken(h, i) \in {"call", "over"}
    BY <2>3
  <2>. QED  BY <2>4, NewOnes
<1>. HIDE DEF told, dated, reached, ledger, spoken, out
<1>6. CASE letter' = [i \in Items |-> told(h, i)] /\ credit' = [i \in Items |-> ledger(h, i)]
  BY <1>2, <1>3, <1>6
<1>7. ASSUME NEW S \in out(h), NEW sent \in BOOLEAN,
             letter' = [i \in Items |-> IF i \notin S THEN told(h, i)
                                       ELSE IF sent THEN Nil
                                       ELSE Resubmitted(spoken(h, i))],
             credit' = [i \in Items |-> IF i \in S /\ reached(h, i) THEN 0 ELSE ledger(h, i)]
      PROVE  letter' \in [Items -> Letters \cup {Nil}] /\ credit' \in [Items -> 0..CAP]
  <2>1. letter' \in [Items -> Letters \cup {Nil}]
    BY <1>2, <1>4, <1>5, <1>7
  <2>2. credit' \in [Items -> 0..CAP]
    BY <1>3, <1>7, Caps
  <2>. QED  BY <2>1, <2>2
<1>. QED  BY <1>1, <1>6, <1>7

LEMMA RebootTypes ==
  ASSUME IInv, NEW r, Leftover(r), Reboot(r), frozen' \in BOOLEAN, torn' \in BOOLEAN
  PROVE  TypeOK'
  BY RebootKeeps DEF TypeOK

\* The three ways the process comes back leave rows as Leftover says.
LEMMA Leftovers ==
  ASSUME TypeOK
  PROVE  /\ Leftover(row)
         /\ \A i \in Items : Claimable(i) => Leftover([row EXCEPT ![i].claimed = TRUE])
         /\ \A S \in SUBSET Open : Leftover(Without(row, S))
<1>1. ASSUME NEW i \in Items, Claimable(i)
      PROVE  Leftover([row EXCEPT ![i].claimed = TRUE])
  <2>. DEFINE claimed == [row[i] EXCEPT !.claimed = TRUE]
              r == [row EXCEPT ![i] = claimed]
  <2>1. row[i] \in Rows(i)
    BY <1>1 DEF TypeOK, Claimable
  <2>2. claimed \in Rows(i) /\ claimed.claimed
    BY <2>1 DEF Rows
  <2>. HIDE DEF claimed
  <2>3. ASSUME NEW j \in Items
        PROVE  r[j] = row[j] \/ (r[j] \in Rows(j) /\ r[j].claimed)
    <3>1. DOMAIN row = Items
      BY DEF TypeOK
    <3>2. CASE j = i
      <4>1. r[j] = claimed
        BY <3>1, <3>2
      <4>. QED  BY <2>2, <3>2, <4>1
    <3>3. CASE j # i
      BY <3>1, <3>3
    <3>. QED  BY <3>2, <3>3
  <2>4. Leftover(r)
    BY <2>3 DEF Leftover
  <2>. QED  BY <2>4 DEF claimed
<1>2. Leftover(row)
  BY DEF Leftover
<1>3. ASSUME NEW S \in SUBSET Open
      PROVE  Leftover(Without(row, S))
  BY DEF Leftover, Without
<1>. QED  BY <1>1, <1>2, <1>3

\* Changing a field of a record to a value of the field's type keeps the record's type.
LEMMA FieldsStay ==
  ASSUME NEW m \in Records
  PROVE  /\ m.defers < MaxDeferrals =>
              [m EXCEPT !.age = 0, !.heard = -1, !.defers = @ + 1] \in Records
         /\ \A s \in Sessions : [m EXCEPT !.owner = s, !.heard = -1] \in Records
<1>1. 0 \in 0..(TTL + 1) /\ -1 \in -1..HeardCap
  BY Caps
<1>2. m.defers \in 0..MaxDeferrals /\ MaxDeferrals \in Nat
  BY TimesAssumption DEF Records
<1>3. m.defers < MaxDeferrals => m.defers + 1 \in 0..MaxDeferrals
  BY <1>2
<1>. DEFINE low == -1
<1>4. low \in -1..HeardCap
  BY <1>1
<1>. HIDE DEF low
<1>5. ASSUME m.defers < MaxDeferrals
      PROVE  [m EXCEPT !.age = 0, !.heard = low, !.defers = @ + 1] \in Records
  BY <1>1, <1>3, <1>4, <1>5 DEF Records
<1>6. ASSUME NEW s \in Sessions
      PROVE  [m EXCEPT !.owner = s, !.heard = low] \in Records
  BY <1>4 DEF Records
<1>. QED  BY <1>5, <1>6 DEF low

LEMMA TypeStep ==
  ASSUME IInv, [Next]_vars
  PROVE  TypeOK'
<1>0. TypeOK /\ \A i \in Items : Point(i)
  BY DEF IInv
<1>1. ASSUME NEW i \in Items, Stage(i)
      PROVE  TypeOK'
  <2>1. PICK owner \in Sessions \cup {Nil, Rest} : mem' = [mem EXCEPT ![i] = NewRecord(owner)]
    BY <1>0, <1>1 DEF Stage, TypeOK
  <2>2. mem' \in [Items -> Records \cup {Nil}]
    BY <1>0, <2>1, NewOnes DEF TypeOK
  <2>3. DOMAIN row' = Items /\ \A j \in Items : row'[j] \in Rows(j) \cup {Nil}
    BY <1>0, <1>1, NewOnes DEF Stage, TypeOK
  <2>4. window' \in [Items -> 0..(TTL + 1)]
    BY <1>0, <1>1, Caps DEF Stage, TypeOK
  <2>. QED  BY <1>0, <1>1, <2>2, <2>3, <2>4 DEF Stage, TypeOK
<1>2. ASSUME NEW i \in Items, Approve(i)
      PROVE  TypeOK'
  <2>1. Settle({i}, "done") /\ Unqueue({i}) /\ "done" \in Endings /\ {i} \in SUBSET Items
    BY <1>2 DEF Approve, Endings
  <2>2. ran' \in [Items -> Nat]
    BY <1>0, <1>2 DEF Approve, TypeOK
  <2>3. UNCHANGED <<window, conn, gone, active, frozen, torn>>
    BY <1>2 DEF Approve
  <2>4. /\ mem' \in [Items -> Records \cup {Nil}]
        /\ DOMAIN row' = Items /\ \A j \in Items : row'[j] \in Rows(j) \cup {Nil}
        /\ ended' \in [Items -> Endings]
    BY <1>0, <2>1, SettleTypes
  <2>5. letter' \in [Items -> Letters \cup {Nil}] /\ credit' \in [Items -> 0..CAP]
    BY <1>0, <2>1, UnqueueTypes
  <2>. QED  BY <1>0, <2>2, <2>3, <2>4, <2>5 DEF TypeOK
<1>3. ASSUME NEW i \in Items, Reject(i)
      PROVE  TypeOK'
  <2>1. Settle({i}, "done") /\ Unqueue({i}) /\ "done" \in Endings /\ {i} \in SUBSET Items
    BY <1>3 DEF Reject, Endings
  <2>2. UNCHANGED <<ran, window, conn, gone, active, frozen, torn>>
    BY <1>3 DEF Reject
  <2>3. /\ mem' \in [Items -> Records \cup {Nil}]
        /\ DOMAIN row' = Items /\ \A j \in Items : row'[j] \in Rows(j) \cup {Nil}
        /\ ended' \in [Items -> Endings]
    BY <1>0, <2>1, SettleTypes
  <2>4. letter' \in [Items -> Letters \cup {Nil}] /\ credit' \in [Items -> 0..CAP]
    BY <1>0, <2>1, UnqueueTypes
  <2>. QED  BY <1>0, <2>2, <2>3, <2>4 DEF TypeOK
<1>4. ASSUME NEW i \in Items, Defer(i)
      PROVE  TypeOK'
  <2>1. mem[i] \in Records /\ mem[i].defers \in 0..MaxDeferrals
    BY <1>0, <1>4 DEF Defer, TypeOK, Records
  <2>2. [mem[i] EXCEPT !.age = 0, !.heard = -1, !.defers = @ + 1] \in Records
    BY <1>4, <2>1, FieldsStay DEF Defer
  <2>3. mem' \in [Items -> Records \cup {Nil}]
    BY <1>0, <1>4, <2>2 DEF Defer, TypeOK
  <2>4. window' \in [Items -> 0..(TTL + 1)]
    BY <1>0, <1>4, Caps DEF Defer, TypeOK
  <2>5. Unqueue({i}) /\ UNCHANGED <<row, ran, ended, conn, gone, active, frozen, torn>>
    BY <1>4 DEF Defer
  <2>6. letter' \in [Items -> Letters \cup {Nil}] /\ credit' \in [Items -> 0..CAP]
    BY <1>0, <2>5, UnqueueTypes
  <2>. QED  BY <1>0, <2>3, <2>4, <2>5, <2>6 DEF TypeOK
<1>5. ASSUME NEW i \in Items, CrashAfterClaim(i)
      PROVE  TypeOK'
  BY <1>0, <1>5, Leftovers, RebootTypes DEF CrashAfterClaim, TypeOK
<1>6. CASE Sweep
  BY <1>0, <1>6, SweepTypes DEF Sweep
<1>7. CASE TornSweep
  BY <1>0, <1>7, SweepTypes DEF TornSweep
<1>8. CASE Retention
  BY <1>0, <1>8 DEF Retention, Without, TypeOK
<1>9. CASE DrainArbiterTick
  BY <1>0, <1>9, DrainTypes
<1>10. CASE Tick
  BY <1>0, <1>10, TickTypes
<1>11. ASSUME NEW s \in Sessions, Connect(s)
       PROVE  TypeOK'
  <2>. DEFINE orphans == {i \in Approvals : mem[i] # Nil /\ mem[i].owner = Nil}
  <2>1. /\ mem' = [i \in Items |-> IF i \in orphans
                     THEN [mem[i] EXCEPT !.owner = s, !.heard = -1] ELSE mem[i]]
        /\ row' = [i \in Items |-> IF i \in orphans
                     THEN [claimed |-> row[i].claimed, stamp |-> mem[i].age, age |-> 0]
                     ELSE row[i]]
        /\ window' = Zeroed(window, orphans)
        /\ Unqueue(orphans)
        /\ conn' = conn \cup {s} /\ gone' = gone \ {s} /\ active' = s
        /\ UNCHANGED <<ran, ended, frozen, torn>>
    BY <1>11 DEF Connect
  <2>2. ASSUME NEW i \in orphans
        PROVE  /\ i \in Items /\ mem[i] \in Records /\ row[i] \in Rows(i)
               /\ [mem[i] EXCEPT !.owner = s, !.heard = -1] \in Records
               /\ [claimed |-> row[i].claimed, stamp |-> mem[i].age, age |-> 0] \in Rows(i)
    <3>1. i \in Items /\ mem[i] \in Records
      BY <1>0 DEF TypeOK, Items
    <3>2. row[i] \in Rows(i)
      BY <1>0, <3>1 DEF TypeOK, Point, Reachable, Claimable
    <3>3. [mem[i] EXCEPT !.owner = s, !.heard = -1] \in Records
      BY <3>1, FieldsStay
    <3>4. [claimed |-> row[i].claimed, stamp |-> mem[i].age, age |-> 0] \in Rows(i)
      BY <3>1, <3>2, Caps DEF Records, Rows
    <3>. QED  BY <3>1, <3>2, <3>3, <3>4
  <2>. HIDE DEF orphans
  <2>3. mem' \in [Items -> Records \cup {Nil}]
    BY <1>0, <2>1, <2>2 DEF TypeOK
  <2>4. DOMAIN row' = Items /\ \A i \in Items : row'[i] \in Rows(i) \cup {Nil}
    BY <1>0, <2>1, <2>2 DEF TypeOK
  <2>5. window' \in [Items -> 0..(TTL + 1)]
    <3>1. \A i \in Items : window[i] \in 0..(TTL + 1) /\ 0 \in 0..(TTL + 1)
      BY <1>0, Caps DEF TypeOK
    <3>. QED  BY <2>1, <3>1 DEF Zeroed
  <2>6. letter' \in [Items -> Letters \cup {Nil}] /\ credit' \in [Items -> 0..CAP]
    BY <1>0, <2>1, UnqueueTypes
  <2>. QED  BY <1>0, <2>1, <2>3, <2>4, <2>5, <2>6 DEF TypeOK
<1>12. ASSUME NEW s \in Sessions, Lose(s)
       PROVE  TypeOK'
  <2>1. \A m \in Records : [m EXCEPT !.owner = Nil, !.late = FALSE] \in Records
    BY DEF Records
  <2>2. mem' \in [Items -> Records \cup {Nil}]
    BY <1>0, <1>12, <2>1 DEF Lose, TypeOK
  <2>. QED  BY <1>0, <1>12, <2>2 DEF Lose, TypeOK
<1>13. CASE Freeze
  <2>. DEFINE braked == {i \in Open : Claimable(i)}
  <2>1. /\ Settle(braked, "expired") /\ "expired" \in Endings /\ braked \in SUBSET Items
        /\ letter' = [i \in Items |-> IF i \in braked THEN NewLetter("over") ELSE letter[i]]
        /\ credit' = Zeroed(credit, braked)
        /\ frozen' = TRUE /\ UNCHANGED <<ran, window, conn, gone, active, torn>>
    BY <1>13 DEF Freeze, Endings, Open
  <2>. HIDE DEF braked
  <2>2. letter' \in [Items -> Letters \cup {Nil}] /\ credit' \in [Items -> 0..CAP]
    BY <1>0, <2>1, NewOnes, Caps DEF TypeOK, Zeroed
  <2>3. /\ mem' \in [Items -> Records \cup {Nil}]
        /\ DOMAIN row' = Items /\ \A j \in Items : row'[j] \in Rows(j) \cup {Nil}
        /\ ended' \in [Items -> Endings]
    BY <1>0, <2>1, SettleTypes
  <2>. QED  BY <1>0, <2>1, <2>2, <2>3 DEF TypeOK
<1>14. CASE ReleaseStopAll
  BY <1>0, <1>14 DEF ReleaseStopAll, TypeOK
<1>15. CASE Promote
  <2>. DEFINE drained == (Approvals \cap Open) \cup {i \in Actions \cap Open : Claimable(i)}
  <2>1. /\ Settle(drained, "drained") /\ "drained" \in Endings /\ drained \in SUBSET Items
        /\ Unqueue(drained \cap Actions)
        /\ UNCHANGED <<ran, window, conn, gone, active, frozen, torn>>
    BY <1>15 DEF Promote, Endings, Open
  <2>. HIDE DEF drained
  <2>2. /\ mem' \in [Items -> Records \cup {Nil}]
        /\ DOMAIN row' = Items /\ \A j \in Items : row'[j] \in Rows(j) \cup {Nil}
        /\ ended' \in [Items -> Endings]
    BY <1>0, <2>1, SettleTypes
  <2>3. letter' \in [Items -> Letters \cup {Nil}] /\ credit' \in [Items -> 0..CAP]
    BY <1>0, <2>1, UnqueueTypes
  <2>. QED  BY <1>0, <2>1, <2>2, <2>3 DEF TypeOK
<1>16. CASE Restart
  BY <1>0, <1>16, Leftovers, RebootTypes DEF Restart, TypeOK
<1>17. ASSUME NEW S \in SUBSET Open, CrashInFreeze(S)
       PROVE  TypeOK'
  BY <1>0, <1>17, Leftovers, RebootTypes DEF CrashInFreeze
<1>18. CASE UNCHANGED vars
  BY <1>0, <1>18 DEF vars, TypeOK
<1>. QED
  BY <1>1, <1>2, <1>3, <1>4, <1>5, <1>6, <1>7, <1>8, <1>9, <1>10, <1>11, <1>12, <1>13,
     <1>14, <1>15, <1>16, <1>17, <1>18 DEF Next

-----------------------------------------------------------------------------
(* One request at a time.                                                  *)

\* What a step may do to one request: ask for it, grant it, close it, or leave its
\* decision alone.
Move(i) ==
  \/ /\ mem[i] = Nil /\ ended[i] = "no"
     /\ mem'[i] # Nil /\ ran'[i] = ran[i]
  \/ mem[i] # Nil /\ mem'[i] = Nil /\ ran'[i] = ran[i] + 1
  \/ mem[i] # Nil /\ mem'[i] = Nil /\ ran'[i] = ran[i] /\ ended'[i] # "no"
  \/ (mem[i] = Nil <=> mem'[i] = Nil) /\ ran'[i] = ran[i] /\ ended'[i] = ended[i]

\* No early last call, of one request.
OnTime(i) ==
  mem[i] # Nil /\ mem[i].heard < 0 /\ mem'[i] # Nil /\ mem'[i].heard >= 0
    => window[i] > TTL

ItemStep(i) == Point(i)' /\ Move(i) /\ OnTime(i)

\* A step that leaves the request alone, loses no session and imposes no stillness.
LEMMA Untouched ==
  ASSUME NEW i \in Items, TypeOK, Point(i), core(i)' = core(i),
         conn \subseteq conn', frozen' /\ ~torn' => frozen /\ ~torn
  PROVE  ItemStep(i)
<1>1. /\ mem'[i] = mem[i] /\ row'[i] = row[i] /\ ran'[i] = ran[i]
      /\ ended'[i] = ended[i] /\ window'[i] = window[i]
  BY DEF core
<1>2. RowHasRecord(i)' /\ Reachable(i)' /\ Quiet(i)' /\ Recorded(i)' /\ Covered(i)'
  BY <1>1 DEF Point, RowHasRecord, Reachable, Quiet, Recorded, Covered, Claimable
<1>3. OnTime(i)
  <2>1. mem[i] # Nil => mem[i].heard \in -1..HeardCap
    BY DEF TypeOK, Records
  <2>. QED  BY <1>1, <2>1, Caps DEF OnTime
<1>. QED  BY <1>1, <1>2, <1>3 DEF ItemStep, Point, Move

\* A request that was open and is closed, its row with it.
LEMMA Closes ==
  ASSUME NEW i \in Items, mem[i] # Nil, mem'[i] = Nil, row'[i] = Nil, ended'[i] # "no",
         ran'[i] = ran[i] \/ ran'[i] = ran[i] + 1
  PROVE  ItemStep(i)
  BY DEF ItemStep, Point, RowHasRecord, Reachable, Quiet, Recorded, Covered, Claimable,
         Move, OnTime

\* Of what a sweep and a resolution have in common.
LEMMA Settles ==
  ASSUME IInv, NEW S \in SUBSET Items, NEW how \in Endings \ {"no"}, Settle(S, how),
         UNCHANGED <<ran, window, conn, torn>>, NEW i \in Items,
         i \in S => mem[i] # Nil,
         i \notin S => (frozen' /\ ~torn' => frozen /\ ~torn)
  PROVE  ItemStep(i)
<1>0. TypeOK /\ Point(i)
  BY DEF IInv
<1>1. /\ mem'[i] = IF i \in S THEN Nil ELSE mem[i]
      /\ row'[i] = IF i \in S THEN Nil ELSE row[i]
      /\ ended'[i] = IF i \in S THEN how ELSE ended[i]
  BY <1>0, SettleTypes
<1>2. CASE i \in S
  BY <1>1, <1>2, Closes
<1>3. CASE i \notin S
  BY <1>0, <1>1, <1>3, Untouched DEF core
<1>. QED  BY <1>2, <1>3

LEMMA SweepStep ==
  ASSUME IInv, NEW S \in SUBSET Items, SweepItems(S), NEW i \in Items
  PROVE  ItemStep(i)
<1>0. TypeOK /\ Point(i)
  BY DEF IInv
<1>. DEFINE called == i \in S /\ Calls(i)
            won == i \in S /\ Drops(i) /\ Claimable(i)
<1>1. /\ mem'[i] = IF won THEN Nil ELSE IF called THEN [mem[i] EXCEPT !.heard = 0] ELSE mem[i]
      /\ row'[i] = IF won THEN Nil ELSE row[i]
      /\ ended'[i] = IF won THEN "expired" ELSE ended[i]
      /\ UNCHANGED <<ran, window, conn, frozen, torn>>
  BY DEF SweepItems, Calls, Drops
<1>2. CASE won
  BY <1>1, <1>2, Closes DEF Drops, Listed
<1>3. CASE called
  <2>1. ~won /\ mem[i] # Nil /\ mem[i].age > TTL
    BY <1>3 DEF Calls, Drops, Listed, Verdict
  <2>2. mem[i] \in Records /\ mem[i] # Nil
    BY <1>0, <2>1 DEF TypeOK
  <2>3. mem'[i] = [mem[i] EXCEPT !.heard = 0] /\ row'[i] = row[i] /\ ended'[i] = ended[i]
    BY <1>1, <1>3, <2>1
  <2>4. mem'[i] \in Records /\ mem'[i] # Nil
    BY <2>2, <2>3, Caps, NilAssumption DEF Records
  <2>5. mem'[i].age = mem[i].age /\ mem'[i].owner = mem[i].owner /\ mem'[i].late = mem[i].late
    BY <2>2, <2>3 DEF Records
  <2>6. RowHasRecord(i)' /\ Reachable(i)' /\ Quiet(i)' /\ Recorded(i)' /\ Covered(i)'
    BY <1>0, <1>1, <2>2, <2>3, <2>4, <2>5
       DEF Point, RowHasRecord, Reachable, Quiet, Recorded, Covered, Claimable
  <2>7. window[i] > TTL
    <3>1. mem[i].age \in Nat /\ window[i] \in Nat /\ TTL \in Nat
      BY <1>0, <2>2, Caps, TimesAssumption DEF TypeOK, Records
    <3>2. i \in Approvals => row[i] # Nil /\ row[i].age > TTL
      BY <1>3 DEF Calls, Listed
    <3>3. i \in Approvals => row[i].age \in Nat
      BY <1>0, <3>2, Caps DEF TypeOK, Rows
    <3>. QED  BY <1>0, <2>1, <3>1, <3>2, <3>3 DEF Point, Covered
  <2>8. Move(i) /\ OnTime(i)
    BY <1>1, <2>2, <2>3, <2>4, <2>7 DEF Move, OnTime
  <2>. QED  BY <2>6, <2>8 DEF ItemStep, Point
<1>4. CASE ~won /\ ~called
  BY <1>0, <1>1, <1>4, Untouched DEF core
<1>. QED  BY <1>2, <1>3, <1>4

\* A restart, a crash within a resolution and one within stop-all.
LEMMA RebootStep ==
  ASSUME IInv, NEW r, Leftover(r), Reboot(r), NEW i \in Items,
         frozen' /\ ~torn' => frozen /\ ~torn
  PROVE  ItemStep(i)
<1>0. TypeOK /\ Point(i)
  BY DEF IInv
<1>1. CASE /\ mem'[i] = Nil /\ row'[i] = Nil
           /\ ended'[i] = IF mem[i] # Nil /\ ended[i] = "no" THEN "done" ELSE ended[i]
  <2>1. ran'[i] = ran[i]
    BY RebootKeeps
  <2>2. CASE mem[i] # Nil
    BY <1>0, <1>1, <2>1, <2>2, Closes DEF Point, Recorded
  <2>3. CASE mem[i] = Nil
    BY <1>0, <1>1, <2>1, <2>3
       DEF ItemStep, Point, RowHasRecord, Reachable, Quiet, Recorded, Covered, Claimable,
           Move, OnTime
  <2>. QED  BY <2>2, <2>3
<1>2. CASE /\ row[i] # Nil /\ ~row[i].claimed
           /\ mem'[i] = [NewRecord(Nil) EXCEPT !.age = row[i].stamp]
           /\ row'[i] = row[i] /\ ended'[i] = ended[i]
           /\ window'[i] = Least(row[i].stamp, row[i].age)
  <2>1. ran'[i] = ran[i] /\ mem[i] # Nil
    BY <1>0, <1>2, RebootKeeps DEF Point, RowHasRecord, Claimable
  <2>2. row[i].stamp \in Nat /\ row[i].age \in Nat
    BY <1>0, <1>2, Caps DEF TypeOK, Rows
  <2>3. mem'[i].age = row[i].stamp /\ mem'[i].owner = Nil /\ mem'[i].heard = -1
    BY <1>2 DEF NewRecord
  <2>4. mem'[i] # Nil
    <3>1. [NewRecord(Nil) EXCEPT !.age = row[i].stamp] \in Records
      <4>1. row[i].stamp \in 0..(TTL + 1) /\ NewRecord(Nil) \in Records
        BY <1>0, <1>2, NewOnes DEF TypeOK, Rows
      <4>. QED  BY <4>1 DEF Records
    <3>. QED  BY <1>2, <3>1, NilAssumption
  <2>5. Covered(i)'
    <3>1. i \in Actions => row[i].stamp <= row[i].age
      BY <1>0, <1>2 DEF Point, Covered
    <3>2. i \in Approvals \/ i \in Actions
      BY DEF Items
    <3>. QED  BY <1>2, <2>2, <2>3, <3>1, <3>2 DEF Covered, Least
  <2>6. RowHasRecord(i)' /\ Reachable(i)' /\ Quiet(i)' /\ Recorded(i)'
    BY <1>0, <1>2, <2>1, <2>3, <2>4
       DEF Point, RowHasRecord, Reachable, Quiet, Recorded, Claimable
  <2>7. Move(i) /\ OnTime(i)
    BY <1>2, <2>1, <2>3, <2>4 DEF Move, OnTime
  <2>. QED  BY <2>5, <2>6, <2>7 DEF ItemStep, Point
<1>. QED  BY <1>1, <1>2, RebootKeeps

LEMMA TickStep ==
  ASSUME IInv, Tick, NEW i \in Items
  PROVE  ItemStep(i)
<1>0. TypeOK /\ Point(i)
  BY DEF IInv
<1>1. /\ mem'[i] = IF mem[i] = Nil THEN Nil
                   ELSE [mem[i] EXCEPT !.age = Up(@, TTL + 1),
                           !.heard = IF @ < 0 THEN @ ELSE Up(@, HeardCap)]
      /\ row'[i] = IF row[i] = Nil THEN Nil
                   ELSE [row[i] EXCEPT !.stamp = Up(@, TTL + 1), !.age = Up(@, AgeCap(i))]
      /\ window'[i] = IF mem[i] = Nil THEN 0 ELSE Up(window[i], TTL + 1)
      /\ UNCHANGED <<ran, ended, conn, frozen, torn>>
  BY DEF Tick
<1>2. /\ mem[i] = Nil <=> mem'[i] = Nil
      /\ row[i] = Nil <=> row'[i] = Nil
  <2>1. mem[i] # Nil => mem[i] \in Records
    BY <1>0 DEF TypeOK
  <2>2. row[i] # Nil => row[i] \in Rows(i)
    BY <1>0 DEF TypeOK
  <2>3. mem[i] # Nil => mem'[i] \in Records
    BY <1>1, <2>1, Aging
  <2>4. row[i] # Nil => row'[i] \in Rows(i)
    BY <1>1, <2>2, Aging
  <2>5. Nil \notin Records /\ Nil \notin Rows(i)
    BY NilAssumption
  <2>6. (mem[i] = Nil => mem'[i] = Nil) /\ (row[i] = Nil => row'[i] = Nil)
    BY <1>1
  <2>. QED  BY <2>3, <2>4, <2>5, <2>6
<1>3. ASSUME mem[i] # Nil
      PROVE  /\ mem[i].age \in 0..(TTL + 1) /\ mem'[i].age = Up(mem[i].age, TTL + 1)
             /\ mem'[i].owner = mem[i].owner /\ mem'[i].late = mem[i].late
             /\ mem[i].heard < 0 => mem'[i].heard = mem[i].heard
             /\ mem[i].heard \in -1..HeardCap
             /\ window'[i] = Up(window[i], TTL + 1) /\ window[i] \in 0..(TTL + 1)
  BY <1>0, <1>1, <1>3 DEF TypeOK, Records
<1>4. ASSUME row[i] # Nil
      PROVE  /\ row[i].age \in 0..AgeCap(i) /\ row'[i].age = Up(row[i].age, AgeCap(i))
             /\ row[i].stamp \in 0..(TTL + 1) /\ row'[i].stamp = Up(row[i].stamp, TTL + 1)
             /\ row'[i].claimed = row[i].claimed
  BY <1>0, <1>1, <1>4 DEF TypeOK, Rows
<1>5. RowHasRecord(i)' /\ Reachable(i)' /\ Quiet(i)' /\ Recorded(i)'
  BY <1>0, <1>1, <1>2, <1>3, <1>4
     DEF Point, RowHasRecord, Reachable, Quiet, Recorded, Claimable
<1>6. Covered(i)'
  <2>1. i \in Approvals => AgeCap(i) = TTL + 1
    BY NamesAssumption DEF AgeCap
  <2>2. i \in Approvals /\ mem[i] # Nil => row[i] # Nil
    BY <1>0 DEF Point, Reachable, Claimable
  <2>3. ASSUME mem'[i] # Nil
        PROVE  \/ mem'[i].age <= window'[i]
               \/ i \in Approvals /\ row'[i].age <= window'[i]
    <3>1. mem[i] # Nil
      BY <1>2, <2>3
    <3>2. CASE mem[i].age <= window[i]
      BY <1>3, <3>1, <3>2, Caps DEF Up
    <3>3. CASE i \in Approvals /\ row[i].age <= window[i]
      BY <1>3, <1>4, <2>1, <2>2, <3>1, <3>3, Caps DEF Up
    <3>. QED  BY <1>0, <3>1, <3>2, <3>3 DEF Point, Covered
  <2>4. ASSUME i \in Actions, row'[i] # Nil
        PROVE  row'[i].stamp <= row'[i].age
    <3>1. row[i] # Nil /\ row[i].stamp <= row[i].age
      BY <1>0, <1>2, <2>4 DEF Point, Covered
    <3>. QED  BY <1>4, <3>1, Caps DEF Up
  <2>. QED  BY <2>3, <2>4 DEF Covered
<1>7. Move(i) /\ OnTime(i)
  BY <1>1, <1>2, <1>3, Caps DEF Move, OnTime
<1>. QED  BY <1>5, <1>6, <1>7 DEF ItemStep, Point

LEMMA EveryItem ==
  ASSUME IInv, [Next]_vars, NEW i \in Items
  PROVE  ItemStep(i)
<1>0. TypeOK /\ Point(i)
  BY DEF IInv
<1>1. ASSUME NEW j \in Items, Stage(j)
      PROVE  ItemStep(i)
  <2>1. PICK owner \in IF j \in Approvals THEN conn \cup gone \cup {Rest} ELSE {Nil} :
          mem' = [mem EXCEPT ![j] = NewRecord(owner)]
    BY <1>1 DEF Stage
  <2>2. CASE j # i
    BY <1>0, <1>1, <2>1, <2>2, Untouched DEF Stage, core
  <2>3. CASE j = i
    <3>1. /\ mem'[i] = NewRecord(owner) /\ row'[i] = NewRow /\ window'[i] = 0
          /\ UNCHANGED <<ran, ended, conn, frozen, torn>> /\ ~frozen
          /\ mem[i] = Nil /\ ended[i] = "no"
      BY <1>0, <1>1, <2>1, <2>3 DEF Stage, TypeOK
    <3>2. mem'[i] # Nil /\ row'[i] # Nil
      BY <1>0, <2>1, <3>1, NewOnes, NilAssumption DEF TypeOK
    <3>3. /\ mem'[i].age = 0 /\ mem'[i].owner = owner /\ row'[i].stamp = 0 /\ row'[i].age = 0
          /\ ~row'[i].claimed
      BY <3>1 DEF NewRecord, NewRow
    <3>5. owner \in gone => mem'[i].late
      <4>1. owner \in gone => mem'[i] = [owner |-> owner, age |-> 0, heard |-> -1,
                                         defers |-> 0, late |-> TRUE]
        BY <3>1, Zenon DEF NewRecord
      <4>. QED  BY <4>1
    <3>4. Point(i)'
      BY <1>0, <2>1, <2>3, <3>1, <3>2, <3>3, <3>5
         DEF Point, RowHasRecord, Reachable, Quiet, Recorded, Covered, Claimable
    <3>. QED  BY <3>1, <3>2, <3>4 DEF ItemStep, Move, OnTime
  <2>. QED  BY <2>2, <2>3
<1>2. ASSUME NEW j \in Items, Approve(j)
      PROVE  ItemStep(i)
  <2>1. /\ Settle({j}, "done") /\ "done" \in Endings /\ {j} \in SUBSET Items
        /\ UNCHANGED <<window, conn, frozen, torn>> /\ mem[j] # Nil
        /\ ran' = ran \/ ran' = [ran EXCEPT ![j] = @ + 1]
    BY <1>2 DEF Approve, Endings
  <2>2. /\ mem'[i] = IF i \in {j} THEN Nil ELSE mem[i]
        /\ row'[i] = IF i \in {j} THEN Nil ELSE row[i]
        /\ ended'[i] = IF i \in {j} THEN "done" ELSE ended[i]
    BY <1>0, <2>1, SettleTypes
  <2>3. CASE i = j
    BY <1>0, <2>1, <2>2, <2>3, Closes DEF TypeOK
  <2>4. CASE i # j
    BY <1>0, <2>1, <2>2, <2>4, Untouched DEF core, TypeOK
  <2>. QED  BY <2>3, <2>4
<1>3. ASSUME NEW j \in Items, Reject(j)
      PROVE  ItemStep(i)
  BY <1>3, Settles DEF Reject, Endings
<1>4. ASSUME NEW j \in Items, Defer(j)
      PROVE  ItemStep(i)
  <2>2. CASE j # i
    <3>1. /\ mem'[i] = mem[i] /\ window'[i] = window[i]
          /\ UNCHANGED <<row, ran, ended, conn, frozen, torn>>
      BY <1>0, <1>4, <2>2 DEF Defer, TypeOK
    <3>. QED  BY <1>0, <3>1, Untouched DEF core
  <2>3. CASE j = i
    <3>1. mem[i] \in Records /\ mem[i] # Nil /\ mem[i].defers < MaxDeferrals
      BY <1>0, <1>4, <2>3 DEF Defer, TypeOK
    <3>2. mem'[i] = [mem[i] EXCEPT !.age = 0, !.heard = -1, !.defers = @ + 1]
      BY <1>0, <1>4, <2>3 DEF Defer, TypeOK
    <3>3. mem'[i] # Nil
      BY <3>1, <3>2, FieldsStay, NilAssumption
    <3>4. /\ mem'[i].age = 0 /\ mem'[i].heard = -1
          /\ mem'[i].owner = mem[i].owner /\ mem'[i].late = mem[i].late
      BY <3>1, <3>2 DEF Records
    <3>5. window'[i] = 0 /\ UNCHANGED <<row, ran, ended, conn, frozen, torn>>
      BY <1>0, <1>4, <2>3 DEF Defer, TypeOK
    <3>6. Point(i)'
      BY <1>0, <3>1, <3>3, <3>4, <3>5
         DEF Point, RowHasRecord, Reachable, Quiet, Recorded, Covered, Claimable
    <3>. QED  BY <3>1, <3>3, <3>4, <3>5, <3>6 DEF ItemStep, Move, OnTime
  <2>. QED  BY <2>2, <2>3
<1>5. ASSUME NEW j \in Items, CrashAfterClaim(j)
      PROVE  ItemStep(i)
  BY <1>0, <1>5, Leftovers, RebootStep DEF CrashAfterClaim
<1>6. CASE Sweep
  BY <1>6, SweepStep DEF Sweep
<1>7. CASE TornSweep
  BY <1>7, SweepStep DEF TornSweep
<1>8. CASE Retention
  <2>1. /\ row'[i] = IF Prunable(i) THEN Nil ELSE row[i]
        /\ UNCHANGED <<mem, ran, ended, window, conn, frozen, torn>>
    BY <1>8 DEF Retention, Without
  <2>2. CASE Prunable(i)
    <3>1. mem[i] # Nil => i \in Actions /\ i \notin Approvals
      BY <1>0, <2>2, NamesAssumption
         DEF Prunable, Point, Reachable, Claimable, Items
    <3>2. row'[i] = Nil
      BY <2>1, <2>2
    <3>3. mem[i] # Nil => mem[i].heard \in -1..HeardCap
      BY <1>0 DEF TypeOK, Records
    <3>4. Point(i)'
      BY <1>0, <2>1, <3>1, <3>2
         DEF Point, RowHasRecord, Reachable, Quiet, Recorded, Covered, Claimable
    <3>5. OnTime(i)
      BY <2>1, <3>3, Caps DEF OnTime
    <3>. QED  BY <2>1, <3>4, <3>5 DEF ItemStep, Move
  <2>3. CASE ~Prunable(i)
    BY <1>0, <2>1, <2>3, Untouched DEF core
  <2>. QED  BY <2>2, <2>3
<1>9. CASE DrainArbiterTick
  BY <1>0, <1>9, Untouched DEF DrainArbiterTick, core
<1>10. CASE Tick
  BY <1>10, TickStep
<1>11. ASSUME NEW s \in Sessions, Connect(s)
       PROVE  ItemStep(i)
  <2>. DEFINE orphan == i \in Approvals /\ mem[i] # Nil /\ mem[i].owner = Nil
  <2>1. /\ mem'[i] = IF orphan THEN [mem[i] EXCEPT !.owner = s, !.heard = -1] ELSE mem[i]
        /\ row'[i] = IF orphan
                     THEN [claimed |-> row[i].claimed, stamp |-> mem[i].age, age |-> 0]
                     ELSE row[i]
        /\ window'[i] = IF orphan THEN 0 ELSE window[i]
        /\ conn' = conn \cup {s} /\ UNCHANGED <<ran, ended, frozen, torn>>
    BY <1>11 DEF Connect, Zeroed
  <2>2. CASE ~orphan
    BY <1>0, <2>1, <2>2, Untouched DEF core
  <2>3. CASE orphan
    <3>1. mem[i] \in Records /\ mem[i] # Nil /\ Claimable(i) /\ i \notin Actions
      BY <1>0, <2>3, NamesAssumption DEF TypeOK, Point, Reachable
    <3>2. mem'[i] # Nil
      <4>1. [mem[i] EXCEPT !.owner = s, !.heard = -1] \in Records
        BY <3>1, FieldsStay
      <4>. QED  BY <2>1, <2>3, <4>1, NilAssumption
    <3>3. mem'[i].owner = s /\ mem'[i].heard = -1
      BY <2>1, <2>3, <3>1 DEF Records
    <3>4. ~row'[i].claimed /\ row'[i].age = 0 /\ row'[i].stamp = mem[i].age
      BY <2>1, <2>3, <3>1 DEF Claimable
    <3>5. row'[i] # Nil
      <4>1. mem[i].age \in 0..(TTL + 1) /\ row[i].claimed \in BOOLEAN
        BY <1>0, <3>1 DEF Records, Rows, TypeOK, Claimable
      <4>2. row'[i] \in Rows(i)
        BY <2>1, <2>3, <4>1, Caps DEF Rows
      <4>. QED  BY <4>2, NilAssumption
    <3>6. Point(i)'
      BY <1>0, <2>1, <2>3, <3>1, <3>2, <3>3, <3>4, <3>5
         DEF Point, RowHasRecord, Reachable, Quiet, Recorded, Covered, Claimable
    <3>. QED  BY <2>1, <3>1, <3>2, <3>3, <3>6 DEF ItemStep, Move, OnTime
  <2>. QED  BY <2>2, <2>3
<1>12. ASSUME NEW s \in Sessions, Lose(s)
       PROVE  ItemStep(i)
  <2>. DEFINE orphaned == mem[i] # Nil /\ i \in Approvals /\ mem[i].owner = s
  <2>1. /\ mem'[i] = IF orphaned THEN [mem[i] EXCEPT !.owner = Nil, !.late = FALSE] ELSE mem[i]
        /\ conn' = conn \ {s} /\ UNCHANGED <<row, ran, ended, window, frozen, torn>>
    BY <1>12 DEF Lose
  <2>2. mem[i] # Nil =>
          /\ mem'[i] # Nil /\ mem'[i].age = mem[i].age /\ mem'[i].heard = mem[i].heard
          /\ mem'[i].owner = IF orphaned THEN Nil ELSE mem[i].owner
          /\ ~orphaned /\ mem[i].late => mem'[i].late
          /\ mem[i].heard \in -1..HeardCap
    <3>1. ASSUME mem[i] # Nil
          PROVE  mem[i] \in Records /\ [mem[i] EXCEPT !.owner = Nil, !.late = FALSE] \in Records
      BY <1>0, <3>1 DEF TypeOK, Records
    <3>. QED  BY <2>1, <3>1, NilAssumption DEF Records
  <2>3. mem[i] = Nil => mem'[i] = Nil
    BY <2>1
  <2>4. Point(i)'
    BY <1>0, <2>1, <2>2, <2>3
       DEF Point, RowHasRecord, Reachable, Quiet, Recorded, Covered, Claimable
  <2>. QED  BY <2>1, <2>2, <2>3, <2>4, Caps DEF ItemStep, Move, OnTime
<1>13. CASE Freeze
  <2>. DEFINE braked == {j \in Open : Claimable(j)}
  <2>1. /\ Settle(braked, "expired") /\ "expired" \in Endings \ {"no"}
        /\ braked \in SUBSET Items
        /\ frozen' = TRUE /\ UNCHANGED <<ran, window, conn, torn>>
    BY <1>13 DEF Freeze, Endings, Open
  <2>2. CASE i \in braked
    BY <2>1, <2>2, Settles DEF Open
  <2>3. CASE i \notin braked
    <3>1. mem'[i] = mem[i] /\ row'[i] = row[i] /\ ended'[i] = ended[i]
      BY <1>0, <2>1, <2>3, SettleTypes
    <3>2. ~(mem[i] # Nil /\ Claimable(i))
      BY <2>3 DEF Open
    <3>3. mem[i] # Nil => mem[i].heard \in -1..HeardCap
      BY <1>0 DEF TypeOK, Records
    <3>4. Point(i)'
      BY <1>0, <2>1, <3>1, <3>2
         DEF Point, RowHasRecord, Reachable, Quiet, Recorded, Covered, Claimable
    <3>. QED  BY <2>1, <3>1, <3>3, <3>4, Caps DEF ItemStep, Move, OnTime
  <2>. QED  BY <2>2, <2>3
<1>14. CASE ReleaseStopAll
  BY <1>0, <1>14, Untouched DEF ReleaseStopAll, core
<1>15. CASE Promote
  BY <1>15, Settles DEF Promote, Endings, Open
<1>16. CASE Restart
  BY <1>0, <1>16, Leftovers, RebootStep DEF Restart
<1>17. ASSUME NEW S \in SUBSET Open, CrashInFreeze(S)
       PROVE  ItemStep(i)
  BY <1>0, <1>17, Leftovers, RebootStep DEF CrashInFreeze
<1>18. CASE UNCHANGED vars
  BY <1>0, <1>18, Untouched DEF vars, core
<1>. QED
  BY <1>1, <1>2, <1>3, <1>4, <1>5, <1>6, <1>7, <1>8, <1>9, <1>10, <1>11, <1>12, <1>13,
     <1>14, <1>15, <1>16, <1>17, <1>18 DEF Next

-----------------------------------------------------------------------------
(* Theorems.                                                               *)

LEMMA Start ==
  ASSUME Init
  PROVE  IInv
<1>1. TypeOK
  <2>1. 0 \in 0..(TTL + 1) /\ 0 \in 0..CAP /\ 0 \in Nat /\ "no" \in Endings
    BY Caps DEF Endings
  <2>2. /\ mem \in [Items -> Records \cup {Nil}]
        /\ DOMAIN row = Items /\ \A i \in Items : row[i] \in Rows(i) \cup {Nil}
        /\ letter \in [Items -> Letters \cup {Nil}]
    BY DEF Init
  <2>3. /\ ran \in [Items -> Nat] /\ ended \in [Items -> Endings]
        /\ window \in [Items -> 0..(TTL + 1)] /\ credit \in [Items -> 0..CAP]
    BY <2>1 DEF Init
  <2>. QED  BY <2>2, <2>3 DEF Init, TypeOK
<1>2. \A i \in Items : Point(i)
  BY DEF Init, Point, RowHasRecord, Reachable, Quiet, Recorded, Covered, Claimable
<1>. QED  BY <1>1, <1>2 DEF IInv

\* The strengthened invariant of the gate.
THEOREM Invariance == Spec => []IInv
<1>1. IInv /\ [Next]_vars => IInv'
  BY TypeStep, EveryItem DEF IInv, ItemStep
<1>. QED  BY Start, <1>1, PTL DEF Spec

\* The types of the gate's state, for every set of requests and sessions.
THEOREM TypeCorrect == Spec => []TypeOK
<1>1. IInv => TypeOK
  BY DEF IInv
<1>. QED  BY <1>1, Invariance, PTL

\* While stop-all is engaged nothing that could be confirmed waits
\* (stopAllStage1Freeze), unless a crash cut it short.
THEOREM QuietWhenFrozen == Spec => []FrozenIsQuiet
<1>1. IInv => FrozenIsQuiet
  BY DEF IInv, Point, Quiet, FrozenIsQuiet, Open
<1>. QED  BY <1>1, Invariance, PTL

\* A held approval can always be answered and belongs to no session that is gone
\* (detachSession, reattachSession, hydrate, pruneIncremental).
THEOREM AlwaysReachable == Spec => []ApprovalsReachable
<1>1. IInv => ApprovalsReachable
  BY DEF IInv, Point, Reachable, ApprovalsReachable, Items
<1>. QED  BY <1>1, Invariance, PTL

\* No last call before a whole TTL of the present window has passed
\* (sweepExpiredApprovals, applyDeferral, reattachSession).
THEOREM NoEarlyCall == Spec => NoEarlyLastCall
<1>1. IInv /\ [Next]_vars =>
        [\A i \in Items :
           /\ mem[i] # Nil /\ mem[i].heard < 0
           /\ mem'[i] # Nil /\ mem'[i].heard >= 0
           => window[i] > TTL]_vars
  BY EveryItem DEF ItemStep, OnTime
<1>. QED  BY <1>1, Invariance, PTL DEF Spec, NoEarlyLastCall

-----------------------------------------------------------------------------
(* What the arbiter holds.                                                 *)

\* What LettersHonest needs of one request.  A letter that has its deadline is as old
\* as the last call it announces, so its deadline and the grace of the sweep run out
\* together; of an action that expired the letter may say anything.
LetterPoint(i) ==
  letter[i] # Nil /\ ended[i] # "drained" =>
    \/ /\ ended[i] = "expired"
       /\ i \in Actions \/ letter[i].text = "over"
    \/ /\ mem[i] # Nil /\ mem[i].heard >= 0
       /\ letter[i].text = "over" => mem[i].heard >= GRACE
       /\ letter[i].dated => letter[i].age = mem[i].heard

LInv == \A i \in Items : LetterPoint(i)

\* A step that leaves the letter, the end and the last call of the request as they were.
LEMMA LetterKept ==
  ASSUME NEW i \in Items, LetterPoint(i), letter'[i] = letter[i], ended'[i] = ended[i],
         mem[i] # Nil => mem'[i] # Nil /\ mem'[i].heard = mem[i].heard
  PROVE  LetterPoint(i)'
  BY DEF LetterPoint

\* A step that takes the letter away.
LEMMA LetterGone ==
  ASSUME NEW i \in Items, letter'[i] = Nil
  PROVE  LetterPoint(i)'
  BY DEF LetterPoint

LEMMA SweepLetters ==
  ASSUME TypeOK, NEW S \in SUBSET Items, SweepItems(S), NEW i \in Items, LetterPoint(i)
  PROVE  LetterPoint(i)'
<1>. DEFINE called == i \in S /\ Calls(i)
            won == i \in S /\ Drops(i) /\ Claimable(i)
<1>0. ~(Calls(i) /\ Drops(i))
  BY DEF Calls, Drops
<1>1. /\ mem'[i] = IF won THEN Nil ELSE IF called THEN [mem[i] EXCEPT !.heard = 0] ELSE mem[i]
      /\ ended'[i] = IF won THEN "expired" ELSE ended[i]
      /\ letter'[i] = IF called THEN NewLetter("call")
                      ELSE IF won /\ i \in Approvals THEN NewLetter("over") ELSE letter[i]
  BY <1>0 DEF SweepItems
<1>2. ~(called /\ won)
  BY DEF Calls, Drops
<1>3. CASE called
  <2>1. mem[i] \in Records /\ mem[i] # Nil
    BY <1>3 DEF TypeOK, Calls, Listed
  <2>2. mem'[i] = [mem[i] EXCEPT !.heard = 0] /\ letter'[i] = NewLetter("call")
    BY <1>1, <1>2, <1>3
  <2>3. mem'[i] \in Records /\ mem'[i].heard = 0
    BY <2>1, <2>2, Caps DEF Records
  <2>4. letter'[i].text = "call" /\ letter'[i].age = 0
    BY <2>2 DEF NewLetter
  <2>. QED  BY <2>3, <2>4, NilAssumption DEF LetterPoint
<1>4. CASE won
  <2>1. ended'[i] = "expired"
    BY <1>1, <1>4
  <2>2. i \in Approvals => letter'[i].text = "over"
    BY <1>1, <1>2, <1>4 DEF NewLetter
  <2>. QED  BY <2>1, <2>2 DEF LetterPoint, Items
<1>5. CASE ~called /\ ~won
  BY <1>1, <1>5, LetterKept
<1>. QED  BY <1>3, <1>4, <1>5

LEMMA TickLetters ==
  ASSUME TypeOK, Tick, NEW i \in Items, LetterPoint(i)
  PROVE  LetterPoint(i)'
<1>1. /\ mem'[i] = IF mem[i] = Nil THEN Nil
                   ELSE [mem[i] EXCEPT !.age = Up(@, TTL + 1),
                           !.heard = IF @ < 0 THEN @ ELSE Up(@, HeardCap)]
      /\ letter'[i] = IF letter[i] = Nil \/ ~letter[i].dated THEN letter[i]
                      ELSE [letter[i] EXCEPT !.age = Up(@, HeardCap),
                              !.tick = IF @ < 0 THEN @ ELSE Up(@, CAP)]
      /\ ended' = ended
  BY DEF Tick
<1>2. ASSUME mem[i] # Nil
      PROVE  /\ mem'[i] # Nil /\ mem[i].heard \in -1..HeardCap
             /\ mem'[i].heard = IF mem[i].heard < 0 THEN mem[i].heard
                                ELSE Up(mem[i].heard, HeardCap)
  <2>1. mem[i] \in Records
    BY <1>2 DEF TypeOK
  <2>2. mem'[i] \in Records
    BY <1>1, <1>2, <2>1, Aging
  <2>. QED  BY <1>1, <1>2, <2>1, <2>2, NilAssumption DEF Records
<1>3. ASSUME letter[i] # Nil
      PROVE  /\ letter'[i].text = letter[i].text /\ letter'[i].dated = letter[i].dated
             /\ letter[i].dated => letter'[i].age = Up(letter[i].age, HeardCap)
  <2>1. letter[i] \in Letters
    BY <1>3 DEF TypeOK
  <2>. QED  BY <1>1, <1>3, <2>1 DEF Letters
<1>4. letter'[i] # Nil => letter[i] # Nil
  BY <1>1
<1>5. GRACE \in Nat
  BY TimesAssumption
<1>6. ASSUME mem[i] # Nil, mem[i].heard >= 0
      PROVE  /\ mem'[i].heard = Up(mem[i].heard, HeardCap)
             /\ mem'[i].heard >= mem[i].heard /\ mem'[i].heard \in Nat /\ mem[i].heard \in Nat
  <2>1. mem[i].heard \in 0..HeardCap /\ HeardCap \in Nat
    BY <1>2, <1>6, Caps
  <2>2. Up(mem[i].heard, HeardCap) \in 0..HeardCap /\ Up(mem[i].heard, HeardCap) >= mem[i].heard
    BY <2>1, UpStays
  <2>. QED  BY <1>2, <1>6, <2>1, <2>2
<1>. QED  BY <1>1, <1>2, <1>3, <1>4, <1>5, <1>6 DEF LetterPoint

\* A letter looked at by the drain tick says what it said, at the same age.
LEMMA AdvancedSays ==
  ASSUME NEW m \in Letters, NEW h \in BOOLEAN
  PROVE  /\ Advanced(m, h) \in Letters /\ Advanced(m, h) # Nil
         /\ Advanced(m, h).text = m.text /\ Advanced(m, h).dated = m.dated
         /\ Advanced(m, h).age = m.age
<1>1. Advanced(m, h) \in Letters /\ Advanced(m, h) # Nil
  BY LettersStay, NilAssumption
<1>2. \A paused : [m EXCEPT !.paused = paused, !.tick = 0, !.held = h].text = m.text
                  /\ [m EXCEPT !.paused = paused, !.tick = 0, !.held = h].dated = m.dated
                  /\ [m EXCEPT !.paused = paused, !.tick = 0, !.held = h].age = m.age
  BY DEF Letters
<1>3. \E paused : Advanced(m, h) = m
                  \/ Advanced(m, h) = [m EXCEPT !.paused = paused, !.tick = 0, !.held = h]
  BY DEF Advanced
<1>. QED  BY <1>1, <1>2, <1>3

\* The drain tick keeps, drops or puts back: what it puts back says what it would have
\* said, or what it says anyway, and has no deadline.
LEMMA DrainLetters ==
  ASSUME TypeOK, DrainArbiterTick, NEW i \in Items, LetterPoint(i)
  PROVE  LetterPoint(i)'
<1>1. mem' = mem /\ ended' = ended
  BY DEF DrainArbiterTick
<1>2. PICK h \in BOOLEAN :
        LET told == IF letter[i] = Nil THEN Nil ELSE Advanced(letter[i], h)
        IN  \/ letter'[i] = told
            \/ letter'[i] = Nil
            \/ told # Nil /\ \E said \in {told.text, FactsForDrain(told)} :
                  letter'[i] = Resubmitted(said)
  <2>. DEFINE told(h, j) == IF letter[j] = Nil THEN Nil ELSE Advanced(letter[j], h)
              dated(h, j) == told(h, j) # Nil /\ told(h, j).dated
              reached(h, j) == dated(h, j) /\ told(h, j).age >= GRACE + told(h, j).paused
              ledger(h, j) == IF dated(h, j) THEN told(h, j).paused ELSE credit[j]
              spoken(h, j) == IF h /\ told(h, j).age = GRACE + told(h, j).paused
                              THEN told(h, j).text ELSE FactsForDrain(told(h, j))
              out(h) == IF h THEN {{j} : j \in {k \in Items : reached(h, k)}}
                        ELSE {{j \in Items : told(h, j) # Nil}}
  <2>1. PICK h \in BOOLEAN :
          \/ /\ letter' = [j \in Items |-> told(h, j)]
             /\ credit' = [j \in Items |-> ledger(h, j)]
          \/ \E S \in out(h) : \E sent \in BOOLEAN :
                /\ letter' = [j \in Items |-> IF j \notin S THEN told(h, j)
                                              ELSE IF sent THEN Nil
                                              ELSE Resubmitted(spoken(h, j))]
                /\ credit' = [j \in Items |-> IF j \in S /\ reached(h, j) THEN 0
                                              ELSE ledger(h, j)]
    BY Zenon DEF DrainArbiterTick
  <2>2. \A S \in out(h) : \A j \in S : told(h, j) # Nil
    OBVIOUS
  <2>3. spoken(h, i) \in {told(h, i).text, FactsForDrain(told(h, i))}
    OBVIOUS
  <2>4. told(h, i) = IF letter[i] = Nil THEN Nil ELSE Advanced(letter[i], h)
    OBVIOUS
  <2>. HIDE DEF told, ledger, reached, spoken, out
  <2>5. \/ letter'[i] = told(h, i)
        \/ letter'[i] = Nil
        \/ told(h, i) # Nil /\ letter'[i] = Resubmitted(spoken(h, i))
    BY <2>1, <2>2
  <2>. QED  BY <2>3, <2>4, <2>5
<1>3. CASE letter'[i] = Nil
  BY <1>3, LetterGone
<1>4. CASE letter[i] # Nil
  <2>. DEFINE m == Advanced(letter[i], h)
  <2>1. /\ m \in Letters /\ m.text = letter[i].text /\ m.dated = letter[i].dated
        /\ m.age = letter[i].age /\ letter[i] \in Letters
    BY <1>4, AdvancedSays DEF TypeOK
  <2>. HIDE DEF m
  <2>2. CASE letter'[i] = m
    BY <1>1, <1>4, <2>1, <2>2 DEF LetterPoint
  <2>3. ASSUME NEW said \in {m.text, FactsForDrain(m)}, letter'[i] = Resubmitted(said)
        PROVE  LetterPoint(i)'
    <3>1. letter'[i].text = said /\ ~letter'[i].dated
      BY <2>3 DEF Resubmitted, NewLetter
    <3>2. said = "over" =>
             m.text = "over" \/ (m.dated /\ m.age >= GRACE + m.paused)
      BY DEF FactsForDrain
    <3>3. m.text = "over" => said = "over"
      BY DEF FactsForDrain
    <3>4. GRACE \in Nat /\ m.paused \in Nat /\ m.age \in Nat
      BY <2>1, Caps, TimesAssumption DEF Letters
    <3>5. said = "over" => letter[i].text = "over" \/ (letter[i].dated /\ letter[i].age >= GRACE)
      BY <2>1, <3>2, <3>4
    <3>. QED  BY <1>1, <1>4, <2>1, <3>1, <3>3, <3>5 DEF LetterPoint
  <2>4. \/ letter'[i] = m \/ letter'[i] = Nil
        \/ \E said \in {m.text, FactsForDrain(m)} : letter'[i] = Resubmitted(said)
    BY <1>2, <1>4 DEF m
  <2>. QED  BY <1>3, <2>2, <2>3, <2>4
<1>. QED  BY <1>2, <1>3, <1>4

LEMMA EveryLetter ==
  ASSUME IInv, [Next]_vars, NEW i \in Items, LetterPoint(i)
  PROVE  LetterPoint(i)'
<1>0. TypeOK /\ Point(i)
  BY DEF IInv
<1>1. ASSUME NEW j \in Items, Stage(j)
      PROVE  LetterPoint(i)'
  <2>1. PICK owner \in IF j \in Approvals THEN conn \cup gone \cup {Rest} ELSE {Nil} :
          mem' = [mem EXCEPT ![j] = NewRecord(owner)]
    BY <1>1 DEF Stage
  <2>2. letter' = letter /\ ended' = ended /\ mem[j] = Nil /\ ended[j] = "no"
    BY <1>1 DEF Stage
  <2>3. CASE i = j
    BY <2>2, <2>3, LetterGone DEF LetterPoint
  <2>4. CASE i # j
    BY <1>0, <2>1, <2>2, <2>4, LetterKept DEF TypeOK
  <2>. QED  BY <2>3, <2>4
<1>2. ASSUME NEW S \in SUBSET Items, NEW how, Settle(S, how), Unqueue(S)
      PROVE  LetterPoint(i)'
  <2>1. /\ mem'[i] = IF i \in S THEN Nil ELSE mem[i]
        /\ ended'[i] = IF i \in S THEN how ELSE ended[i]
        /\ letter'[i] = IF i \in S THEN Nil ELSE letter[i]
    BY <1>2 DEF Settle, Unqueue, Without, Ending
  <2>. QED  BY <2>1, LetterGone, LetterKept
<1>3. ASSUME NEW j \in Items, Approve(j) \/ Reject(j)
      PROVE  LetterPoint(i)'
  BY <1>2, <1>3 DEF Approve, Reject
<1>4. ASSUME NEW j \in Items, Defer(j)
      PROVE  LetterPoint(i)'
  <2>1. CASE i = j
    BY <1>4, <2>1, LetterGone DEF Defer, Unqueue, Without
  <2>2. CASE i # j
    <3>1. mem'[i] = mem[i] /\ ended'[i] = ended[i] /\ letter'[i] = letter[i]
      BY <1>0, <1>4, <2>2 DEF Defer, Unqueue, Without, TypeOK
    <3>. QED  BY <3>1, LetterKept
  <2>. QED  BY <2>1, <2>2
<1>5. ASSUME NEW r, Reboot(r)
      PROVE  LetterPoint(i)'
  BY <1>5, LetterGone DEF Reboot
<1>6. CASE Sweep \/ TornSweep
  BY <1>0, <1>6, SweepLetters DEF Sweep, TornSweep
<1>7. CASE Retention \/ ReleaseStopAll \/ UNCHANGED vars
  BY <1>7, LetterKept DEF Retention, ReleaseStopAll, vars
<1>8. CASE DrainArbiterTick
  BY <1>0, <1>8, DrainLetters
<1>9. CASE Tick
  BY <1>0, <1>9, TickLetters
<1>10. ASSUME NEW s \in Sessions, Connect(s)
       PROVE  LetterPoint(i)'
  <2>. DEFINE orphan == i \in Approvals /\ mem[i] # Nil /\ mem[i].owner = Nil
  <2>1. /\ mem'[i] = IF orphan THEN [mem[i] EXCEPT !.owner = s, !.heard = -1] ELSE mem[i]
        /\ letter'[i] = IF orphan THEN Nil ELSE letter[i]
        /\ ended' = ended
    BY <1>10 DEF Connect, Unqueue, Without
  <2>. QED  BY <2>1, LetterGone, LetterKept
<1>11. ASSUME NEW s \in Sessions, Lose(s)
       PROVE  LetterPoint(i)'
  <2>1. letter' = letter /\ ended' = ended
    BY <1>11 DEF Lose
  <2>2. ASSUME mem[i] # Nil
        PROVE  mem'[i] # Nil /\ mem'[i].heard = mem[i].heard
    <3>1. mem[i] \in Records
      BY <1>0, <2>2 DEF TypeOK
    <3>2. /\ [mem[i] EXCEPT !.owner = Nil, !.late = FALSE] \in Records
          /\ [mem[i] EXCEPT !.owner = Nil, !.late = FALSE].heard = mem[i].heard
      BY <3>1 DEF Records
    <3>3. mem'[i] = mem[i] \/ mem'[i] = [mem[i] EXCEPT !.owner = Nil, !.late = FALSE]
      BY <1>11 DEF Lose
    <3>. QED  BY <2>2, <3>2, <3>3, NilAssumption
  <2>. QED  BY <2>1, <2>2, LetterKept
<1>12. CASE Freeze
  <2>. DEFINE braked == i \in Open /\ Claimable(i)
  <2>1. /\ mem'[i] = IF braked THEN Nil ELSE mem[i]
        /\ ended'[i] = IF braked THEN "expired" ELSE ended[i]
        /\ letter'[i] = IF braked THEN NewLetter("over") ELSE letter[i]
    BY <1>12 DEF Freeze, Settle, Without, Ending
  <2>2. NewLetter("over").text = "over"
    BY DEF NewLetter
  <2>3. CASE braked
    BY <2>1, <2>2, <2>3 DEF LetterPoint
  <2>4. CASE ~braked
    BY <2>1, <2>4, LetterKept
  <2>. QED  BY <2>3, <2>4
<1>13. CASE Promote
  <2>. DEFINE drained == (Approvals \cap Open) \cup {j \in Actions \cap Open : Claimable(j)}
  <2>1. Settle(drained, "drained") /\ Unqueue(drained \cap Actions)
    BY <1>13 DEF Promote
  <2>. HIDE DEF drained
  <2>2. /\ mem'[i] = IF i \in drained THEN Nil ELSE mem[i]
        /\ ended'[i] = IF i \in drained THEN "drained" ELSE ended[i]
        /\ letter'[i] = IF i \in drained \cap Actions THEN Nil ELSE letter[i]
    BY <2>1 DEF Settle, Unqueue, Without, Ending
  <2>3. CASE i \in drained
    BY <2>2, <2>3 DEF LetterPoint
  <2>4. CASE i \notin drained
    BY <2>2, <2>4, LetterKept
  <2>. QED  BY <2>3, <2>4
<1>14. CASE Restart
  BY <1>5, <1>14 DEF Restart
<1>15. ASSUME NEW j \in Items, CrashAfterClaim(j)
       PROVE  LetterPoint(i)'
  BY <1>5, <1>15 DEF CrashAfterClaim
<1>16. ASSUME NEW S \in SUBSET Open, CrashInFreeze(S)
       PROVE  LetterPoint(i)'
  BY <1>5, <1>16 DEF CrashInFreeze
<1>. QED
  BY <1>1, <1>3, <1>4, <1>6, <1>7, <1>8, <1>9, <1>10, <1>11, <1>12, <1>13, <1>14,
     <1>15, <1>16 DEF Next

\* No letter of the arbiter would say something false if spoken now (turnArbiter
\* remove, factsForDrain, renderExpired), whatever the times and the extension.
THEOREM HonestLetters == Spec => []LettersHonest
<1>1. Init => LInv
  BY DEF Init, LInv, LetterPoint
<1>2. IInv /\ LInv /\ [Next]_vars => LInv'
  BY EveryLetter DEF LInv
<1>3. IInv /\ LInv => LettersHonest
  <2>. SUFFICES ASSUME TypeOK, NEW i \in Items, LetterPoint(i), letter[i] # Nil,
                       ended[i] # "drained"
                PROVE  IF FactsForDrain(letter[i]) = "call"
                       THEN \/ mem[i] # Nil /\ mem[i].heard >= 0
                            \/ i \in Actions /\ ended[i] = "expired"
                       ELSE \/ ended[i] = "expired"
                            \/ mem[i] # Nil /\ mem[i].heard >= GRACE
    BY DEF IInv, LInv, LettersHonest
  <2>1. /\ letter[i].text \in {"call", "over"} /\ letter[i].age \in Nat
        /\ letter[i].paused \in Nat /\ GRACE \in Nat
    BY Caps, TimesAssumption DEF TypeOK, Letters
  <2>2. FactsForDrain(letter[i]) # "call" =>
           \/ letter[i].text = "over"
           \/ letter[i].dated /\ letter[i].age >= GRACE
    BY <2>1 DEF FactsForDrain
  <2>3. letter[i].text = "over" => FactsForDrain(letter[i]) # "call"
    BY DEF FactsForDrain
  <2>. QED  BY <2>2, <2>3 DEF LetterPoint
<1>. QED  BY <1>1, <1>2, <1>3, Invariance, PTL DEF Spec

-----------------------------------------------------------------------------
(* The gate implements the abstract specification.                         *)

\* Every step decides each request as the abstract specification allows.
LEMMA StepDecides ==
  ASSUME IInv, [Next]_vars, NEW i \in Items
  PROVE  \/ Decision!Asked(i) \/ Decision!Granted(i) \/ Decision!Closed(i)
         \/ Decision!Kept(i)
<1>1. Move(i) /\ Point(i)' /\ Point(i)
  BY EveryItem DEF ItemStep, IInv
<1>2. ran[i] \in Nat
  BY DEF IInv, TypeOK
<1>3. ended[i] = "no" => ran[i] = 0
  BY <1>1 DEF Point, Recorded
<1>4. mem[i] # Nil => ended[i] = "no"
  BY <1>1 DEF Point, Recorded
<1>. QED
  BY <1>1, <1>2, <1>3, <1>4
     DEF Move, Status, Decision!Asked, Decision!Granted, Decision!Closed, Decision!Kept

\* The gate implements DecisionOnce: asked once, decided once, in effect at most
\* once, across races, sweeps, drains, crashes and restarts.
THEOREM Refinement == Spec => DecidesOnce
<1>1. Init => Decision!DecisionInit
  <2>1. ASSUME Init
        PROVE  [i \in Items |-> Status(i)] = [i \in Items |-> "absent"]
    BY <2>1 DEF Init, Status
  <2>. QED  BY <2>1 DEF Init, Decision!DecisionInit
<1>2. IInv /\ IInv' /\ [Next]_vars => [Decision!DecisionNext]_(Decision!decisionVars)
  <2>. SUFFICES ASSUME IInv, IInv', [Next]_vars
                PROVE  Decision!DecisionNext \/ UNCHANGED Decision!decisionVars
    OBVIOUS
  <2>1. \A i \in Items : \/ Decision!Kept(i) \/ Decision!Asked(i) \/ Decision!Granted(i)
                          \/ Decision!Closed(i)
    BY StepDecides
  <2>2. ran' = [i \in Items |-> ran'[i]]
    BY DEF IInv, TypeOK
  <2>. QED  BY <2>1, <2>2 DEF Decision!DecisionNext
<1>. QED  BY <1>1, <1>2, Invariance, PTL DEF Spec, DecidesOnce, Decision!DecisionSpec
=============================================================================
