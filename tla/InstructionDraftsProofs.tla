---------------------- MODULE InstructionDraftsProofs ----------------------
(***************************************************************************)
(* Proofs about InstructionDrafts for every set of panes and every bound.  *)
(* What an approval offers is the draft's current text, and what a pane    *)
(* claims to await is sound.  Both are inductive with two facts about what *)
(* the handlers leave behind: a binding names a dispatch already minted,   *)
(* and a retarget in flight holds a pane and a draft that were once open.  *)
(***************************************************************************)
EXTENDS InstructionDrafts, TLAPS, WellFoundedInduction

BindingsMinted == \A p \in Panes : bound[p].send \in 0..minted

MovingWasOpen == moving = Still \/ (moving.pane \in Panes /\ moving.draft \in Draft)

IInv ==
    /\ TypeOK
    /\ BindingsMinted
    /\ MovingWasOpen
    /\ OffersCurrentText
    /\ ClaimsAreSound

-----------------------------------------------------------------------------

\* First returns the least member of a non-empty set of dispatch numbers.
LEMMA FirstIsMember ==
  ASSUME NEW S \in SUBSET Nat, S # {}
  PROVE  First(S) \in S
<1>1. \E x \in S : \A y \in S : ~(<<y, x>> \in OpToRel(<, Nat))
  BY NatLessThanWellFounded, WFMin
<1>2. PICK x \in S : \A y \in S : ~(<<y, x>> \in OpToRel(<, Nat))
  BY <1>1
<1>3. \A y \in S : x <= y
  <2>1. TAKE y \in S
  <2>2. ~(y < x)
    BY <1>2 DEF OpToRel
  <2>. QED  BY <2>2
<1>. QED  BY <1>3 DEF First

\* The sources a pane's draft is rebuilt from: none, or a row of that pane that
\* carries a draft.
LEMMA SourceIsOwnRow ==
  ASSUME NEW rows, DOMAIN rows \subseteq Nat, NEW p, Source(rows, p) # 0
  PROVE  /\ Source(rows, p) \in DOMAIN rows
         /\ rows[Source(rows, p)].pane = p
         /\ rows[Source(rows, p)].id # 0
<1>1. CASE Candidates(rows, p, "draft") # {}
  <2>1. Source(rows, p) = First(Candidates(rows, p, "draft"))
    BY <1>1 DEF Source
  <2>2. Candidates(rows, p, "draft") \in SUBSET Nat
    BY DEF Candidates
  <2>3. First(Candidates(rows, p, "draft")) \in Candidates(rows, p, "draft")
    BY <1>1, <2>2, FirstIsMember
  <2>. QED  BY <2>1, <2>3 DEF Candidates
<1>2. CASE Candidates(rows, p, "draft") = {} /\ Candidates(rows, p, "awaiting") # {}
  <2>1. Source(rows, p) = First(Candidates(rows, p, "awaiting"))
    BY <1>2 DEF Source
  <2>2. Candidates(rows, p, "awaiting") \in SUBSET Nat
    BY DEF Candidates
  <2>3. First(Candidates(rows, p, "awaiting")) \in Candidates(rows, p, "awaiting")
    BY <1>2, <2>2, FirstIsMember
  <2>. QED  BY <2>1, <2>3 DEF Candidates
<1>3. CASE Candidates(rows, p, "draft") = {} /\ Candidates(rows, p, "awaiting") = {}
  BY <1>3 DEF Source
<1>. QED  BY <1>1, <1>2, <1>3

\* Settling approvals keeps the other rows as they were and an approval's row
\* as long as the approval.
LEMMA SettleKeepsOthers ==
  ASSUME TypeOK, NEW done, Settle(done), minted' = minted
  PROVE  /\ DOMAIN row' \subseteq 1..minted'
         /\ \A s \in DOMAIN row' : s \in DOMAIN row /\ row'[s] = row[s] /\ row'[s] \in Row
         /\ ask' \subseteq DOMAIN row'
         /\ here' \subseteq ask'
         /\ here' = here \ done
<1>1. row' = [s \in {t \in DOMAIN row : t \in done => row[t].state = "draft"} |-> row[s]]
  BY DEF Settle, Without
<1>2. DOMAIN row' = {t \in DOMAIN row : t \in done => row[t].state = "draft"}
  BY <1>1
<1>3. \A s \in DOMAIN row' : row'[s] = row[s]
  BY <1>1, <1>2
<1>4. ask' = ask \ done /\ here' = here \ done
  BY DEF Settle
<1>. QED  BY <1>2, <1>3, <1>4 DEF TypeOK

\* A pane whose draft changes after its approval was withdrawn: the approvals
\* of the other panes still offer what those panes' drafts say.
LEMMA WithdrawnThenChanged ==
  ASSUME IInv, NEW p \in Panes, Invalidate(p), minted' = minted,
         open' \in [Panes -> Draft \cup {NoDraft}],
         \A q \in Panes : q # p /\ IsOpen(q) => open'[q] = open[q]
  PROVE  /\ bound' \in [Panes -> Binding]
         /\ BindingsMinted'
         /\ OffersCurrentText'
         /\ ClaimsAreSound'
<1>1. /\ bound' = [bound EXCEPT ![p] = Unbound]
      /\ Settle(Withdrawn(p))
  BY DEF Invalidate
<1>2. TypeOK /\ bound \in [Panes -> Binding] /\ minted \in 0..MaxSends
  BY DEF IInv, TypeOK
<1>3. /\ \A s \in DOMAIN row' : s \in DOMAIN row /\ row'[s] = row[s]
      /\ here' \subseteq DOMAIN row'
      /\ here' = here \ Withdrawn(p)
  BY <1>1, <1>2, SettleKeepsOthers
<1>4. bound'[p] = Unbound /\ \A q \in Panes : q # p => bound'[q] = bound[q]
  BY <1>1, <1>2
<1>5. Unbound \in Binding /\ Unbound.send = 0
  BY BoundsAssumption DEF Unbound, Binding, Versions
<1>6. bound' \in [Panes -> Binding]
  BY <1>1, <1>2, <1>5
<1>7. BindingsMinted'
  BY <1>2, <1>4, <1>5, BoundsAssumption DEF BindingsMinted, IInv
<1>8. OffersCurrentText'
  <2>1. SUFFICES ASSUME NEW s \in here', row'[s].lane = "send"
                 PROVE  /\ bound'[row'[s].pane] = [send |-> s, ver |-> row'[s].ver]
                        /\ open'[row'[s].pane].id = row'[s].id
                        /\ open'[row'[s].pane].ver = row'[s].ver
    BY DEF OffersCurrentText
  <2>2. s \in here /\ s \notin Withdrawn(p) /\ row'[s] = row[s] /\ s \in ask /\ row[s] \in Row
    BY <1>2, <1>3, <2>1 DEF TypeOK
  <2>3. /\ bound[row[s].pane] = [send |-> s, ver |-> row[s].ver]
        /\ open[row[s].pane].id = row[s].id
        /\ open[row[s].pane].ver = row[s].ver
    BY <2>1, <2>2 DEF IInv, OffersCurrentText
  <2>4. bound[row[s].pane].send = s /\ row[s].pane \in Panes
    BY <2>2, <2>3 DEF Row
  <2>5. row[s].pane # p
    BY <2>2, <2>4 DEF Withdrawn
  <2>6. s # 0
    BY <2>2, <1>2, BoundsAssumption DEF TypeOK
  <2>7. IsOpen(row[s].pane)
    BY <2>4, <2>6 DEF IInv, ClaimsAreSound
  <2>. QED  BY <1>4, <2>2, <2>3, <2>4, <2>5, <2>7
<1>9. ClaimsAreSound'
  <2>1. SUFFICES ASSUME NEW q \in Panes, bound'[q].send # 0
                 PROVE  /\ open'[q].id # 0
                        /\ open'[q].sent
                        /\ {r \in Panes : bound'[r].send = bound'[q].send} = {q}
    BY DEF ClaimsAreSound, IsOpen, BoundTo
  <2>2. q # p /\ bound'[q] = bound[q]
    BY <1>4, <1>5, <2>1
  <2>3. IsOpen(q) /\ open[q].sent /\ {r \in Panes : bound[r].send = bound[q].send} = {q}
    BY <2>1, <2>2 DEF IInv, ClaimsAreSound, BoundTo
  <2>4. open'[q] = open[q]
    BY <2>2, <2>3
  <2>5. \A r \in Panes : bound'[r].send = bound'[q].send => r = q
    BY <1>4, <1>5, <2>1, <2>2, <2>3
  <2>. QED  BY <2>2, <2>3, <2>4, <2>5 DEF IsOpen
<1>. QED  BY <1>6, <1>7, <1>8, <1>9

\* A dispatch adds one row, the next, and leaves the others as they were.
LEMMA MintAddsOne ==
  ASSUME TypeOK, NEW p \in Panes, NextSend \in Sends, NEW lane, NEW st
  PROVE  /\ DOMAIN Mint(p, lane, st) = DOMAIN row \cup {NextSend}
         /\ DOMAIN row \cup {NextSend} \subseteq 1..NextSend
         /\ NextSend \notin DOMAIN row
         /\ Mint(p, lane, st)[NextSend] = Stamp(p, lane, st)
         /\ \A s \in DOMAIN row : Mint(p, lane, st)[s] = row[s]
<1>1. minted \in Nat /\ DOMAIN row \subseteq 1..minted
  BY BoundsAssumption DEF TypeOK
<1>2. NextSend \notin DOMAIN row
  BY <1>1 DEF NextSend
<1>. QED  BY <1>1, <1>2 DEF Mint, NextSend

\* A stamped row is a row.
LEMMA StampIsRow ==
  ASSUME TypeOK, NEW p \in Panes, NEW lane \in {"send", "command"},
         NEW st \in {"draft", "awaiting"}
  PROVE  Stamp(p, lane, st) \in Row
<1>1. open[p] \in Draft \cup {NoDraft}
  BY DEF TypeOK
<1>2. open[p].id \in Ids \cup {0} /\ open[p].ver \in Versions
  BY <1>1, BoundsAssumption DEF Draft, NoDraft, Versions
<1>. QED  BY <1>2 DEF Stamp, Row

\* A new version of a draft is a draft as long as the bound allows it.
LEMMA RevisedIsDraft ==
  ASSUME NEW d \in Draft, d.ver < MaxVersion
  PROVE  Revised(d) \in Draft
<1>1. d.ver + 1 \in Versions /\ d.id \in Ids
  BY BoundsAssumption DEF Draft, Versions
<1>. QED  BY <1>1 DEF Revised, Draft

\* Boot from rows and approvals that fit together re-establishes the invariant.
LEMMA BootIsSound ==
  ASSUME IInv, NEW rows, NEW asks, Boot(rows, asks), minted' \in 0..MaxSends,
         DOMAIN rows \subseteq 1..minted', \A s \in DOMAIN rows : rows[s] \in Row,
         asks \subseteq DOMAIN rows
  PROVE  IInv'
<1>. DEFINE rec == Recovered(rows, asks)
<1>1. /\ row' = rec /\ ask' = asks /\ here' = {} /\ moving' = Still
      /\ open' = [p \in Panes |-> RehydratedDraft(rec, Source(rec, p))]
      /\ bound' = [p \in Panes |-> RehydratedBinding(rec, asks, Source(rec, p))]
      /\ cloned' \in BOOLEAN /\ typed' = {} /\ doubled' = FALSE /\ made' = made
  BY DEF Boot
<1>2. minted' \in Nat /\ DOMAIN rec = DOMAIN rows /\ DOMAIN rec \subseteq Nat
  BY BoundsAssumption DEF Recovered
<1>3. \A s \in DOMAIN rec : rec[s] \in Row
  BY DEF Recovered, Row
<1>. HIDE DEF rec
<1>4. \A p \in Panes : Source(rec, p) # 0 =>
        /\ Source(rec, p) \in DOMAIN rec
        /\ rec[Source(rec, p)].pane = p
        /\ rec[Source(rec, p)].id # 0
  BY <1>2, SourceIsOwnRow
<1>5. open' \in [Panes -> Draft \cup {NoDraft}]
  <2>1. SUFFICES ASSUME NEW p \in Panes
                 PROVE  RehydratedDraft(rec, Source(rec, p)) \in Draft \cup {NoDraft}
    BY <1>1
  <2>2. CASE Source(rec, p) = 0
    BY <2>2 DEF RehydratedDraft
  <2>3. CASE Source(rec, p) # 0
    <3>1. rec[Source(rec, p)] \in Row /\ rec[Source(rec, p)].id # 0
      BY <1>3, <1>4, <2>3
    <3>. QED  BY <2>3, <3>1 DEF RehydratedDraft, Row, Draft
  <2>. QED  BY <2>2, <2>3
<1>6. \A p \in Panes : bound'[p].send # 0 =>
        /\ bound'[p].send = Source(rec, p) /\ Source(rec, p) # 0
        /\ rec[Source(rec, p)].state = "awaiting"
  BY <1>1 DEF RehydratedBinding, Unbound
<1>7. \A p \in Panes : bound'[p] \in Binding /\ bound'[p].send \in 0..minted'
  <2>1. SUFFICES ASSUME NEW p \in Panes
                 PROVE  bound'[p] \in Binding /\ bound'[p].send \in 0..minted'
    OBVIOUS
  <2>2. bound'[p] = RehydratedBinding(rec, asks, Source(rec, p))
    BY <1>1
  <2>3. CASE bound'[p] = Unbound
    BY <1>2, <2>3, BoundsAssumption DEF Unbound, Binding, Versions
  <2>4. CASE bound'[p] # Unbound
    <3>1. bound'[p] = [send |-> Source(rec, p), ver |-> 1] /\ Source(rec, p) # 0
      BY <2>2, <2>4 DEF RehydratedBinding
    <3>2. Source(rec, p) \in 1..minted'
      BY <1>2, <1>4, <3>1
    <3>3. Source(rec, p) \in Sends
      BY <3>2, BoundsAssumption DEF Sends
    <3>. QED  BY <3>1, <3>2, <3>3, BoundsAssumption DEF Binding, Versions
  <2>. QED  BY <2>3, <2>4
<1>8. bound' \in [Panes -> Binding]
  BY <1>1, <1>7
<1>9. TypeOK'
  <2>1. made' \in 0..MaxDrafts
    BY <1>1 DEF IInv, TypeOK
  <2>2. moving' \in [pane : Panes \cup {Nil}, draft : Draft \cup {NoDraft}]
    BY <1>1 DEF Still
  <2>. QED  BY <1>1, <1>2, <1>3, <1>5, <1>8, <2>1, <2>2 DEF TypeOK
<1>10. BindingsMinted'
  BY <1>7 DEF BindingsMinted
<1>11. MovingWasOpen'
  BY <1>1 DEF MovingWasOpen
<1>12. OffersCurrentText'
  BY <1>1 DEF OffersCurrentText
<1>13. ClaimsAreSound'
  <2>1. SUFFICES ASSUME NEW p \in Panes, bound'[p].send # 0
                 PROVE  /\ open'[p].id # 0
                        /\ open'[p].sent
                        /\ {q \in Panes : bound'[q].send = bound'[p].send} = {p}
    BY DEF ClaimsAreSound, IsOpen, BoundTo
  <2>2. bound'[p].send = Source(rec, p) /\ Source(rec, p) # 0
    BY <1>6, <2>1
  <2>3. open'[p] = RehydratedDraft(rec, Source(rec, p))
    BY <1>1
  <2>4. open'[p].id # 0 /\ open'[p].sent
    <3>1. open'[p] = [id |-> rec[Source(rec, p)].id, ver |-> rec[Source(rec, p)].ver,
                      sent |-> rec[Source(rec, p)].state = "awaiting"]
      BY <2>2, <2>3 DEF RehydratedDraft
    <3>2. rec[Source(rec, p)].id # 0 /\ rec[Source(rec, p)].state = "awaiting"
      BY <1>4, <1>6, <2>1, <2>2
    <3>3. open'[p].id = rec[Source(rec, p)].id
      BY <3>1
    <3>4. open'[p].sent = (rec[Source(rec, p)].state = "awaiting")
      BY <3>1
    <3>. QED  BY <3>2, <3>3, <3>4
  <2>5. \A q \in Panes : bound'[q].send = bound'[p].send => q = p
    BY <1>4, <1>6, <2>1, <2>2
  <2>. QED  BY <2>4, <2>5
<1>. QED  BY <1>9, <1>10, <1>11, <1>12, <1>13 DEF IInv

-----------------------------------------------------------------------------

\* Initially nothing is open and nothing is staged.
LEMMA InitInv == Init => IInv
<1>. SUFFICES ASSUME Init PROVE IInv
  OBVIOUS
<1>1. Unbound \in Binding /\ Unbound.send = 0
  BY BoundsAssumption DEF Unbound, Binding, Versions
<1>2. /\ open \in [Panes -> Draft \cup {NoDraft}] /\ bound \in [Panes -> Binding]
      /\ \A p \in Panes : bound[p].send = 0
  BY <1>1 DEF Init
<1>3. /\ DOMAIN row = {} /\ made = 0 /\ minted = 0 /\ ask = {} /\ here = {} /\ typed = {}
      /\ cloned = FALSE /\ doubled = FALSE
  BY DEF Init
<1>4. TypeOK
  <2>1. moving \in [pane : Panes \cup {Nil}, draft : Draft \cup {NoDraft}]
    BY DEF Init, Still
  <2>2. made \in 0..MaxDrafts /\ minted \in 0..MaxSends
    BY <1>3, BoundsAssumption
  <2>. QED  BY <1>2, <1>3, <2>1, <2>2 DEF TypeOK
<1>5. BindingsMinted
  <2>1. minted = 0 /\ 0 \in 0..0
    BY DEF Init
  <2>. QED  BY <1>2, <2>1 DEF BindingsMinted
<1>6. MovingWasOpen /\ OffersCurrentText /\ ClaimsAreSound
  BY <1>2 DEF Init, MovingWasOpen, OffersCurrentText, ClaimsAreSound
<1>. QED  BY <1>4, <1>5, <1>6 DEF IInv

\* Nothing the invariant speaks of changes.
LEMMA StutterKeepsInv ==
  ASSUME IInv, UNCHANGED vars
  PROVE  IInv'
BY DEF IInv, vars, TypeOK, BindingsMinted, MovingWasOpen, OffersCurrentText, ClaimsAreSound,
       IsOpen, BoundTo

\* The part of the type invariant about a handler that withdraws the approval of
\* pane p and changes open drafts.
LEMMA WithdrawingStep ==
  ASSUME IInv, NEW p \in Panes, Invalidate(p), minted' = minted,
         open' \in [Panes -> Draft \cup {NoDraft}],
         \A q \in Panes : q # p /\ IsOpen(q) => open'[q] = open[q],
         made' \in 0..MaxDrafts, moving' = moving \/ moving' = Still,
         cloned' \in BOOLEAN, doubled' \in BOOLEAN,
         typed' \subseteq Panes \X Ids \X Versions
  PROVE  IInv'
<1>1. /\ bound' \in [Panes -> Binding] /\ BindingsMinted'
      /\ OffersCurrentText' /\ ClaimsAreSound'
  BY WithdrawnThenChanged
<1>2. Settle(Withdrawn(p)) /\ TypeOK
  BY DEF Invalidate, IInv
<1>3. /\ DOMAIN row' \subseteq 1..minted' /\ \A s \in DOMAIN row' : row'[s] \in Row
      /\ ask' \subseteq DOMAIN row' /\ here' \subseteq ask'
  BY <1>2, SettleKeepsOthers
<1>4. /\ moving' \in [pane : Panes \cup {Nil}, draft : Draft \cup {NoDraft}]
      /\ MovingWasOpen'
  BY DEF IInv, TypeOK, MovingWasOpen, Still
<1>5. minted' \in 0..MaxSends
  BY DEF IInv, TypeOK
<1>6. TypeOK'
  BY <1>1, <1>3, <1>4, <1>5 DEF TypeOK
<1>. QED  BY <1>1, <1>4, <1>6 DEF IInv

\* The invariant is kept by drafting, revising, cancelling and editing a draft,
\* and by sending it from the Workbench.
LEMMA EditsKeepInv ==
  ASSUME IInv, NEW p \in Panes,
         \/ DraftInstruction(p) /\ IsOpen(p)
         \/ ReviseInstruction(p) \/ CancelInstruction(p) \/ TypedEdit(p) \/ WorkbenchSend(p)
  PROVE  IInv'
<1>1. open \in [Panes -> Draft \cup {NoDraft}] /\ TypeOK
  BY DEF IInv, TypeOK
<1>2. IsOpen(p) /\ open[p] \in Draft
  BY <1>1 DEF ReviseInstruction, CancelInstruction, TypedEdit, WorkbenchSend, IsOpen, NoDraft
<1>3. \/ open[p].ver < MaxVersion /\ open' = [open EXCEPT ![p] = Revised(open[p])]
      \/ open' = [open EXCEPT ![p] = NoDraft]
  BY <1>1, <1>2 DEF DraftInstruction, ReviseInstruction, CancelInstruction, TypedEdit, WorkbenchSend
<1>4. open' \in [Panes -> Draft \cup {NoDraft}]
  BY <1>1, <1>2, <1>3, RevisedIsDraft
<1>5. \A q \in Panes : q # p => open'[q] = open[q]
  BY <1>1, <1>3
<1>6. Invalidate(p) /\ minted' = minted /\ made' = made /\ moving' = moving /\ cloned' = cloned
  BY <1>2 DEF DraftInstruction, ReviseInstruction, CancelInstruction, TypedEdit, WorkbenchSend, ghosts
<1>7. typed' \subseteq Panes \X Ids \X Versions /\ doubled' \in BOOLEAN
  <2>1. CASE WorkbenchSend(p)
    <3>1. typed' = typed \cup {<<p, open[p].id, open[p].ver>>} /\ doubled' \in BOOLEAN
      BY <1>1, <2>1 DEF WorkbenchSend, Type, TypeOK
    <3>. QED  BY <1>1, <1>2, <3>1 DEF TypeOK, Draft
  <2>2. CASE ~WorkbenchSend(p)
    BY <1>1, <1>2, <2>2
       DEF DraftInstruction, ReviseInstruction, CancelInstruction, TypedEdit, ghosts, TypeOK
  <2>. QED  BY <2>1, <2>2
<1>8. made' \in 0..MaxDrafts /\ cloned' \in BOOLEAN
  BY <1>1, <1>6 DEF TypeOK
<1>. QED  BY <1>4, <1>5, <1>6, <1>7, <1>8, WithdrawingStep

\* A move of a draft that was once open keeps the invariant, however late.
LEMMA RetargetKeepsInv ==
  ASSUME IInv, NEW p \in Panes, NEW q \in Panes, NEW d \in Draft, PerformRetarget(p, q, d),
         minted' = minted, made' = made, moving' = moving \/ moving' = Still,
         cloned' \in BOOLEAN, typed' = typed, doubled' = doubled
  PROVE  IInv'
<1>1. TypeOK /\ open \in [Panes -> Draft \cup {NoDraft}]
  BY DEF IInv, TypeOK
<1>2. CASE p = q \/ IsOpen(q)
  <2>1. UNCHANGED <<open, bound, ask, here, row>>
    BY <1>2 DEF PerformRetarget
  <2>2. TypeOK'
    BY <1>1, <2>1 DEF TypeOK, Still
  <2>3. MovingWasOpen'
    BY DEF IInv, MovingWasOpen, Still
  <2>4. BindingsMinted' /\ OffersCurrentText' /\ ClaimsAreSound'
    BY <2>1 DEF IInv, BindingsMinted, OffersCurrentText, ClaimsAreSound, IsOpen, BoundTo
  <2>. QED  BY <2>2, <2>3, <2>4 DEF IInv
<1>3. CASE p # q /\ ~IsOpen(q)
  <2>1. /\ d.ver < MaxVersion /\ Invalidate(p)
        /\ open' = [open EXCEPT ![p] = NoDraft, ![q] = Revised(d)]
    BY <1>3 DEF PerformRetarget
  <2>2. open' \in [Panes -> Draft \cup {NoDraft}]
    BY <1>1, <2>1, RevisedIsDraft
  <2>3. \A r \in Panes : r # p /\ IsOpen(r) => open'[r] = open[r]
    BY <1>1, <1>3, <2>1
  <2>4. /\ made' \in 0..MaxDrafts /\ doubled' \in BOOLEAN
        /\ typed' \subseteq Panes \X Ids \X Versions
    BY <1>1 DEF TypeOK
  <2>. QED  BY <2>1, <2>2, <2>3, <2>4, WithdrawingStep
<1>. QED  BY <1>2, <1>3

\* Opening a draft in a pane that has none keeps the invariant.
LEMMA NewDraftKeepsInv ==
  ASSUME IInv, NEW p \in Panes, DraftInstruction(p), ~IsOpen(p)
  PROVE  IInv'
<1>1. /\ made < MaxDrafts /\ open' = [open EXCEPT ![p] = Created] /\ made' = made + 1
      /\ UNCHANGED <<bound, ask, here, row, minted, moving, cloned, typed, doubled>>
  BY DEF DraftInstruction, ghosts
<1>2. TypeOK /\ made \in 0..MaxDrafts
  BY DEF IInv, TypeOK
<1>3. made + 1 \in Ids /\ made' \in 0..MaxDrafts
  BY <1>1, <1>2, BoundsAssumption DEF Ids
<1>4. Created \in Draft
  BY <1>3, BoundsAssumption DEF Created, Draft, Versions
<1>5. open' \in [Panes -> Draft \cup {NoDraft}] /\ \A q \in Panes : q # p => open'[q] = open[q]
  BY <1>1, <1>2, <1>4 DEF TypeOK
<1>6. bound[p].send = 0
  BY DEF IInv, ClaimsAreSound
<1>7. TypeOK'
  BY <1>1, <1>2, <1>3, <1>5 DEF TypeOK
<1>8. BindingsMinted' /\ MovingWasOpen'
  BY <1>1 DEF IInv, BindingsMinted, MovingWasOpen, Still
<1>9. OffersCurrentText'
  <2>1. SUFFICES ASSUME NEW s \in here, row[s].lane = "send"
                 PROVE  /\ bound[row[s].pane] = [send |-> s, ver |-> row[s].ver]
                        /\ open'[row[s].pane].id = row[s].id
                        /\ open'[row[s].pane].ver = row[s].ver
    BY <1>1 DEF OffersCurrentText
  <2>2. /\ bound[row[s].pane] = [send |-> s, ver |-> row[s].ver]
        /\ open[row[s].pane].id = row[s].id
        /\ open[row[s].pane].ver = row[s].ver
    BY <2>1 DEF IInv, OffersCurrentText
  <2>3. row[s] \in Row /\ s # 0
    BY <1>2, BoundsAssumption DEF TypeOK
  <2>4. row[s].pane \in Panes /\ row[s].pane # p
    BY <1>6, <2>2, <2>3 DEF Row
  <2>. QED  BY <1>5, <2>2, <2>4
<1>10. ClaimsAreSound'
  BY <1>1, <1>5, <1>6 DEF IInv, ClaimsAreSound, IsOpen, BoundTo
<1>. QED  BY <1>7, <1>8, <1>9, <1>10 DEF IInv

\* A send typed at once keeps the invariant: the binding of its pane, if it has
\* one, is of an approval that is no longer open.
LEMMA SendExecutedKeepsInv ==
  ASSUME IInv, NEW p \in Panes, SendExecuted(p)
  PROVE  IInv'
<1>1. /\ IsOpen(p) /\ ~open[p].sent /\ NextSend \in Sends /\ minted' = NextSend
      /\ open' = [open EXCEPT ![p] = NoDraft] /\ bound' = [bound EXCEPT ![p] = Unbound]
      /\ typed' = typed \cup {<<p, open[p].id, open[p].ver>>}
      /\ doubled' \in BOOLEAN
      /\ UNCHANGED <<made, row, ask, here, moving, cloned>>
  BY DEF SendExecuted, Sendable, Type, IInv, TypeOK
<1>2. TypeOK
  BY DEF IInv
<1>3. open[p] \in Draft
  BY <1>1, <1>2 DEF TypeOK, IsOpen, NoDraft
<1>4. minted' \in 0..MaxSends /\ 1..minted \subseteq 1..minted'
      /\ \A n \in 0..minted : n \in 0..minted'
  BY <1>1, <1>2, BoundsAssumption DEF NextSend, Sends, TypeOK
<1>5. Unbound \in Binding /\ Unbound.send = 0
  BY BoundsAssumption DEF Unbound, Binding, Versions
<1>6. bound[p].send = 0
  BY <1>1 DEF IInv, ClaimsAreSound
<1>7. /\ open' \in [Panes -> Draft \cup {NoDraft}] /\ bound' \in [Panes -> Binding]
      /\ \A q \in Panes : q # p => open'[q] = open[q] /\ bound'[q] = bound[q]
      /\ bound'[p] = Unbound
  BY <1>1, <1>2, <1>5 DEF TypeOK
<1>8. typed' \subseteq Panes \X Ids \X Versions
  BY <1>1, <1>2, <1>3 DEF TypeOK, Draft
<1>9. TypeOK'
  BY <1>1, <1>2, <1>4, <1>7, <1>8 DEF TypeOK
<1>10. MovingWasOpen'
  BY <1>1 DEF IInv, MovingWasOpen, Still
<1>11. BindingsMinted'
  BY <1>4, <1>5, <1>7, BoundsAssumption DEF IInv, BindingsMinted
<1>12. OffersCurrentText'
  <2>1. SUFFICES ASSUME NEW s \in here, row[s].lane = "send"
                 PROVE  /\ bound'[row[s].pane] = [send |-> s, ver |-> row[s].ver]
                        /\ open'[row[s].pane].id = row[s].id
                        /\ open'[row[s].pane].ver = row[s].ver
    BY <1>1 DEF OffersCurrentText
  <2>2. /\ bound[row[s].pane] = [send |-> s, ver |-> row[s].ver]
        /\ open[row[s].pane].id = row[s].id
        /\ open[row[s].pane].ver = row[s].ver
    BY <2>1 DEF IInv, OffersCurrentText
  <2>3. row[s] \in Row /\ s # 0
    BY <1>2, BoundsAssumption DEF TypeOK
  <2>4. row[s].pane \in Panes /\ row[s].pane # p
    BY <1>6, <2>2, <2>3 DEF Row
  <2>. QED  BY <1>7, <2>2, <2>4
<1>13. ClaimsAreSound'
  BY <1>5, <1>6, <1>7 DEF IInv, ClaimsAreSound, IsOpen, BoundTo
<1>. QED  BY <1>9, <1>10, <1>11, <1>12, <1>13 DEF IInv

\* A dispatch that parks an approval: its row is new, so no binding named it.
LEMMA ParkedRow ==
  ASSUME IInv, NEW p \in Panes, NEW lane \in {"send", "command"}, NextSend \in Sends,
         minted' = NextSend, row' = Mint(p, lane, "awaiting"),
         here' = here \cup {NextSend}, ask' = ask \cup {NextSend}
  PROVE  /\ minted' \in 0..MaxSends /\ DOMAIN row' \subseteq 1..minted'
         /\ \A s \in DOMAIN row' : row'[s] \in Row
         /\ ask' \subseteq DOMAIN row' /\ here' \subseteq ask'
         /\ row'[NextSend] = Stamp(p, lane, "awaiting")
         /\ \A s \in here : s # NextSend /\ s # 0 /\ row'[s] = row[s] /\ row[s] \in Row
         /\ \A q \in Panes : bound[q].send # NextSend
         /\ \A n \in 0..minted : n \in 0..minted'
         /\ NextSend \in 0..minted' /\ NextSend # 0
<1>1. TypeOK
  BY DEF IInv
<1>2. /\ DOMAIN row' = DOMAIN row \cup {NextSend} /\ DOMAIN row' \subseteq 1..NextSend
      /\ NextSend \notin DOMAIN row /\ row'[NextSend] = Stamp(p, lane, "awaiting")
      /\ \A s \in DOMAIN row : row'[s] = row[s]
  BY <1>1, MintAddsOne
<1>3. Stamp(p, lane, "awaiting") \in Row
  BY <1>1, StampIsRow
<1>4. minted \in Nat /\ NextSend = minted + 1 /\ NextSend \in 0..MaxSends
  BY <1>1, BoundsAssumption DEF TypeOK, NextSend, Sends
<1>5. \A q \in Panes : bound[q].send # NextSend
  BY <1>4 DEF IInv, BindingsMinted
<1>6. \A s \in here : s \in DOMAIN row /\ s # 0 /\ row[s] \in Row
  BY <1>1, <1>4 DEF TypeOK
<1>7. ask' \subseteq DOMAIN row' /\ here' \subseteq ask'
  BY <1>1, <1>2 DEF TypeOK
<1>8. \A s \in DOMAIN row' : row'[s] \in Row
  BY <1>1, <1>2, <1>3 DEF TypeOK
<1>. QED  BY <1>2, <1>4, <1>5, <1>6, <1>7, <1>8

LEMMA SendPendingKeepsInv ==
  ASSUME IInv, NEW p \in Panes, SendPending(p)
  PROVE  IInv'
<1>1. /\ IsOpen(p) /\ ~open[p].sent /\ NextSend \in Sends /\ minted' = NextSend
      /\ row' = Mint(p, "send", "awaiting")
      /\ here' = here \cup {NextSend} /\ ask' = ask \cup {NextSend}
      /\ open' = [open EXCEPT ![p] = Marked(open[p])]
      /\ bound' = [bound EXCEPT ![p] = [send |-> NextSend, ver |-> open[p].ver]]
      /\ UNCHANGED <<made, moving, cloned, typed, doubled>>
  BY DEF SendPending, Sendable, ghosts
<1>2. TypeOK
  BY DEF IInv
<1>3. open[p] \in Draft /\ Marked(open[p]) \in Draft /\ Marked(open[p]).sent
      /\ Marked(open[p]).id = open[p].id /\ Marked(open[p]).ver = open[p].ver
  BY <1>1, <1>2 DEF TypeOK, IsOpen, NoDraft, Marked, Draft
<1>4. [send |-> NextSend, ver |-> open[p].ver] \in Binding
  BY <1>1, <1>3 DEF Binding, Draft
<1>5. /\ minted' \in 0..MaxSends /\ DOMAIN row' \subseteq 1..minted'
      /\ \A s \in DOMAIN row' : row'[s] \in Row
      /\ ask' \subseteq DOMAIN row' /\ here' \subseteq ask'
      /\ row'[NextSend] = Stamp(p, "send", "awaiting")
      /\ \A s \in here : s # NextSend /\ s # 0 /\ row'[s] = row[s] /\ row[s] \in Row
      /\ \A q \in Panes : bound[q].send # NextSend
      /\ \A n \in 0..minted : n \in 0..minted'
      /\ NextSend \in 0..minted' /\ NextSend # 0
  BY <1>1, ParkedRow
<1>6. bound[p].send = 0
  BY <1>1 DEF IInv, ClaimsAreSound
<1>7. /\ open' \in [Panes -> Draft \cup {NoDraft}] /\ bound' \in [Panes -> Binding]
      /\ open'[p] = Marked(open[p]) /\ bound'[p] = [send |-> NextSend, ver |-> open[p].ver]
      /\ \A q \in Panes : q # p => open'[q] = open[q] /\ bound'[q] = bound[q]
  BY <1>1, <1>2, <1>3, <1>4 DEF TypeOK
<1>8. TypeOK'
  BY <1>1, <1>2, <1>5, <1>7 DEF TypeOK
<1>9. MovingWasOpen'
  BY <1>1 DEF IInv, MovingWasOpen, Still
<1>10. BindingsMinted'
  <2>1. SUFFICES ASSUME NEW q \in Panes PROVE bound'[q].send \in 0..minted'
    BY DEF BindingsMinted
  <2>. QED  BY <1>5, <1>7 DEF IInv, BindingsMinted
<1>11. OffersCurrentText'
  <2>1. SUFFICES ASSUME NEW s \in here', row'[s].lane = "send"
                 PROVE  /\ bound'[row'[s].pane] = [send |-> s, ver |-> row'[s].ver]
                        /\ open'[row'[s].pane].id = row'[s].id
                        /\ open'[row'[s].pane].ver = row'[s].ver
    BY DEF OffersCurrentText
  <2>2. CASE s = NextSend
    <3>1. row'[s].pane = p /\ row'[s].id = open[p].id /\ row'[s].ver = open[p].ver
      BY <1>5, <2>2 DEF Stamp
    <3>. QED  BY <1>3, <1>7, <2>2, <3>1
  <2>3. CASE s # NextSend
    <3>1. s \in here /\ row'[s] = row[s] /\ s # 0 /\ row[s] \in Row
      BY <1>1, <1>5, <2>1, <2>3
    <3>2. /\ bound[row[s].pane] = [send |-> s, ver |-> row[s].ver]
          /\ open[row[s].pane].id = row[s].id
          /\ open[row[s].pane].ver = row[s].ver
      BY <2>1, <3>1 DEF IInv, OffersCurrentText
    <3>3. row[s].pane \in Panes /\ row[s].pane # p
      BY <1>6, <3>1, <3>2 DEF Row
    <3>. QED  BY <1>7, <3>1, <3>2, <3>3
  <2>. QED  BY <2>2, <2>3
<1>12. ClaimsAreSound'
  <2>1. SUFFICES ASSUME NEW q \in Panes, bound'[q].send # 0
                 PROVE  /\ open'[q].id # 0
                        /\ open'[q].sent
                        /\ \A r \in Panes : bound'[r].send = bound'[q].send <=> r = q
    BY DEF ClaimsAreSound, IsOpen, BoundTo
  <2>2. CASE q = p
    <3>1. open'[q].id # 0 /\ open'[q].sent
      BY <1>1, <1>3, <1>7, <2>2 DEF IsOpen
    <3>2. \A r \in Panes : bound'[r].send = bound'[q].send <=> r = q
      BY <1>5, <1>7, <2>2
    <3>. QED  BY <3>1, <3>2
  <2>3. CASE q # p
    <3>1. IsOpen(q) /\ open[q].sent /\ BoundTo(bound[q].send) = {q}
      BY <1>7, <2>1, <2>3 DEF IInv, ClaimsAreSound
    <3>2. \A r \in Panes : bound'[r].send = bound'[q].send <=> r = q
      BY <1>5, <1>7, <2>3, <3>1 DEF BoundTo
    <3>3. open'[q] = open[q]
      BY <1>7, <2>3
    <3>. QED  BY <3>1, <3>2, <3>3 DEF IsOpen
  <2>. QED  BY <2>2, <2>3
<1>. QED  BY <1>8, <1>9, <1>10, <1>11, <1>12 DEF IInv

LEMMA ProposeKeepsInv ==
  ASSUME IInv, NEW p \in Panes, ProposeCommand(p)
  PROVE  IInv'
<1>1. /\ NextSend \in Sends /\ minted' = NextSend /\ row' = Mint(p, "command", "awaiting")
      /\ here' = here \cup {NextSend} /\ ask' = ask \cup {NextSend}
      /\ UNCHANGED <<open, bound, made, moving, cloned, typed, doubled>>
  BY DEF ProposeCommand, ghosts
<1>2. /\ minted' \in 0..MaxSends /\ DOMAIN row' \subseteq 1..minted'
      /\ \A s \in DOMAIN row' : row'[s] \in Row
      /\ ask' \subseteq DOMAIN row' /\ here' \subseteq ask'
      /\ row'[NextSend] = Stamp(p, "command", "awaiting")
      /\ \A s \in here : s # NextSend /\ s # 0 /\ row'[s] = row[s] /\ row[s] \in Row
      /\ \A n \in 0..minted : n \in 0..minted'
  BY <1>1, ParkedRow
<1>3. TypeOK'
  BY <1>1, <1>2 DEF IInv, TypeOK
<1>4. MovingWasOpen' /\ BindingsMinted' /\ ClaimsAreSound'
  BY <1>1, <1>2 DEF IInv, MovingWasOpen, Still, BindingsMinted, ClaimsAreSound, IsOpen, BoundTo
<1>5. row'[NextSend].lane = "command"
  BY <1>2 DEF Stamp
<1>6. OffersCurrentText'
  BY <1>1, <1>2, <1>5 DEF IInv, OffersCurrentText
<1>. QED  BY <1>3, <1>4, <1>6 DEF IInv

\* A resolution of one approval keeps the invariant whether it typed, and so
\* closed the draft it was bound to, or not.
LEMMA ResolutionKeepsInv ==
  ASSUME IInv, NEW s \in ask, Resolved(s),
         \/ open' = open
         \/ open' = [p \in Panes |-> IF p \in BoundTo(s) THEN NoDraft ELSE open[p]],
         UNCHANGED <<made, minted, moving, cloned>>,
         typed' \subseteq Panes \X Ids \X Versions, doubled' \in BOOLEAN
  PROVE  IInv'
<1>1. TypeOK /\ Settle({s})
  BY DEF IInv, Resolved
<1>2. /\ DOMAIN row' \subseteq 1..minted' /\ ask' \subseteq DOMAIN row' /\ here' \subseteq ask'
      /\ \A t \in DOMAIN row' : t \in DOMAIN row /\ row'[t] = row[t] /\ row'[t] \in Row
      /\ here' = here \ {s}
  BY <1>1, SettleKeepsOthers
<1>3. Unbound \in Binding /\ Unbound.send = 0 /\ s # 0
  BY <1>1, BoundsAssumption DEF Unbound, Binding, Versions, TypeOK
<1>4. /\ bound' \in [Panes -> Binding]
      /\ \A p \in Panes : bound'[p] = IF bound[p].send = s THEN Unbound ELSE bound[p]
  BY <1>1, <1>3 DEF Resolved, BoundTo, TypeOK
<1>5. /\ open' \in [Panes -> Draft \cup {NoDraft}]
      /\ \A p \in Panes : bound[p].send # s => open'[p] = open[p]
  BY <1>1 DEF TypeOK, BoundTo
<1>6. TypeOK'
  BY <1>1, <1>2, <1>4, <1>5 DEF TypeOK
<1>7. MovingWasOpen' /\ BindingsMinted'
  BY <1>1, <1>3, <1>4, BoundsAssumption
     DEF IInv, MovingWasOpen, Still, BindingsMinted, TypeOK
<1>8. OffersCurrentText'
  <2>1. SUFFICES ASSUME NEW t \in here', row'[t].lane = "send"
                 PROVE  /\ bound'[row'[t].pane] = [send |-> t, ver |-> row'[t].ver]
                        /\ open'[row'[t].pane].id = row'[t].id
                        /\ open'[row'[t].pane].ver = row'[t].ver
    BY DEF OffersCurrentText
  <2>2. t \in here /\ t # s /\ row'[t] = row[t] /\ row[t] \in Row
    BY <1>2, <2>1
  <2>3. /\ bound[row[t].pane] = [send |-> t, ver |-> row[t].ver]
        /\ open[row[t].pane].id = row[t].id
        /\ open[row[t].pane].ver = row[t].ver
    BY <2>1, <2>2 DEF IInv, OffersCurrentText
  <2>4. row[t].pane \in Panes /\ bound[row[t].pane].send = t
    BY <2>2, <2>3 DEF Row
  <2>. QED  BY <1>4, <1>5, <2>2, <2>3, <2>4
<1>9. ClaimsAreSound'
  <2>1. SUFFICES ASSUME NEW q \in Panes, bound'[q].send # 0
                 PROVE  /\ open'[q].id # 0
                        /\ open'[q].sent
                        /\ \A r \in Panes : bound'[r].send = bound'[q].send <=> r = q
    BY DEF ClaimsAreSound, IsOpen, BoundTo
  <2>2. bound[q].send # s /\ bound'[q] = bound[q]
    BY <1>3, <1>4, <2>1
  <2>3. IsOpen(q) /\ open[q].sent /\ BoundTo(bound[q].send) = {q} /\ open'[q] = open[q]
    BY <1>5, <2>1, <2>2 DEF IInv, ClaimsAreSound
  <2>4. \A r \in Panes : bound'[r].send = bound'[q].send <=> r = q
    BY <1>3, <1>4, <2>1, <2>2, <2>3 DEF BoundTo
  <2>. QED  BY <2>3, <2>4 DEF IsOpen
<1>. QED  BY <1>6, <1>7, <1>8, <1>9 DEF IInv

LEMMA ApproveKeepsInv ==
  ASSUME IInv, NEW s, Approve(s)
  PROVE  IInv'
<1>1. TypeOK /\ s \in ask /\ s \in DOMAIN row /\ row[s] \in Row
  BY DEF Approve, IInv, TypeOK
<1>2. /\ Resolved(s) /\ UNCHANGED <<made, minted, moving, cloned>>
      /\ open' = [p \in Panes |-> IF p \in BoundTo(s) THEN NoDraft ELSE open[p]]
  BY DEF Approve
<1>3. typed' \subseteq Panes \X Ids \X Versions /\ doubled' \in BOOLEAN
  <2>1. CASE row[s].lane = "send" /\ s \in here
    <3>1. typed' = typed \cup {<<row[s].pane, row[s].id, row[s].ver>>} /\ doubled' \in BOOLEAN
      BY <1>1, <2>1 DEF Approve, Type, TypeOK
    <3>2. bound[row[s].pane] = [send |-> s, ver |-> row[s].ver] /\ open[row[s].pane].id = row[s].id
      BY <2>1 DEF IInv, OffersCurrentText
    <3>3. row[s].pane \in Panes /\ bound[row[s].pane].send = s /\ s # 0
      BY <1>1, <3>2, BoundsAssumption DEF Row, TypeOK
    <3>4. row[s].id # 0
      BY <3>2, <3>3 DEF IInv, ClaimsAreSound, IsOpen
    <3>5. row[s].id \in Ids /\ row[s].ver \in Versions
      BY <1>1, <3>4 DEF Row
    <3>. QED  BY <1>1, <3>1, <3>3, <3>5 DEF TypeOK
  <2>2. CASE ~(row[s].lane = "send" /\ s \in here)
    BY <1>1, <2>2 DEF Approve, TypeOK
  <2>. QED  BY <2>1, <2>2
<1>. QED  BY <1>1, <1>2, <1>3, ResolutionKeepsInv

LEMMA RefuseKeepsInv ==
  ASSUME IInv, NEW s, Refuse(s)
  PROVE  IInv'
<1>1. s \in ask /\ Resolved(s) /\ open' = open /\ UNCHANGED <<made, minted, moving, cloned>>
      /\ typed' \subseteq Panes \X Ids \X Versions /\ doubled' \in BOOLEAN
  BY DEF Refuse, ghosts, IInv, TypeOK
<1>. QED  BY <1>1, ResolutionKeepsInv

LEMMA PromoteKeepsInv ==
  ASSUME IInv, NEW p \in Panes, Promote(p)
  PROVE  IInv'
<1>1. /\ ask' = {s \in ask : row[s].pane # p} /\ here' = {s \in here : row[s].pane # p}
      /\ UNCHANGED <<open, bound, made, minted, row, moving, cloned, typed, doubled>>
  BY DEF Promote, ghosts
<1>2. TypeOK'
  BY <1>1 DEF IInv, TypeOK
<1>3. MovingWasOpen' /\ BindingsMinted' /\ ClaimsAreSound' /\ OffersCurrentText'
  BY <1>1 DEF IInv, MovingWasOpen, Still, BindingsMinted, ClaimsAreSound, IsOpen, BoundTo,
              OffersCurrentText
<1>. QED  BY <1>2, <1>3 DEF IInv

\* The two steps of a retarget around the await.
LEMMA AwaitKeepsInv ==
  ASSUME IInv, (\E p \in Panes : RetargetInstruction(p)) \/ UnresolvedTarget
  PROVE  IInv'
<1>1. UNCHANGED <<open, bound, made, minted, row, ask, here, cloned, typed, doubled>>
  BY DEF RetargetInstruction, UnresolvedTarget, ghosts
<1>2. \/ moving' = Still
      \/ \E p \in Panes : moving' = [pane |-> p, draft |-> open[p]] /\ open[p] \in Draft
  BY DEF RetargetInstruction, UnresolvedTarget, IInv, TypeOK, IsOpen, NoDraft
<1>3. MovingWasOpen' /\ moving' \in [pane : Panes \cup {Nil}, draft : Draft \cup {NoDraft}]
  BY <1>2 DEF MovingWasOpen, Still
<1>4. TypeOK'
  BY <1>1, <1>3 DEF IInv, TypeOK
<1>5. BindingsMinted' /\ ClaimsAreSound' /\ OffersCurrentText'
  BY <1>1 DEF IInv, BindingsMinted, ClaimsAreSound, IsOpen, BoundTo, OffersCurrentText
<1>. QED  BY <1>3, <1>4, <1>5 DEF IInv

\* Every way the process can stop leaves rows and approvals boot can start from.
LEMMA RestartsKeepInv ==
  ASSUME IInv, \/ Restart
               \/ \E p \in Panes : CrashInSend(p)
               \/ \E s \in Sends : CrashInResolution(s)
  PROVE  IInv'
<1>1. TypeOK /\ minted \in 0..MaxSends
  BY DEF IInv, TypeOK
<1>2. CASE Restart
  <2>1. minted' = minted /\ Boot(row, ask)
    BY <1>2 DEF Restart
  <2>. QED  BY <1>1, <2>1, BootIsSound DEF TypeOK
<1>3. ASSUME NEW p \in Panes, CrashInSend(p) PROVE IInv'
  <2>1. /\ NextSend \in Sends /\ minted' = NextSend
        /\ Boot(Mint(p, "send", "draft"), ask \cup {NextSend})
    BY <1>3 DEF CrashInSend
  <2>2. /\ DOMAIN Mint(p, "send", "draft") = DOMAIN row \cup {NextSend}
        /\ DOMAIN row \cup {NextSend} \subseteq 1..NextSend
        /\ NextSend \notin DOMAIN row
        /\ Mint(p, "send", "draft")[NextSend] = Stamp(p, "send", "draft")
        /\ \A s \in DOMAIN row : Mint(p, "send", "draft")[s] = row[s]
    BY <1>1, <2>1, MintAddsOne
  <2>3. Stamp(p, "send", "draft") \in Row
    BY <1>1, StampIsRow
  <2>4. \A s \in DOMAIN Mint(p, "send", "draft") : Mint(p, "send", "draft")[s] \in Row
    BY <1>1, <2>2, <2>3 DEF TypeOK
  <2>5. minted' \in 0..MaxSends
    BY <2>1, BoundsAssumption DEF Sends
  <2>6. ask \cup {NextSend} \subseteq DOMAIN Mint(p, "send", "draft")
    BY <1>1, <2>2 DEF TypeOK
  <2>7. DOMAIN Mint(p, "send", "draft") \subseteq 1..minted'
    BY <2>1, <2>2
  <2>. QED  BY <2>1, <2>4, <2>5, <2>6, <2>7, BootIsSound
<1>4. ASSUME NEW s \in Sends, CrashInResolution(s) PROVE IInv'
  <2>1. minted' = minted /\ Boot(row, ask \ {s})
    BY <1>4 DEF CrashInResolution
  <2>2. DOMAIN row \subseteq 1..minted' /\ (\A t \in DOMAIN row : row[t] \in Row)
        /\ ask \ {s} \subseteq DOMAIN row /\ minted' \in 0..MaxSends
    BY <1>1, <2>1 DEF TypeOK
  <2>. QED  BY <2>1, <2>2, BootIsSound
<1>. QED  BY <1>2, <1>3, <1>4

-----------------------------------------------------------------------------

\* The invariant is inductive.
LEMMA NextKeepsInv == IInv /\ [Next]_vars => IInv'
<1>. SUFFICES ASSUME IInv, [Next]_vars PROVE IInv'
  OBVIOUS
<1>1. ASSUME NEW p \in Panes,
             \/ DraftInstruction(p) \/ ReviseInstruction(p) \/ CancelInstruction(p)
             \/ TypedEdit(p) \/ WorkbenchSend(p)
      PROVE  IInv'
  BY <1>1, EditsKeepInv, NewDraftKeepsInv
<1>2. ASSUME NEW q \in Panes, ResolvedTarget(q) PROVE IInv'
  <2>1. moving.pane \in Panes /\ moving.draft \in Draft
    BY <1>2 DEF IInv, MovingWasOpen, ResolvedTarget
  <2>2. /\ PerformRetarget(moving.pane, q, moving.draft) /\ moving' = Still
        /\ minted' = minted /\ made' = made /\ typed' = typed /\ doubled' = doubled
        /\ cloned' \in BOOLEAN
    BY <1>2 DEF ResolvedTarget, IInv, TypeOK
  <2>. QED  BY <2>1, <2>2, RetargetKeepsInv
<1>3. ASSUME NEW p \in Panes, NEW q \in Panes, ConfirmInstruction(p, q) PROVE IInv'
  <2>1. open[p] \in Draft
    BY <1>3 DEF ConfirmInstruction, IInv, TypeOK, IsOpen, NoDraft
  <2>2. /\ PerformRetarget(p, q, open[p]) /\ moving' = moving
        /\ minted' = minted /\ made' = made /\ typed' = typed /\ doubled' = doubled
        /\ cloned' \in BOOLEAN
    BY <1>3 DEF ConfirmInstruction, ghosts, IInv, TypeOK
  <2>. QED  BY <2>1, <2>2, RetargetKeepsInv
<1>4. ASSUME NEW p \in Panes,
             SendExecuted(p) \/ SendPending(p) \/ ProposeCommand(p) \/ Promote(p)
      PROVE  IInv'
  BY <1>4, SendExecutedKeepsInv, SendPendingKeepsInv, ProposeKeepsInv, PromoteKeepsInv
<1>5. ASSUME NEW s \in Sends, Approve(s) \/ Refuse(s) PROVE IInv'
  BY <1>5, ApproveKeepsInv, RefuseKeepsInv
<1>6. CASE UNCHANGED vars
  BY <1>6, StutterKeepsInv
<1>. QED  BY <1>1, <1>2, <1>3, <1>4, <1>5, <1>6, AwaitKeepsInv, RestartsKeepInv DEF Next

\* Every reachable state satisfies the invariant.
THEOREM Invariance == Spec => []IInv
<1>. QED  BY InitInv, NextKeepsInv, PTL DEF Spec

\* Every reachable state has its type.
THEOREM TypeCorrect == Spec => []TypeOK
<1>1. IInv => TypeOK
  BY DEF IInv
<1>. QED  BY <1>1, Invariance, PTL

\* For any panes and any number of drafts, sends, retargets and restarts, an
\* approval staged by send_instruction in this process offers the text the
\* pane's draft has now (draftRegistry.ts, invalidateOutstandingApproval).
THEOREM NoStaleOffer == Spec => []OffersCurrentText
<1>1. IInv => OffersCurrentText
  BY DEF IInv
<1>. QED  BY <1>1, Invariance, PTL

\* For the same instances, a pane that claims to await an approval has an open
\* draft, already sent at its version, and shares the approval with no pane.
THEOREM SoundClaims == Spec => []ClaimsAreSound
<1>1. IInv => ClaimsAreSound
  BY DEF IInv
<1>. QED  BY <1>1, Invariance, PTL
-----------------------------------------------------------------------------
(* No version is typed twice.  A draft that was typed is closed, and the    *)
(* identity of a closed draft never opens again in the same process: new    *)
(* drafts take fresh numbers, and a retarget that moves a draft which is    *)
(* not open any more counts as a clone.                                     *)

\* Every draft the program knows carries a number that was given out.
Numbered ==
    /\ \A p \in Panes : open[p].id \in 0..made
    /\ \A s \in DOMAIN row : row[s].id \in 0..made
    /\ moving.draft.id \in 0..made

\* A draft is open in one pane.
OpenOnce == \A p, q \in Panes : IsOpen(p) /\ open[p].id = open[q].id => p = q

TypedIsClosed ==
    \A t \in typed : t[2] \in 1..made /\ \A p \in Panes : open[p].id # t[2]

Once == Numbered /\ (cloned \/ (OpenOnce /\ TypedIsClosed /\ ~doubled))

\* What a step does to the identities that are open and to what was typed.
Untyped == UNCHANGED <<typed, doubled>>

Keeps == Untyped /\ made' = made /\ \A p \in Panes : open'[p].id \in {open[p].id, 0}

Opens(p) ==
    /\ Untyped /\ made' = made + 1
    /\ open'[p].id = made + 1
    /\ \A q \in Panes : q # p => open'[q].id = open[q].id

Moves(p, q) ==
    /\ Untyped /\ made' = made
    /\ p # q /\ ~IsOpen(q)
    /\ open'[p].id = 0 /\ open'[q].id = open[p].id
    /\ \A r \in Panes : r \notin {p, q} => open'[r].id = open[r].id

Types(p) ==
    /\ IsOpen(p) /\ made' = made
    /\ Type(p, open[p].id, open[p].ver)
    /\ open'[p].id = 0
    /\ \A q \in Panes : open'[q].id \in {open[q].id, 0}

LEMMA IdsAreNumbers ==
  ASSUME TypeOK
  PROVE  /\ made \in Nat
         /\ \A p \in Panes : open[p].id \in Nat /\ open[p] \in Draft \cup {NoDraft}
         /\ \A p \in Panes : IsOpen(p) => open[p] \in Draft
  BY BoundsAssumption DEF TypeOK, Draft, NoDraft, Ids, IsOpen

\* Each of these leaves a typed draft closed, and types no draft again.
LEMMA IdentityStep ==
  ASSUME TypeOK, Numbered, OpenOnce, TypedIsClosed, ~doubled,
         \/ Keeps
         \/ \E p \in Panes : Opens(p) \/ Types(p)
         \/ \E p, q \in Panes : Moves(p, q)
  PROVE  OpenOnce' /\ TypedIsClosed' /\ ~doubled'
<1>1. made \in Nat /\ \A p \in Panes : open[p].id \in 0..made
  BY IdsAreNumbers DEF Numbered
<1>2. CASE Keeps
  BY <1>1, <1>2 DEF Keeps, Untyped, OpenOnce, TypedIsClosed, IsOpen
<1>3. ASSUME NEW p \in Panes, Opens(p)
      PROVE  OpenOnce' /\ TypedIsClosed' /\ ~doubled'
  <2>1. \A t \in typed : t[2] \in 1..made /\ t[2] \in 1..(made + 1) /\ t[2] # made + 1
    BY <1>1 DEF TypedIsClosed
  <2>. QED  BY <1>1, <1>3, <2>1 DEF Opens, Untyped, OpenOnce, TypedIsClosed, IsOpen
<1>4. ASSUME NEW p \in Panes, Types(p)
      PROVE  OpenOnce' /\ TypedIsClosed' /\ ~doubled'
  <2>1. open[p].id \in 1..made
    BY <1>1, <1>4 DEF Types, IsOpen
  <2>2. <<p, open[p].id, open[p].ver>> \notin typed
    BY DEF TypedIsClosed
  <2>3. typed' = typed \cup {<<p, open[p].id, open[p].ver>>} /\ ~doubled'
    BY <1>4, <2>2 DEF Types, Type
  <2>4. OpenOnce'
    BY <1>4 DEF Types, OpenOnce, IsOpen
  <2>5. \A q \in Panes : open'[q].id # open[p].id
    BY <1>4 DEF Types, OpenOnce, IsOpen
  <2>6. TypedIsClosed'
    BY <1>4, <2>1, <2>3, <2>5 DEF Types, TypedIsClosed
  <2>. QED  BY <2>3, <2>4, <2>6
<1>5. ASSUME NEW p \in Panes, NEW q \in Panes, Moves(p, q)
      PROVE  OpenOnce' /\ TypedIsClosed' /\ ~doubled'
  BY <1>1, <1>5 DEF Moves, Untyped, OpenOnce, TypedIsClosed, IsOpen
<1>. QED  BY <1>2, <1>3, <1>4, <1>5

\* Rows are stamped with the draft that is open, or settled.
LEMMA RowsNumbered ==
  ASSUME TypeOK, Numbered,
         \/ UNCHANGED row
         \/ \E done : Settle(done)
         \/ NextSend \in Sends /\ \E p \in Panes, lane \in {"send", "command"} :
              row' = Mint(p, lane, "awaiting")
  PROVE  \A s \in DOMAIN row' : row'[s].id \in 0..made
<1>1. CASE UNCHANGED row
  BY <1>1 DEF Numbered
<1>2. CASE \E done : Settle(done)
  BY <1>2 DEF Numbered, Settle, Without
<1>3. ASSUME NEW p \in Panes, NEW lane \in {"send", "command"}, NextSend \in Sends,
             row' = Mint(p, lane, "awaiting")
      PROVE  \A s \in DOMAIN row' : row'[s].id \in 0..made
  <2>1. /\ DOMAIN row' = DOMAIN row \cup {NextSend}
        /\ row'[NextSend] = Stamp(p, lane, "awaiting")
        /\ \A s \in DOMAIN row : row'[s] = row[s]
    BY <1>3, MintAddsOne
  <2>2. Stamp(p, lane, "awaiting").id = open[p].id
    BY DEF Stamp
  <2>. QED  BY <2>1, <2>2 DEF Numbered
<1>. QED  BY <1>1, <1>2, <1>3

\* Boot leaves what was typed to the earlier process and says itself whether a
\* draft came back twice.
LEMMA BootOnce ==
  ASSUME TypeOK, NEW rows, NEW asks, Boot(rows, asks), DOMAIN rows \subseteq Nat,
         \A s \in DOMAIN rows : rows[s].id \in 0..made
  PROVE  Once'
<1>. DEFINE rec == Recovered(rows, asks)
<1>1. /\ row' = rec /\ moving' = Still /\ typed' = {} /\ doubled' = FALSE /\ made' = made
      /\ open' = [p \in Panes |-> RehydratedDraft(rec, Source(rec, p))]
      /\ cloned' = \E p, q \in Panes : p # q /\ open'[p].id # 0 /\ open'[p].id = open'[q].id
  BY DEF Boot
<1>2. /\ DOMAIN rec = DOMAIN rows
      /\ \A s \in DOMAIN rec : rec[s].id = rows[s].id
  <2>1. DOMAIN rec = DOMAIN rows
    BY DEF Recovered
  <2>2. ASSUME NEW s \in DOMAIN rows PROVE rec[s].id = rows[s].id
    BY <2>2 DEF Recovered
  <2>. QED  BY <2>1, <2>2
<1>3. made \in Nat /\ \A s \in DOMAIN rec : rec[s].id \in 0..made
  BY <1>2, IdsAreNumbers
<1>. HIDE DEF rec
<1>4. \A p \in Panes : open'[p].id \in 0..made
  <2>1. SUFFICES ASSUME NEW p \in Panes PROVE open'[p].id \in 0..made
    OBVIOUS
  <2>2. open'[p] = RehydratedDraft(rec, Source(rec, p))
    BY <1>1
  <2>3. CASE Source(rec, p) = 0
    BY <1>3, <2>2, <2>3 DEF RehydratedDraft, NoDraft
  <2>4. CASE Source(rec, p) # 0
    <3>1. Source(rec, p) \in DOMAIN rec
      BY <1>2, <2>4, SourceIsOwnRow
    <3>2. open'[p].id = rec[Source(rec, p)].id
      BY <2>2, <2>4 DEF RehydratedDraft
    <3>. QED  BY <1>3, <3>1, <3>2
  <2>. QED  BY <2>3, <2>4
<1>5. Numbered'
  BY <1>1, <1>3, <1>4 DEF Numbered, Still, NoDraft
<1>6. cloned' \/ OpenOnce'
  BY <1>1 DEF OpenOnce, IsOpen
<1>7. TypedIsClosed' /\ ~doubled'
  BY <1>1 DEF TypedIsClosed
<1>. QED  BY <1>5, <1>6, <1>7 DEF Once

\* The rows and the retarget in flight stay numbered, and the identities follow.
LEMMA StepOnce ==
  ASSUME TypeOK, Once, cloned => cloned',
         \/ Keeps
         \/ \E p \in Panes : Opens(p) \/ Types(p)
         \/ \E p, q \in Panes : Moves(p, q),
         \/ UNCHANGED row
         \/ \E done : Settle(done)
         \/ NextSend \in Sends /\ \E p \in Panes, lane \in {"send", "command"} :
              row' = Mint(p, lane, "awaiting"),
         moving'.draft.id \in 0..made
  PROVE  Once'
<1>1. made \in Nat /\ Numbered
  BY IdsAreNumbers DEF Once
<1>2. made' \in {made, made + 1} /\ \A n \in 0..made : n \in 0..made'
  BY <1>1 DEF Keeps, Opens, Types, Moves
<1>3. \A p \in Panes : open'[p].id \in 0..made'
  <2>1. CASE Keeps
    BY <1>1, <2>1 DEF Keeps, Numbered
  <2>2. CASE \E p \in Panes : Opens(p)
    BY <1>1, <2>2 DEF Opens, Numbered
  <2>3. CASE \E p \in Panes : Types(p)
    BY <1>1, <2>3 DEF Types, Numbered
  <2>4. CASE \E p, q \in Panes : Moves(p, q)
    BY <1>1, <2>4 DEF Moves, Numbered
  <2>. QED  BY <2>1, <2>2, <2>3, <2>4
<1>4. \A s \in DOMAIN row' : row'[s].id \in 0..made
  BY <1>1, RowsNumbered
<1>5. Numbered'
  BY <1>2, <1>3, <1>4 DEF Numbered
<1>6. CASE cloned
  BY <1>5, <1>6 DEF Once
<1>7. CASE ~cloned
  BY <1>1, <1>5, <1>7, IdentityStep DEF Once
<1>. QED  BY <1>6, <1>7

LEMMA EditsOnce ==
  ASSUME TypeOK, Once, NEW p \in Panes,
         \/ DraftInstruction(p) \/ ReviseInstruction(p) \/ CancelInstruction(p)
         \/ TypedEdit(p) \/ WorkbenchSend(p)
  PROVE  Once'
<1>1. open \in [Panes -> Draft \cup {NoDraft}] /\ moving.draft.id \in 0..made
  BY DEF TypeOK, Once, Numbered
<1>2. UNCHANGED <<moving, cloned>>
  BY DEF DraftInstruction, ReviseInstruction, CancelInstruction, TypedEdit, WorkbenchSend, ghosts
<1>3. CASE DraftInstruction(p) /\ ~IsOpen(p)
  <2>1. open' = [open EXCEPT ![p] = Created] /\ made' = made + 1 /\ UNCHANGED <<row, typed, doubled>>
    BY <1>3 DEF DraftInstruction, ghosts
  <2>2. Opens(p)
    BY <1>1, <2>1 DEF Opens, Untyped, Created
  <2>. QED  BY <1>1, <1>2, <2>1, <2>2, StepOnce
<1>4. CASE WorkbenchSend(p)
  <2>1. Types(p)
    BY <1>1, <1>4 DEF WorkbenchSend, Types, NoDraft
  <2>. QED  BY <1>1, <1>2, <1>4, <2>1, StepOnce DEF WorkbenchSend, Invalidate
<1>5. CASE \/ DraftInstruction(p) /\ IsOpen(p)
           \/ ReviseInstruction(p) \/ CancelInstruction(p) \/ TypedEdit(p)
  <2>1. /\ \/ open' = [open EXCEPT ![p] = Revised(open[p])]
           \/ open' = [open EXCEPT ![p] = NoDraft]
        /\ Invalidate(p) /\ Untyped /\ made' = made
    BY <1>1, <1>5
       DEF DraftInstruction, ReviseInstruction, CancelInstruction, TypedEdit, Untyped, ghosts
  <2>2. Keeps
    BY <1>1, <2>1 DEF Keeps, Revised, NoDraft
  <2>. QED  BY <1>1, <1>2, <2>1, <2>2, StepOnce DEF Invalidate
<1>. QED  BY <1>3, <1>4, <1>5

\* A retarget moves a draft that is still open, or counts as a clone.
LEMMA RetargetOnce ==
  ASSUME IInv, Once, NEW p \in Panes, NEW q \in Panes, NEW d \in Draft, PerformRetarget(p, q, d),
         d.id \in 0..made, Untyped, made' = made, moving' \in {moving, Still},
         cloned => cloned', open' # open /\ open[p] # d => cloned'
  PROVE  Once'
<1>1. /\ TypeOK /\ open \in [Panes -> Draft \cup {NoDraft}] /\ Numbered
      /\ moving'.draft.id \in 0..made
  BY IdsAreNumbers DEF IInv, TypeOK, Once, Numbered, Still, NoDraft
<1>2. CASE p = q \/ IsOpen(q)
  <2>1. UNCHANGED <<open, row>> /\ Keeps
    BY <1>2 DEF PerformRetarget, Keeps
  <2>. QED  BY <1>1, <2>1, StepOnce
<1>3. CASE ~(p = q \/ IsOpen(q))
  <2>1. open' = [open EXCEPT ![p] = NoDraft, ![q] = Revised(d)] /\ Settle(Withdrawn(p))
    BY <1>3 DEF PerformRetarget, Invalidate
  <2>2. /\ open'[p].id = 0 /\ open'[q].id = d.id
        /\ \A r \in Panes : r \notin {p, q} => open'[r].id = open[r].id
    BY <1>1, <1>3, <2>1 DEF Revised, NoDraft
  <2>3. CASE open[p] = d
    <3>1. Moves(p, q)
      BY <1>3, <2>2, <2>3 DEF Moves
    <3>. QED  BY <1>1, <2>1, <3>1, StepOnce
  <2>4. CASE open[p] # d
    <3>1. \A s \in DOMAIN row' : row'[s].id \in 0..made
      BY <1>1, <2>1, RowsNumbered
    <3>2. \A r \in Panes : open'[r].id \in 0..made
      BY <1>1, <2>2, IdsAreNumbers DEF Numbered
    <3>3. open' # open
      <4>1. d.id # 0 /\ open[q].id = 0
        BY <1>3, BoundsAssumption DEF Draft, Ids, IsOpen
      <4>. QED  BY <2>2, <4>1
    <3>. QED  BY <1>1, <2>4, <3>1, <3>2, <3>3 DEF Once, Numbered
  <2>. QED  BY <2>3, <2>4
<1>. QED  BY <1>2, <1>3

LEMMA SendsOnce ==
  ASSUME TypeOK, Once, NEW p \in Panes,
         SendExecuted(p) \/ SendPending(p) \/ ProposeCommand(p) \/ Promote(p)
  PROVE  Once'
<1>1. /\ open \in [Panes -> Draft \cup {NoDraft}] /\ moving.draft.id \in 0..made
      /\ UNCHANGED <<moving, cloned, made>>
  BY DEF TypeOK, Once, Numbered, SendExecuted, SendPending, ProposeCommand, Promote, ghosts
<1>2. CASE SendExecuted(p)
  <2>1. UNCHANGED row /\ Types(p)
    BY <1>1, <1>2 DEF SendExecuted, Types, NoDraft
  <2>. QED  BY <1>1, <2>1, StepOnce
<1>3. CASE SendPending(p)
  <2>1. NextSend \in Sends /\ row' = Mint(p, "send", "awaiting") /\ Keeps
    BY <1>1, <1>3 DEF SendPending, Keeps, Untyped, Marked, ghosts
  <2>. QED  BY <1>1, <2>1, StepOnce
<1>4. CASE ProposeCommand(p)
  <2>1. NextSend \in Sends /\ row' = Mint(p, "command", "awaiting") /\ Keeps
    BY <1>1, <1>4 DEF ProposeCommand, Keeps, Untyped, ghosts
  <2>. QED  BY <1>1, <2>1, StepOnce
<1>5. CASE Promote(p)
  <2>1. UNCHANGED row /\ Keeps
    BY <1>1, <1>5 DEF Promote, Keeps, Untyped, ghosts
  <2>. QED  BY <1>1, <2>1, StepOnce
<1>. QED  BY <1>2, <1>3, <1>4, <1>5

\* An approve types the draft its pane still has open, and closes it.
LEMMA ResolutionsOnce ==
  ASSUME IInv, Once, NEW s, Approve(s) \/ Refuse(s)
  PROVE  Once'
<1>1. /\ TypeOK /\ s \in ask /\ row[s] \in Row /\ s # 0
      /\ open \in [Panes -> Draft \cup {NoDraft}] /\ moving.draft.id \in 0..made
      /\ Settle({s}) /\ UNCHANGED <<moving, cloned, made>>
  BY BoundsAssumption DEF IInv, TypeOK, Once, Numbered, Approve, Refuse, Resolved, ghosts
<1>2. CASE \/ Refuse(s)
           \/ Approve(s) /\ ~(row[s].lane = "send" /\ s \in here)
  <2>1. Keeps
    BY <1>1, <1>2 DEF Approve, Refuse, Keeps, Untyped, NoDraft, ghosts
  <2>. QED  BY <1>1, <2>1, StepOnce
<1>3. CASE Approve(s) /\ row[s].lane = "send" /\ s \in here
  <2>1. /\ bound[row[s].pane] = [send |-> s, ver |-> row[s].ver]
        /\ open[row[s].pane].id = row[s].id
        /\ open[row[s].pane].ver = row[s].ver
    BY <1>3 DEF IInv, OffersCurrentText
  <2>2. PICK p \in Panes : p = row[s].pane
    BY <1>1 DEF Row
  <2>3. bound[p].send = s /\ open[p].id = row[s].id /\ open[p].ver = row[s].ver
    BY <2>1, <2>2
  <2>4. IsOpen(p) /\ p \in BoundTo(s)
    BY <1>1, <2>3 DEF IInv, ClaimsAreSound, BoundTo
  <2>5. open' = [q \in Panes |-> IF q \in BoundTo(s) THEN NoDraft ELSE open[q]]
    BY <1>3 DEF Approve
  <2>6. open'[p].id = 0 /\ \A q \in Panes : open'[q].id \in {open[q].id, 0}
    BY <2>4, <2>5 DEF NoDraft
  <2>7. Type(p, open[p].id, open[p].ver)
    BY <1>3, <2>2, <2>3 DEF Approve
  <2>8. Types(p)
    BY <1>1, <2>4, <2>6, <2>7 DEF Types
  <2>. QED  BY <1>1, <2>8, StepOnce
<1>. QED  BY <1>2, <1>3

LEMMA RestartsOnce ==
  ASSUME TypeOK, Once,
         \/ Restart
         \/ \E p \in Panes : CrashInSend(p)
         \/ \E s \in Sends : CrashInResolution(s)
  PROVE  Once'
<1>1. /\ Numbered /\ minted \in Nat /\ DOMAIN row \subseteq Nat
      /\ \A s \in DOMAIN row : row[s].id \in 0..made
  BY BoundsAssumption DEF Once, Numbered, TypeOK
<1>2. CASE Restart \/ \E s \in Sends : CrashInResolution(s)
  <2>1. \E asks : Boot(row, asks)
    BY <1>2 DEF Restart, CrashInResolution
  <2>. QED  BY <1>1, <2>1, BootOnce
<1>3. ASSUME NEW p \in Panes, CrashInSend(p) PROVE Once'
  <2>1. NextSend \in Sends /\ Boot(Mint(p, "send", "draft"), ask \cup {NextSend})
    BY <1>3 DEF CrashInSend
  <2>2. /\ DOMAIN Mint(p, "send", "draft") = DOMAIN row \cup {NextSend}
        /\ Mint(p, "send", "draft")[NextSend] = Stamp(p, "send", "draft")
        /\ \A s \in DOMAIN row : Mint(p, "send", "draft")[s] = row[s]
    BY <2>1, MintAddsOne
  <2>3. Stamp(p, "send", "draft").id \in 0..made
    BY <1>1 DEF Stamp, Numbered
  <2>4. \A s \in DOMAIN Mint(p, "send", "draft") : Mint(p, "send", "draft")[s].id \in 0..made
    BY <1>1, <2>2, <2>3
  <2>5. DOMAIN Mint(p, "send", "draft") \subseteq Nat
    BY <1>1, <2>2 DEF NextSend
  <2>. QED  BY <2>1, <2>4, <2>5, BootOnce
<1>. QED  BY <1>2, <1>3

LEMMA NextOnce == IInv /\ Once /\ [Next]_vars => Once'
<1>. SUFFICES ASSUME IInv, Once, [Next]_vars PROVE Once'
  OBVIOUS
<1>0. TypeOK /\ moving.draft.id \in 0..made
  BY DEF IInv, Once, Numbered
<1>1. ASSUME NEW q \in Panes, ResolvedTarget(q) PROVE Once'
  <2>1. moving.pane \in Panes /\ moving.draft \in Draft
    BY <1>1 DEF IInv, MovingWasOpen, ResolvedTarget
  <2>2. /\ PerformRetarget(moving.pane, q, moving.draft) /\ moving' = Still /\ Untyped
        /\ made' = made /\ (cloned => cloned') /\ (open' # open /\ open[moving.pane] # moving.draft => cloned')
    BY <1>1 DEF ResolvedTarget, Untyped
  <2>. QED  BY <1>0, <2>1, <2>2, RetargetOnce
<1>2. ASSUME NEW p \in Panes, NEW q \in Panes, ConfirmInstruction(p, q) PROVE Once'
  <2>1. open[p] \in Draft /\ open[p].id \in 0..made
    BY <1>0, <1>2, IdsAreNumbers DEF ConfirmInstruction, Once, Numbered
  <2>2. PerformRetarget(p, q, open[p]) /\ UNCHANGED <<moving, made, cloned>> /\ Untyped
    BY <1>2 DEF ConfirmInstruction, ghosts, Untyped
  <2>. QED  BY <2>1, <2>2, RetargetOnce
<1>3. ASSUME \/ \E p \in Panes : RetargetInstruction(p)
             \/ UnresolvedTarget \/ UNCHANGED vars
      PROVE  Once'
  <2>1. UNCHANGED <<open, made, row, cloned, typed, doubled>>
    BY <1>3 DEF RetargetInstruction, UnresolvedTarget, vars, ghosts
  <2>2. \/ moving' \in {moving, Still}
        \/ \E p \in Panes : moving'.draft = open[p]
    BY <1>3 DEF RetargetInstruction, UnresolvedTarget, vars
  <2>3. moving'.draft.id \in 0..made
    BY <1>0, <2>2, IdsAreNumbers DEF Once, Numbered, Still, NoDraft
  <2>. QED  BY <1>0, <2>1, <2>3, StepOnce DEF Keeps, Untyped
<1>. QED  BY <1>0, <1>1, <1>2, <1>3, EditsOnce, SendsOnce, ResolutionsOnce, RestartsOnce DEF Next

\* For any panes and bounds, and as long as no draft was cloned, the sends of one
\* process type a version of a draft at most once (recordSend,
\* settleEnvelopeDraftOnOperatorSend, draftRegistry.ts).
THEOREM NothingTwice == Spec => []TypedOnce
<1>1. Init => Once
  <2>. SUFFICES ASSUME Init PROVE Once
    OBVIOUS
  <2>1. /\ \A p \in Panes : open[p].id = 0
        /\ made = 0 /\ DOMAIN row = {} /\ moving.draft.id = 0 /\ typed = {} /\ doubled = FALSE
    BY DEF Init, NoDraft, Still
  <2>2. 0 \in 0..made
    BY <2>1
  <2>3. Numbered /\ OpenOnce /\ TypedIsClosed
    BY <2>1, <2>2 DEF Numbered, OpenOnce, TypedIsClosed, IsOpen
  <2>. QED  BY <2>1, <2>3 DEF Once
<1>2. Once => TypedOnce
  BY DEF Once, TypedOnce
<1>. QED  BY <1>1, <1>2, NextOnce, Invariance, PTL DEF Spec
=============================================================================
