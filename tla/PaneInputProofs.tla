-------------------------- MODULE PaneInputProofs --------------------------
(***************************************************************************)
(* What a pane is given to type, for any inputs, any number of processes   *)
(* and any calls that meet: nothing is typed twice, and an Enter follows   *)
(* the body of its own command; and the types of the pane, its observer    *)
(* and its group.                                                          *)
(*                                                                         *)
(* The argument: an input waits in one place, the pending commands, the    *)
(* pending bytes or the chain, and leaves it for good when it is typed;    *)
(* the command between its body and its Enter keeps the chain from moving. *)
(***************************************************************************)
EXTENDS PaneTerminalProofs, FiniteSetTheorems

Kinds == {"body", "enter", "raw"}
Bytes == [what : Kinds, id : Inputs]

InputTypes ==
  /\ queue \in [submit : Seq(Inputs), raw : Seq(Inputs)]
  /\ chain \in Seq(Inputs)
  /\ gap \in {Nil} \cup [id : Inputs, at : Procs]
  /\ typed \in [Procs -> Seq(Bytes)]
  /\ used \subseteq Inputs

Elems(s) == {s[k] : k \in DOMAIN s}
Distinct(s) == \A j, k \in DOMAIN s : s[j] = s[k] => j = k

Waiting == Elems(queue.submit) \cup Elems(queue.raw) \cup Elems(chain)

\* An accepted input waits in one place, once.
InLine ==
  /\ Distinct(queue.submit) /\ Distinct(queue.raw) /\ Distinct(chain)
  /\ Elems(queue.submit) \cap Elems(queue.raw) = {}
  /\ Elems(chain) \cap (Elems(queue.submit) \cup Elems(queue.raw)) = {}
  /\ Waiting \subseteq used

\* What was typed, in part or whole, waits no more.
Spent == \A g \in Procs : \A k \in DOMAIN typed[g] : typed[g][k].id \in used \ Waiting

\* The body s ends in, up to raw bytes.
EndsInBody(s, i) ==
  \E j \in DOMAIN s :
    /\ s[j] = Byte("body", i)
    /\ \A l \in DOMAIN s : l > j => s[l].what = "raw"

\* The command between its body and its Enter.
GapOpen ==
  gap # Nil =>
    /\ \A g \in Procs : \A k \in DOMAIN typed[g] : typed[g][k] # Byte("enter", gap.id)
    /\ EndsInBody(typed[gap.at], gap.id)

InputInv ==
  /\ InputTypes /\ InLine /\ Spent /\ GapOpen
  /\ EnterFollowsBody /\ TypedAtMostOncePerInput

-----------------------------------------------------------------------------
(* Sequences without repetitions. *)

LEMMA CatParts ==
  ASSUME NEW S, NEW s \in Seq(S), NEW t \in Seq(S)
  PROVE  /\ s \o t \in Seq(S)
         /\ DOMAIN (s \o t) = 1..(Len(s) + Len(t))
         /\ DOMAIN s = 1..Len(s) /\ DOMAIN t = 1..Len(t)
         /\ Len(s) \in Nat /\ Len(t) \in Nat
         /\ \A k \in 1..Len(s) : (s \o t)[k] = s[k]
         /\ \A k \in 1..Len(t) : (s \o t)[Len(s) + k] = t[k]
         /\ \A k \in DOMAIN (s \o t) : k \in 1..Len(s) \/ k - Len(s) \in 1..Len(t)
         /\ \A k \in DOMAIN (s \o t) : k \notin 1..Len(s) => (s \o t)[k] = t[k - Len(s)]
OBVIOUS

LEMMA CatDistinct ==
  ASSUME NEW S, NEW s \in Seq(S), NEW t \in Seq(S)
  PROVE  /\ Elems(s \o t) = Elems(s) \cup Elems(t)
         /\ Distinct(s) /\ Distinct(t) /\ Elems(s) \cap Elems(t) = {} => Distinct(s \o t)
<1>1. Elems(s \o t) \subseteq Elems(s) \cup Elems(t)
  BY CatParts DEF Elems
<1>2. Elems(s) \subseteq Elems(s \o t)
  <2>1. \A k \in DOMAIN s : k \in DOMAIN (s \o t) /\ (s \o t)[k] = s[k]
    BY CatParts
  <2>. QED  BY <2>1 DEF Elems
<1>3. Elems(t) \subseteq Elems(s \o t)
  <2>1. \A k \in DOMAIN t : Len(s) + k \in DOMAIN (s \o t) /\ (s \o t)[Len(s) + k] = t[k]
    BY CatParts
  <2>. QED  BY <2>1 DEF Elems
<1>4. ASSUME Distinct(s), Distinct(t), Elems(s) \cap Elems(t) = {},
             NEW j \in DOMAIN (s \o t), NEW k \in DOMAIN (s \o t), (s \o t)[j] = (s \o t)[k]
      PROVE  j = k
  <2>0. Len(s) \in Nat /\ Len(t) \in Nat /\ DOMAIN (s \o t) = 1..(Len(s) + Len(t))
    BY CatParts
  <2>1. CASE j \in 1..Len(s) /\ k \in 1..Len(s)
    BY <1>4, <2>1, CatParts DEF Distinct
  <2>2. CASE j \notin 1..Len(s) /\ k \notin 1..Len(s)
    <3>1. /\ j - Len(s) \in DOMAIN t /\ k - Len(s) \in DOMAIN t
          /\ t[j - Len(s)] = t[k - Len(s)]
      BY <1>4, <2>2, CatParts
    <3>2. j - Len(s) = k - Len(s)
      BY <1>4, <3>1 DEF Distinct
    <3>. QED  BY <2>0, <3>2
  <2>3. CASE j \in 1..Len(s) /\ k \notin 1..Len(s)
    <3>1. (s \o t)[j] \in Elems(s) /\ (s \o t)[k] \in Elems(t)
      BY <2>3, CatParts DEF Elems
    <3>. QED  BY <1>4, <3>1
  <2>4. CASE j \notin 1..Len(s) /\ k \in 1..Len(s)
    <3>1. (s \o t)[j] \in Elems(t) /\ (s \o t)[k] \in Elems(s)
      BY <2>4, CatParts DEF Elems
    <3>. QED  BY <1>4, <3>1
  <2>. QED  BY <2>1, <2>2, <2>3, <2>4
<1>. QED  BY <1>1, <1>2, <1>3, <1>4 DEF Distinct

LEMMA AppendIsCat ==
  ASSUME NEW S, NEW s \in Seq(S), NEW e \in S
  PROVE  /\ Append(s, e) = s \o <<e>> /\ <<e>> \in Seq(S)
         /\ Elems(<<e>>) = {e} /\ Distinct(<<e>>)
<1>1. Append(s, e) = s \o <<e>> /\ <<e>> \in Seq(S)
  OBVIOUS
<1>2. DOMAIN <<e>> = {1} /\ <<e>>[1] = e
  OBVIOUS
<1>. QED  BY <1>1, <1>2 DEF Elems, Distinct

LEMMA AppendDistinct ==
  ASSUME NEW S, NEW s \in Seq(S), NEW e \in S
  PROVE  /\ Append(s, e) \in Seq(S)
         /\ Elems(Append(s, e)) = Elems(s) \cup {e}
         /\ Distinct(s) /\ e \notin Elems(s) => Distinct(Append(s, e))
<1>1. /\ Append(s, e) = s \o <<e>> /\ <<e>> \in Seq(S)
      /\ Elems(<<e>>) = {e} /\ Distinct(<<e>>)
  BY AppendIsCat
<1>2. /\ Elems(s \o <<e>>) = Elems(s) \cup Elems(<<e>>)
      /\ Distinct(s) /\ Distinct(<<e>>) /\ Elems(s) \cap Elems(<<e>>) = {}
           => Distinct(s \o <<e>>)
  BY <1>1, CatDistinct
<1>3. Append(s, e) \in Seq(S)
  OBVIOUS
<1>. QED  BY <1>1, <1>2, <1>3

LEMMA TailDistinct ==
  ASSUME NEW S, NEW s \in Seq(S), s # <<>>
  PROVE  /\ Head(s) \in Elems(s) /\ Head(s) \in S /\ Tail(s) \in Seq(S)
         /\ Elems(Tail(s)) \subseteq Elems(s)
         /\ Distinct(s) => Distinct(Tail(s)) /\ Head(s) \notin Elems(Tail(s))
<1>1. /\ Len(s) \in Nat /\ DOMAIN s = 1..Len(s) /\ 1 \in DOMAIN s /\ Head(s) = s[1]
      /\ Tail(s) \in Seq(S)
      /\ \A k \in DOMAIN Tail(s) : k \in Nat /\ k + 1 \in DOMAIN s /\ Tail(s)[k] = s[k + 1] /\ k + 1 # 1
  OBVIOUS
<1>2. \A j, k \in DOMAIN Tail(s) : j + 1 = k + 1 => j = k
  BY <1>1
<1>. QED  BY <1>1, <1>2 DEF Elems, Distinct

LEMMA EmptyDistinct ==
  /\ NoInput.submit = <<>> /\ NoInput.raw = <<>>
  /\ Elems(<<>>) = {} /\ Distinct(<<>>)
BY DEF NoInput, Elems, Distinct

-----------------------------------------------------------------------------
(* What a process is given. *)

\* Bytes that were never typed are added to what one process was given.  An Enter
\* comes alone, after the body of its command.
LEMMA Extended ==
  ASSUME typed \in [Procs -> Seq(Bytes)], EnterFollowsBody, TypedAtMostOncePerInput,
         NEW t \in Procs, NEW new \in Seq(Bytes), Distinct(new),
         typed' = [typed EXCEPT ![t] = typed[t] \o new],
         \A g \in Procs : \A k \in DOMAIN typed[g], j \in DOMAIN new : typed[g][k] # new[j],
         \A j \in DOMAIN new : new[j].what = "enter" =>
           j = 1 /\ EndsInBody(typed[t], new[j].id)
  PROVE  /\ typed' \in [Procs -> Seq(Bytes)]
         /\ EnterFollowsBody' /\ TypedAtMostOncePerInput'
<1>. DEFINE n == Len(typed[t])
            s == typed[t]
<1>0. s \in Seq(Bytes)
  OBVIOUS
<1>1. /\ n \in Nat /\ DOMAIN s = 1..n /\ DOMAIN new = 1..Len(new) /\ Len(new) \in Nat
      /\ s \o new \in Seq(Bytes)
      /\ DOMAIN (s \o new) = 1..(n + Len(new))
      /\ \A k \in 1..n : (s \o new)[k] = s[k]
      /\ \A k \in DOMAIN (s \o new) : k \in 1..n \/ k - n \in DOMAIN new
      /\ \A k \in DOMAIN (s \o new) : k \notin 1..n => (s \o new)[k] = new[k - n]
  BY <1>0, CatParts
<1>2. /\ typed' \in [Procs -> Seq(Bytes)] /\ typed'[t] = s \o new
      /\ \A g \in Procs : g # t => typed'[g] = typed[g]
  BY <1>1
<1>3. EnterFollowsBody'
  <2>1. SUFFICES ASSUME NEW g \in Procs, NEW k \in DOMAIN typed'[g], typed'[g][k].what = "enter"
                 PROVE  \E j \in 1..(k - 1) :
                          /\ typed'[g][j] = Byte("body", typed'[g][k].id)
                          /\ \A l \in (j + 1)..(k - 1) : typed'[g][l].what = "raw"
    BY DEF EnterFollowsBody
  <2>2. CASE g # t
    BY <1>2, <2>1, <2>2 DEF EnterFollowsBody
  <2>3. CASE g = t /\ k \in 1..n
    <3>1. s[k] = typed'[g][k] /\ k \in DOMAIN s
      BY <1>1, <1>2, <2>3
    <3>2. PICK j \in 1..(k - 1) : /\ s[j] = Byte("body", s[k].id)
                                  /\ \A l \in (j + 1)..(k - 1) : s[l].what = "raw"
      BY <2>1, <3>1 DEF EnterFollowsBody
    <3>3. \A l \in 1..(k - 1) : l \in 1..n /\ typed'[g][l] = s[l]
      BY <1>1, <1>2, <2>3
    <3>4. \A l \in (j + 1)..(k - 1) : l \in 1..(k - 1)
      BY <2>3
    <3>. QED  BY <3>1, <3>2, <3>3, <3>4
  <2>4. CASE g = t /\ k \notin 1..n
    <3>1. /\ k \in DOMAIN (s \o new) /\ k - n \in DOMAIN new /\ typed'[g][k] = new[k - n]
      BY <1>1, <1>2, <2>1, <2>4
    <3>2. k - n = 1 /\ EndsInBody(s, typed'[g][k].id)
      BY <2>1, <3>1
    <3>3. k = n + 1
      BY <1>1, <3>1, <3>2
    <3>4. PICK j \in DOMAIN s : /\ s[j] = Byte("body", typed'[g][k].id)
                                /\ \A l \in DOMAIN s : l > j => s[l].what = "raw"
      BY <3>2 DEF EndsInBody
    <3>5. \A l \in 1..n : typed'[g][l] = s[l]
      BY <1>1, <1>2, <2>4
    <3>6. j \in 1..(k - 1) /\ \A l \in (j + 1)..(k - 1) : l \in 1..n /\ l > j
      BY <1>1, <3>3, <3>4
    <3>7. typed'[g][j] = Byte("body", typed'[g][k].id)
      BY <1>1, <3>4, <3>5
    <3>8. \A l \in (j + 1)..(k - 1) : typed'[g][l].what = "raw"
      BY <1>1, <3>4, <3>5, <3>6
    <3>. QED  BY <3>6, <3>7, <3>8
  <2>. QED  BY <2>2, <2>3, <2>4
<1>4. TypedAtMostOncePerInput'
  <2>1. SUFFICES ASSUME NEW g \in Procs, NEW h \in Procs,
                        NEW j \in DOMAIN typed'[g], NEW k \in DOMAIN typed'[h],
                        typed'[g][j] = typed'[h][k]
                 PROVE  g = h /\ j = k
    BY DEF TypedAtMostOncePerInput
  <2>. DEFINE old(p, x) == p # t \/ x \in 1..n
  <2>2. /\ old(g, j) => j \in DOMAIN typed[g] /\ typed'[g][j] = typed[g][j]
        /\ old(h, k) => k \in DOMAIN typed[h] /\ typed'[h][k] = typed[h][k]
    BY <1>1, <1>2
  <2>3. /\ ~old(g, j) => g = t /\ j - n \in DOMAIN new /\ typed'[g][j] = new[j - n] /\ j \in Nat
        /\ ~old(h, k) => h = t /\ k - n \in DOMAIN new /\ typed'[h][k] = new[k - n] /\ k \in Nat
    BY <1>1, <1>2
  <2>. HIDE DEF old
  <2>4. CASE old(g, j) /\ old(h, k)
    BY <2>1, <2>2, <2>4 DEF TypedAtMostOncePerInput
  <2>5. CASE old(g, j) /\ ~old(h, k)
    BY <2>1, <2>2, <2>3, <2>5
  <2>6. CASE ~old(g, j) /\ old(h, k)
    BY <2>1, <2>2, <2>3, <2>6
  <2>7. CASE ~old(g, j) /\ ~old(h, k)
    <3>1. new[j - n] = new[k - n] /\ j - n \in DOMAIN new /\ k - n \in DOMAIN new
      BY <2>1, <2>3, <2>7
    <3>2. j - n = k - n
      BY <3>1 DEF Distinct
    <3>. QED  BY <1>1, <2>3, <2>7, <3>2
  <2>. QED  BY <2>4, <2>5, <2>6, <2>7
<1>. QED  BY <1>2, <1>3, <1>4

\* Raw bytes added behind a body keep it the last body.
LEMMA RawKeepsBody ==
  ASSUME NEW s \in Seq(Bytes), NEW new \in Seq(Bytes), NEW i, EndsInBody(s, i),
         \A j \in DOMAIN new : new[j].what = "raw"
  PROVE  EndsInBody(s \o new, i)
<1>1. PICK j \in DOMAIN s : s[j] = Byte("body", i) /\ \A l \in DOMAIN s : l > j => s[l].what = "raw"
  BY DEF EndsInBody
<1>2. j \in DOMAIN (s \o new) /\ (s \o new)[j] = s[j]
  BY CatParts
<1>3. ASSUME NEW l \in DOMAIN (s \o new), l > j PROVE (s \o new)[l].what = "raw"
  <2>1. CASE l \in 1..Len(s)
    BY <1>1, <1>3, <2>1, CatParts
  <2>2. CASE l \notin 1..Len(s)
    BY <1>3, <2>2, CatParts
  <2>. QED  BY <2>1, <2>2
<1>. QED  BY <1>1, <1>2, <1>3 DEF EndsInBody

\* Of what the processes were given after that, each byte is an old or a new one.
LEMMA GivenParts ==
  ASSUME typed \in [Procs -> Seq(Bytes)], NEW t \in Procs, NEW new \in Seq(Bytes),
         typed' = [typed EXCEPT ![t] = typed[t] \o new]
  PROVE  /\ typed'[t] = typed[t] \o new
         /\ \A g \in Procs : g # t => typed'[g] = typed[g]
         /\ \A g \in Procs : \A k \in DOMAIN typed'[g] :
              \/ k \in DOMAIN typed[g] /\ typed'[g][k] = typed[g][k]
              \/ \E j \in DOMAIN new : typed'[g][k] = new[j]
<1>1. typed'[t] = typed[t] \o new /\ \A g \in Procs : g # t => typed'[g] = typed[g]
  OBVIOUS
<1>2. typed[t] \in Seq(Bytes)
  OBVIOUS
<1>3. ASSUME NEW k \in DOMAIN typed'[t]
      PROVE  \/ k \in DOMAIN typed[t] /\ typed'[t][k] = typed[t][k]
             \/ \E j \in DOMAIN new : typed'[t][k] = new[j]
  <2>1. CASE k \in 1..Len(typed[t])
    BY <1>1, <1>2, <1>3, <2>1, CatParts
  <2>2. CASE k \notin 1..Len(typed[t])
    <3>1. k - Len(typed[t]) \in DOMAIN new /\ typed'[t][k] = new[k - Len(typed[t])]
      BY <1>1, <1>2, <1>3, <2>2, CatParts
    <3>. QED  BY <3>1
  <2>. QED  BY <2>1, <2>2
<1>. QED  BY <1>1, <1>3

LEMMA OneByte ==
  ASSUME typed \in [Procs -> Seq(Bytes)], EnterFollowsBody, TypedAtMostOncePerInput,
         NEW t \in Procs, NEW b \in Bytes,
         typed' = [typed EXCEPT ![t] = Append(typed[t], b)],
         \A g \in Procs : \A k \in DOMAIN typed[g] : typed[g][k] # b,
         b.what = "enter" => EndsInBody(typed[t], b.id)
  PROVE  /\ typed' \in [Procs -> Seq(Bytes)]
         /\ EnterFollowsBody' /\ TypedAtMostOncePerInput'
         /\ typed'[t] = typed[t] \o <<b>> /\ <<b>> \in Seq(Bytes)
         /\ \A g \in Procs : g # t => typed'[g] = typed[g]
         /\ \A g \in Procs : \A k \in DOMAIN typed'[g] :
              \/ k \in DOMAIN typed[g] /\ typed'[g][k] = typed[g][k]
              \/ typed'[g][k] = b
<1>0. typed[t] \in Seq(Bytes)
  OBVIOUS
<1>1. /\ typed' = [typed EXCEPT ![t] = typed[t] \o <<b>>]
      /\ <<b>> \in Seq(Bytes) /\ Distinct(<<b>>)
  BY <1>0, AppendIsCat
<1>2. DOMAIN <<b>> = {1} /\ <<b>>[1] = b
  OBVIOUS
<1>3. /\ typed'[t] = typed[t] \o <<b>>
      /\ \A g \in Procs : g # t => typed'[g] = typed[g]
      /\ \A g \in Procs : \A k \in DOMAIN typed'[g] :
           \/ k \in DOMAIN typed[g] /\ typed'[g][k] = typed[g][k]
           \/ \E j \in DOMAIN <<b>> : typed'[g][k] = <<b>>[j]
  BY <1>1, GivenParts
<1>4. typed' \in [Procs -> Seq(Bytes)] /\ EnterFollowsBody' /\ TypedAtMostOncePerInput'
  <2>1. PICK new \in Seq(Bytes) : new = <<b>>
    BY <1>1
  <2>2. \A j \in DOMAIN new : j = 1 /\ new[j] = b
    BY <1>2, <2>1
  <2>3. Distinct(new) /\ typed' = [typed EXCEPT ![t] = typed[t] \o new]
    BY <1>1, <2>1
  <2>4. \A g \in Procs : \A k \in DOMAIN typed[g], j \in DOMAIN new : typed[g][k] # new[j]
    BY <2>2
  <2>5. \A j \in DOMAIN new : new[j].what = "enter" => j = 1 /\ EndsInBody(typed[t], new[j].id)
    BY <2>2
  <2>. QED  BY <2>3, <2>4, <2>5, Extended
<1>. QED  BY <1>1, <1>2, <1>3, <1>4

\* A body just typed is the last one.
LEMMA BodyIsLast ==
  ASSUME NEW s \in Seq(Bytes), NEW i, Byte("body", i) \in Bytes
  PROVE  EndsInBody(s \o <<Byte("body", i)>>, i)
<1>. DEFINE b == Byte("body", i)
<1>1. /\ <<b>> \in Seq(Bytes) /\ Len(<<b>>) = 1 /\ <<b>>[1] = b /\ 1 \in 1..Len(<<b>>)
  OBVIOUS
<1>. HIDE DEF b
<1>2. /\ Len(s) + 1 \in DOMAIN (s \o <<b>>) /\ (s \o <<b>>)[Len(s) + 1] = b
      /\ \A l \in DOMAIN (s \o <<b>>) : ~(l > Len(s) + 1)
  BY <1>1, CatParts
<1>. QED  BY <1>2 DEF EndsInBody, b

-----------------------------------------------------------------------------
(* The steps of the input. *)

LEMMA GapTyped ==
  ASSUME InputTypes, gap # Nil
  PROVE  gap.id \in Inputs /\ gap.at \in Procs
BY DEF InputTypes

\* What waits, waits no longer or newly arrived; nothing is typed.
LEMMA UntypedStep ==
  ASSUME InputInv, InputTypes', InLine', UNCHANGED typed, gap' \in {gap, Nil},
         used \subseteq used', Waiting' \ Waiting \subseteq used' \ used
  PROVE  InputInv'
<1>1. EnterFollowsBody' /\ TypedAtMostOncePerInput'
  BY DEF InputInv, EnterFollowsBody, TypedAtMostOncePerInput
<1>2. Spent'
  BY DEF InputInv, Spent
<1>3. GapOpen'
  BY DEF InputInv, GapOpen
<1>. QED  BY <1>1, <1>2, <1>3 DEF InputInv

LEMMA WriteInputKeeps ==
  ASSUME InputInv, NEW i \in Inputs, WriteInput(i)
  PROVE  InputInv'
<1>1. InputTypes /\ InLine /\ i \notin used /\ i \notin Waiting
  BY DEF InputInv, WriteInput, InLine
<1>2. used' = used \cup {i} /\ UNCHANGED <<gap, typed>>
  BY DEF WriteInput
<1>3. CASE chain' = Append(chain, i) /\ UNCHANGED queue
  <2>1. /\ chain' \in Seq(Inputs) /\ Elems(chain') = Elems(chain) \cup {i}
        /\ Distinct(chain')
    BY <1>1, <1>3, AppendDistinct DEF InputTypes, InLine, Waiting
  <2>2. Waiting' = Waiting \cup {i}
    BY <1>3, <2>1 DEF Waiting
  <2>3. InLine'
    BY <1>1, <1>2, <1>3, <2>1, <2>2 DEF InLine, Waiting
  <2>4. InputTypes'
    BY <1>1, <1>2, <1>3, <2>1 DEF InputTypes
  <2>. QED  BY <1>1, <1>2, <2>2, <2>3, <2>4, UntypedStep
<1>4. CASE queue' = [queue EXCEPT !.submit = Append(@, i)] /\ UNCHANGED chain
  <2>1. /\ queue.submit \in Seq(Inputs) /\ queue'.submit = Append(queue.submit, i)
        /\ queue'.raw = queue.raw /\ i \notin Elems(queue.submit)
    BY <1>1, <1>4 DEF InputTypes, Waiting
  <2>2. /\ queue'.submit \in Seq(Inputs) /\ Elems(queue'.submit) = Elems(queue.submit) \cup {i}
        /\ Distinct(queue'.submit)
    BY <1>1, <2>1, AppendDistinct DEF InLine
  <2>3. Waiting' = Waiting \cup {i}
    BY <1>4, <2>1, <2>2 DEF Waiting
  <2>4. InLine'
    BY <1>1, <1>2, <1>4, <2>1, <2>2, <2>3 DEF InLine, Waiting
  <2>5. InputTypes'
    BY <1>1, <1>2, <1>4, <2>2 DEF InputTypes
  <2>. QED  BY <1>1, <1>2, <2>3, <2>4, <2>5, UntypedStep
<1>. QED  BY <1>3, <1>4 DEF WriteInput

\* One more byte of an input that waited or just arrived, and waits no longer.
LEMMA TypedStep ==
  ASSUME InputInv, NEW t \in Procs, NEW b \in Bytes, b.what # "enter",
         b.what = "body" => gap = Nil,
         typed' = [typed EXCEPT ![t] = Append(@, b)],
         InputTypes', InLine', used \subseteq used', Waiting' \subseteq Waiting,
         b.id \in used', b.id \notin used \/ b.id \in Waiting, b.id \notin Waiting',
         \/ gap' = gap
         \/ b.what = "body" /\ gap' = [id |-> b.id, at |-> t]
  PROVE  InputInv'
<1>1. typed \in [Procs -> Seq(Bytes)] /\ typed[t] \in Seq(Bytes)
  BY DEF InputInv, InputTypes
<1>2. \A g \in Procs : \A k \in DOMAIN typed[g] : typed[g][k].id # b.id
  BY DEF InputInv, Spent
<1>3. /\ EnterFollowsBody' /\ TypedAtMostOncePerInput'
      /\ typed'[t] = typed[t] \o <<b>> /\ <<b>> \in Seq(Bytes)
      /\ \A g \in Procs : g # t => typed'[g] = typed[g]
      /\ \A g \in Procs : \A k \in DOMAIN typed'[g] :
           \/ k \in DOMAIN typed[g] /\ typed'[g][k] = typed[g][k]
           \/ typed'[g][k] = b
  <2>1. typed' = [typed EXCEPT ![t] = Append(typed[t], b)]
    OBVIOUS
  <2>2. \A g \in Procs : \A k \in DOMAIN typed[g] : typed[g][k] # b
    BY <1>2
  <2>3. b.what = "enter" => EndsInBody(typed[t], b.id)
    OBVIOUS
  <2>4. EnterFollowsBody /\ TypedAtMostOncePerInput
    BY DEF InputInv
  <2>. QED  BY <1>1, <2>1, <2>2, <2>3, <2>4, OneByte
<1>4. Spent'
  BY <1>3 DEF InputInv, Spent
<1>5. GapOpen'
  <2>1. CASE gap' = gap
    <3>1. SUFFICES ASSUME gap # Nil
                   PROVE  /\ \A g \in Procs : \A k \in DOMAIN typed'[g] :
                               typed'[g][k] # Byte("enter", gap.id)
                          /\ EndsInBody(typed'[gap.at], gap.id)
      BY <2>1 DEF GapOpen
    <3>2. \A g \in Procs : \A k \in DOMAIN typed'[g] : typed'[g][k] # Byte("enter", gap.id)
      BY <1>3, <3>1 DEF InputInv, GapOpen, Byte
    <3>3. b.what = "raw" /\ gap.at \in Procs /\ EndsInBody(typed[gap.at], gap.id)
      BY <3>1, GapTyped DEF InputInv, GapOpen, Bytes, Kinds
    <3>4. CASE gap.at = t
      <4>1. PICK new \in Seq(Bytes) : new = <<b>>
        BY <1>3
      <4>2. \A j \in DOMAIN new : new[j].what = "raw"
        BY <3>3, <4>1
      <4>3. EndsInBody(typed[t], gap.id)
        BY <3>3, <3>4
      <4>4. EndsInBody(typed[t] \o new, gap.id)
        BY <1>1, <4>2, <4>3, RawKeepsBody
      <4>. QED  BY <1>3, <3>2, <3>4, <4>1, <4>4
    <3>5. CASE gap.at # t
      BY <1>3, <3>2, <3>3, <3>5
    <3>. QED  BY <3>4, <3>5
  <2>2. CASE b.what = "body" /\ gap' = [id |-> b.id, at |-> t]
    <3>1. b = Byte("body", b.id) /\ gap'.id = b.id /\ gap'.at = t
      BY <2>2 DEF Bytes, Byte
    <3>2. EndsInBody(typed'[t], b.id)
      <4>1. PICK i \in Inputs : i = b.id
        BY DEF Bytes
      <4>2. EndsInBody(typed[t] \o <<Byte("body", i)>>, i)
        BY <1>1, <3>1, <4>1, BodyIsLast
      <4>. QED  BY <1>3, <3>1, <4>1, <4>2
    <3>3. \A g \in Procs : \A k \in DOMAIN typed'[g] : typed'[g][k] # Byte("enter", b.id)
      BY <1>2, <1>3, <2>2 DEF Byte
    <3>. QED  BY <3>1, <3>2, <3>3 DEF GapOpen
  <2>. QED  BY <2>1, <2>2
<1>. QED  BY <1>3, <1>4, <1>5 DEF InputInv

LEMMA WriteRawKeeps ==
  ASSUME InputInv, transport \in 0..MaxSpawns, NEW i \in Inputs, WriteRaw(i)
  PROVE  InputInv'
<1>1. InputTypes /\ InLine /\ i \notin used /\ i \notin Waiting
  BY DEF InputInv, WriteRaw, InLine
<1>2. used' = used \cup {i} /\ UNCHANGED <<gap, chain>>
  BY DEF WriteRaw
<1>3. CASE ~ready
  <2>1. /\ queue' = [queue EXCEPT !.raw = Append(@, i)] /\ UNCHANGED typed
    BY <1>3 DEF WriteRaw
  <2>2. /\ queue.raw \in Seq(Inputs) /\ queue'.raw = Append(queue.raw, i)
        /\ queue'.submit = queue.submit /\ i \notin Elems(queue.raw)
    BY <1>1, <2>1 DEF InputTypes, Waiting
  <2>3. /\ queue'.raw \in Seq(Inputs) /\ Elems(queue'.raw) = Elems(queue.raw) \cup {i}
        /\ Distinct(queue'.raw)
    BY <1>1, <2>2, AppendDistinct DEF InLine
  <2>4. Waiting' = Waiting \cup {i}
    BY <1>2, <2>2, <2>3 DEF Waiting
  <2>5. InLine'
    BY <1>1, <1>2, <2>2, <2>3, <2>4 DEF InLine, Waiting
  <2>6. InputTypes'
    BY <1>1, <1>2, <2>1, <2>3 DEF InputTypes
  <2>. QED  BY <1>1, <1>2, <2>1, <2>4, <2>5, <2>6, UntypedStep
<1>4. CASE ready
  <2>1. UNCHANGED queue
    BY <1>4 DEF WriteRaw
  <2>2. InLine' /\ Waiting' = Waiting
    BY <1>1, <1>2, <2>1 DEF InLine, Waiting
  <2>3. CASE transport = 0
    <3>1. UNCHANGED typed
      BY <2>3 DEF WriteRaw
    <3>2. InputTypes'
      BY <1>1, <1>2, <2>1, <3>1 DEF InputTypes
    <3>. QED  BY <1>1, <1>2, <2>2, <3>1, <3>2, UntypedStep
  <2>4. CASE transport # 0
    <3>. DEFINE b == Byte("raw", i)
    <3>1. transport \in Procs /\ b \in Bytes /\ b.what = "raw" /\ b.id = i
      BY <2>4, SpawnsAssumption DEF Procs, Bytes, Kinds, Byte
    <3>2. typed' = [typed EXCEPT ![transport] = Append(@, b)]
      BY <1>4, <2>4 DEF WriteRaw
    <3>. HIDE DEF b
    <3>3. typed' \in [Procs -> Seq(Bytes)]
      BY <1>1, <3>1, <3>2 DEF InputTypes
    <3>4. InputTypes'
      BY <1>1, <1>2, <2>1, <3>3 DEF InputTypes
    <3>. QED  BY <1>1, <1>2, <2>2, <3>1, <3>2, <3>4, TypedStep
  <2>. QED  BY <2>3, <2>4
<1>. QED  BY <1>3, <1>4

LEMMA TypeBodyKeeps ==
  ASSUME InputInv, transport \in 0..MaxSpawns, TypeBody
  PROVE  InputInv'
<1>. DEFINE i == Head(chain)
<1>1. InputTypes /\ InLine /\ gap = Nil /\ chain # <<>> /\ chain \in Seq(Inputs)
  BY DEF InputInv, TypeBody, InputTypes
<1>2. chain' = Tail(chain) /\ UNCHANGED <<queue, used>>
  BY DEF TypeBody
<1>3. /\ i \in Elems(chain) /\ i \in Inputs /\ chain' \in Seq(Inputs)
      /\ Elems(chain') \subseteq Elems(chain)
      /\ Distinct(chain') /\ i \notin Elems(chain')
  BY <1>1, <1>2, TailDistinct DEF InLine
<1>4. /\ InLine' /\ Waiting' \subseteq Waiting
      /\ i \in Waiting /\ i \notin Waiting' /\ i \in used'
  BY <1>1, <1>2, <1>3 DEF InLine, Waiting
<1>5. CASE transport = 0
  <2>1. UNCHANGED <<gap, typed>>
    BY <1>5 DEF TypeBody
  <2>2. InputTypes'
    BY <1>1, <1>2, <1>3, <2>1 DEF InputTypes
  <2>. QED  BY <1>2, <1>4, <2>1, <2>2, UntypedStep
<1>6. CASE transport # 0
  <2>. DEFINE b == Byte("body", i)
  <2>1. transport \in Procs /\ b \in Bytes /\ b.what = "body" /\ b.id = i
    BY <1>3, <1>6, SpawnsAssumption DEF Procs, Bytes, Kinds, Byte
  <2>2. /\ typed' = [typed EXCEPT ![transport] = Append(@, b)]
        /\ gap' = [id |-> b.id, at |-> transport]
    BY <1>6, <2>1 DEF TypeBody
  <2>. HIDE DEF b, i
  <2>3. typed' \in [Procs -> Seq(Bytes)] /\ gap' \in [id : Inputs, at : Procs]
    BY <1>1, <1>3, <2>1, <2>2 DEF InputTypes
  <2>4. InputTypes'
    BY <1>1, <1>2, <1>3, <2>3 DEF InputTypes
  <2>. QED  BY <1>1, <1>2, <1>4, <2>1, <2>2, <2>4, TypedStep
<1>. QED  BY <1>5, <1>6

LEMMA TypeEnterKeeps ==
  ASSUME InputInv, TypeEnter
  PROVE  InputInv'
<1>1. /\ InputTypes /\ InLine /\ gap # Nil /\ gap' = Nil
      /\ UNCHANGED <<queue, chain, used>>
      /\ gap.id \in Inputs /\ gap.at \in Procs
  BY GapTyped DEF InputInv, TypeEnter
<1>2. InLine' /\ Waiting' = Waiting
  BY <1>1 DEF InLine, Waiting
<1>3. CASE transport # gap.at
  <2>1. UNCHANGED typed
    BY <1>3 DEF TypeEnter
  <2>2. InputTypes'
    BY <1>1, <2>1 DEF InputTypes
  <2>. QED  BY <1>1, <1>2, <2>1, <2>2, UntypedStep
<1>4. CASE transport = gap.at
  <2>. DEFINE b == Byte("enter", gap.id)
              t == gap.at
  <2>1. b \in Bytes /\ b.what = "enter" /\ b.id = gap.id
    BY <1>1 DEF Bytes, Kinds, Byte
  <2>2. typed' = [typed EXCEPT ![t] = Append(typed[t], b)]
    BY <1>4 DEF TypeEnter
  <2>3. /\ \A g \in Procs : \A k \in DOMAIN typed[g] : typed[g][k] # b
        /\ EndsInBody(typed[t], b.id)
    BY <1>1, <2>1 DEF InputInv, GapOpen
  <2>4. gap.id \in used \ Waiting
    <3>1. PICK j \in DOMAIN typed[gap.at] : typed[gap.at][j] = Byte("body", gap.id)
      BY <2>1, <2>3 DEF EndsInBody
    <3>2. typed[gap.at][j].id = gap.id
      BY <3>1 DEF Byte
    <3>. QED  BY <1>1, <3>2 DEF InputInv, Spent
  <2>. HIDE DEF b
  <2>5. /\ typed' \in [Procs -> Seq(Bytes)]
        /\ EnterFollowsBody' /\ TypedAtMostOncePerInput'
        /\ \A g \in Procs : \A k \in DOMAIN typed'[g] :
              \/ k \in DOMAIN typed[g] /\ typed'[g][k] = typed[g][k]
              \/ typed'[g][k] = b
    <3>1. typed \in [Procs -> Seq(Bytes)] /\ EnterFollowsBody /\ TypedAtMostOncePerInput
      BY DEF InputInv, InputTypes
    <3>2. t \in Procs
      BY <1>1
    <3>. HIDE DEF t
    <3>. QED  BY <2>1, <2>2, <2>3, <3>1, <3>2, OneByte
  <2>6. InputTypes'
    BY <1>1, <2>5 DEF InputTypes
  <2>7. Spent'
    BY <1>1, <1>2, <2>1, <2>4, <2>5 DEF InputInv, Spent
  <2>8. GapOpen'
    BY <1>1 DEF GapOpen
  <2>. QED  BY <1>2, <2>5, <2>6, <2>7, <2>8 DEF InputInv
<1>. QED  BY <1>3, <1>4

\* The flush gives the process the bytes and leaves the commands to the chain.
LEMMA MarkReadyKeeps ==
  ASSUME InputInv, transport \in 0..MaxSpawns, MarkReady, UNCHANGED <<gap, used>>
  PROVE  InputInv'
<1>1. /\ InputTypes /\ InLine /\ queue' = NoInput
      /\ queue.submit \in Seq(Inputs) /\ queue.raw \in Seq(Inputs) /\ chain \in Seq(Inputs)
  BY DEF InputInv, InputTypes, MarkReady
<1>2. /\ queue' \in [submit : Seq(Inputs), raw : Seq(Inputs)]
      /\ Elems(queue'.submit) = {} /\ Elems(queue'.raw) = {}
      /\ Distinct(queue'.submit) /\ Distinct(queue'.raw)
  <2>1. <<>> \in Seq(Inputs)
    OBVIOUS
  <2>. QED  BY <1>1, <2>1, EmptyDistinct DEF NoInput
<1>3. CASE transport = 0
  <2>1. UNCHANGED <<chain, typed>>
    BY <1>3 DEF MarkReady
  <2>2. InLine' /\ Waiting' \subseteq Waiting
    BY <1>1, <1>2, <2>1 DEF InLine, Waiting
  <2>3. InputTypes'
    BY <1>1, <1>2, <2>1 DEF InputTypes
  <2>. QED  BY <2>1, <2>2, <2>3, UntypedStep
<1>4. CASE transport # 0
  <2>1. transport \in Procs /\ chain' = chain \o queue.submit
    BY <1>4, SpawnsAssumption DEF MarkReady, Procs
  <2>2. PICK new : /\ new = [k \in DOMAIN queue.raw |-> Byte("raw", queue.raw[k])]
                   /\ typed' = [typed EXCEPT ![transport] = typed[transport] \o new]
    BY <1>4 DEF MarkReady
  <2>3. /\ chain' \in Seq(Inputs) /\ Distinct(chain')
        /\ Elems(chain') = Elems(chain) \cup Elems(queue.submit)
    BY <1>1, <2>1, CatParts, CatDistinct DEF InLine
  <2>4. InLine' /\ Waiting' = Waiting \ Elems(queue.raw)
    BY <1>1, <1>2, <2>3 DEF InLine, Waiting
  <2>5. /\ new \in Seq(Bytes)
        /\ DOMAIN new = DOMAIN queue.raw
        /\ \A j \in DOMAIN new : new[j] = Byte("raw", queue.raw[j])
    <3>1. PICK q \in Seq(Inputs) : q = queue.raw
      BY <1>1
    <3>2. \A j \in DOMAIN q : Byte("raw", q[j]) \in Bytes
      BY DEF Bytes, Kinds, Byte
    <3>3. new = [k \in DOMAIN q |-> Byte("raw", q[k])] /\ DOMAIN q = 1..Len(q) /\ Len(q) \in Nat
      BY <2>2, <3>1
    <3>4. new \in Seq(Bytes) /\ DOMAIN new = DOMAIN q
      BY <3>2, <3>3
    <3>. QED  BY <3>1, <3>3, <3>4
  <2>6. \A j \in DOMAIN new : new[j].what = "raw" /\ new[j].id \in Elems(queue.raw)
    <3>1. SUFFICES ASSUME NEW j \in DOMAIN new
                   PROVE  new[j].what = "raw" /\ new[j].id \in Elems(queue.raw)
      OBVIOUS
    <3>2. new[j] = Byte("raw", queue.raw[j]) /\ queue.raw[j] \in Elems(queue.raw)
      BY <2>5 DEF Elems
    <3>. QED  BY <3>2 DEF Byte
  <2>7. Distinct(new)
    <3>0. ASSUME NEW j \in DOMAIN new PROVE new[j].id = queue.raw[j]
      <4>1. new[j] = Byte("raw", queue.raw[j])
        BY <2>5
      <4>. QED  BY <4>1 DEF Byte
    <3>1. \A j, k \in DOMAIN new : new[j] = new[k] => queue.raw[j] = queue.raw[k]
      BY <3>0
    <3>. QED  BY <1>1, <2>5, <3>1 DEF Distinct, InLine
  <2>8. /\ typed \in [Procs -> Seq(Bytes)]
        /\ \A g \in Procs : \A k \in DOMAIN typed[g], j \in DOMAIN new : typed[g][k] # new[j]
    BY <2>6 DEF InputInv, InputTypes, Spent, Waiting
  <2>9. typed' \in [Procs -> Seq(Bytes)] /\ EnterFollowsBody' /\ TypedAtMostOncePerInput'
    BY <2>1, <2>2, <2>5, <2>6, <2>7, <2>8, Extended DEF InputInv
  <2>10. /\ typed'[transport] = typed[transport] \o new
         /\ \A g \in Procs : g # transport => typed'[g] = typed[g]
         /\ \A g \in Procs : \A k \in DOMAIN typed'[g] :
              \/ k \in DOMAIN typed[g] /\ typed'[g][k] = typed[g][k]
              \/ \E j \in DOMAIN new : typed'[g][k] = new[j]
    <3>1. PICK t \in Procs : t = transport
      BY <2>1
    <3>2. typed' = [typed EXCEPT ![t] = typed[t] \o new]
      BY <2>2, <3>1
    <3>3. typed'[t] = typed[t] \o new
      BY <2>5, <2>8, <3>2, GivenParts
    <3>4. \A g \in Procs : g # t => typed'[g] = typed[g]
      BY <2>5, <2>8, <3>2, GivenParts
    <3>5. \A g \in Procs : \A k \in DOMAIN typed'[g] :
            \/ k \in DOMAIN typed[g] /\ typed'[g][k] = typed[g][k]
            \/ \E j \in DOMAIN new : typed'[g][k] = new[j]
      BY <2>5, <2>8, <3>2, GivenParts
    <3>. QED  BY <3>1, <3>3, <3>4, <3>5
  <2>11. Spent'
    <3>1. Elems(queue.raw) \subseteq used
      BY <1>1 DEF InLine, Waiting
    <3>. QED  BY <2>4, <2>6, <2>10, <3>1 DEF InputInv, Spent
  <2>12. GapOpen'
    <3>1. SUFFICES ASSUME gap # Nil
                   PROVE  /\ \A g \in Procs : \A k \in DOMAIN typed'[g] :
                               typed'[g][k] # Byte("enter", gap.id)
                          /\ EndsInBody(typed'[gap.at], gap.id)
      BY DEF GapOpen
    <3>2. \A g \in Procs : \A k \in DOMAIN typed'[g] : typed'[g][k] # Byte("enter", gap.id)
      BY <2>6, <2>10, <3>1 DEF InputInv, GapOpen, Byte
    <3>3. gap.at \in Procs /\ EndsInBody(typed[gap.at], gap.id)
      BY <1>1, <3>1, GapTyped DEF InputInv, GapOpen
    <3>4. CASE gap.at = transport
      <4>1. typed[transport] \in Seq(Bytes) /\ EndsInBody(typed[transport], gap.id)
        BY <2>1, <2>8, <3>3, <3>4
      <4>2. EndsInBody(typed[transport] \o new, gap.id)
        BY <2>5, <2>6, <4>1, RawKeepsBody
      <4>. QED  BY <2>10, <3>2, <3>4, <4>2
    <3>5. CASE gap.at # transport
      BY <2>10, <3>2, <3>3, <3>5
    <3>. QED  BY <3>4, <3>5
  <2>13. InputTypes'
    BY <1>1, <1>2, <2>3, <2>9 DEF InputTypes
  <2>. QED  BY <2>4, <2>9, <2>11, <2>12, <2>13 DEF InputInv
<1>. QED  BY <1>3, <1>4

\* Nothing is accepted or typed; at most the pending input of a dead process is dropped.
LEMMA QuietInputKeeps ==
  ASSUME InputInv, queue' \in {queue, NoInput}, UNCHANGED <<chain, gap, typed, used>>
  PROVE  InputInv'
<1>1. InputTypes /\ InLine
  BY DEF InputInv
<1>2. CASE queue' = queue
  <2>1. InputTypes' /\ InLine' /\ Waiting' = Waiting
    BY <1>1, <1>2 DEF InputTypes, InLine, Waiting
  <2>. QED  BY <2>1, UntypedStep
<1>3. CASE queue' = NoInput
  <2>1. /\ queue' \in [submit : Seq(Inputs), raw : Seq(Inputs)]
        /\ Elems(queue'.submit) = {} /\ Elems(queue'.raw) = {}
        /\ Distinct(queue'.submit) /\ Distinct(queue'.raw)
    <3>1. <<>> \in Seq(Inputs)
      OBVIOUS
    <3>. QED  BY <1>3, <3>1, EmptyDistinct DEF NoInput
  <2>2. InputTypes' /\ InLine' /\ Waiting' \subseteq Waiting
    BY <1>1, <2>1 DEF InputTypes, InLine, Waiting
  <2>. QED  BY <2>2, UntypedStep
<1>. QED  BY <1>2, <1>3

LEMMA InputKept ==
  ASSUME InputInv, transport \in 0..MaxSpawns, [PaneNext]_paneVars
  PROVE  InputInv'
<1>1. CASE UNCHANGED paneVars
  BY <1>1, QuietInputKeeps DEF paneVars, input
<1>2. CASE \E g \in Procs : Exit(g)
  BY <1>2, QuietInputKeeps DEF Exit
<1>3. CASE ReadyFallback \/ \E g \in Procs, f \in BOOLEAN : Data(g, f)
  <2>1. UNCHANGED <<gap, used>> /\ (MarkReady \/ UNCHANGED <<queue, chain, typed>>)
    BY <1>3 DEF ReadyFallback, Data
  <2>. QED  BY <2>1, MarkReadyKeeps, QuietInputKeeps
<1>4. CASE \E i \in Inputs : WriteInput(i) \/ WriteRaw(i)
  BY <1>4, WriteInputKeeps, WriteRawKeeps
<1>5. CASE TypeBody \/ TypeEnter
  BY <1>5, TypeBodyKeeps, TypeEnterKeeps
<1>6. CASE \/ \E e \in {"busy", "free", "unsure"} : ProbeTick(e)
           \/ IdleTimerFires \/ StopSettles \/ Boot \/ Restart \/ ChangeMode \/ Archive
           \/ \E c \in {"restart", "archive"} : TakeLock(c)
           \/ ResumeRestart \/ ResumeMode \/ ResumeArchive \/ Halt \/ DeletePane
  <2>1. UNCHANGED input
    BY <1>6 DEF ProbeTick, IdleTimerFires, StopSettles, Boot, Restart, ChangeMode, Archive,
       TakeLock, ResumeRestart, ResumeMode, ResumeArchive, Halt, DeletePane
  <2>. QED  BY <2>1, QuietInputKeeps DEF input
<1>. QED  BY <1>1, <1>2, <1>3, <1>4, <1>5, <1>6 DEF PaneNext, Lifecycle

-----------------------------------------------------------------------------
(* The number of processes stays within its bound. *)

\* The callers that may still start the pane.
Starting == {c \in Callers \ {"archive"} : op[c] # "idle"}

SpawnsFit == Cardinality(Spawned) + Cardinality(Starting) <= MaxSpawns

LEMMA Finite ==
  /\ IsFiniteSet(Procs)
  /\ IsFiniteSet(Callers)
  /\ IsFiniteSet(Spawned) /\ IsFiniteSet(Starting)
  /\ Cardinality(Spawned) \in Nat /\ Cardinality(Starting) \in Nat
<1>1. IsFiniteSet(Procs)
  BY SpawnsAssumption, FS_Interval DEF Procs
<1>2. IsFiniteSet(Callers)
  <2>1. Callers = ((({} \cup {"boot"}) \cup {"restart"}) \cup {"mode"}) \cup {"archive"}
    BY DEF Callers
  <2>. QED  BY <2>1, FS_EmptySet, FS_AddElement
<1>3. Spawned \subseteq Procs /\ Starting \subseteq Callers
  BY DEF Spawned, Starting
<1>4. IsFiniteSet(Spawned) /\ IsFiniteSet(Starting)
  BY <1>1, <1>2, <1>3, FS_Subset
<1>. QED  BY <1>1, <1>2, <1>4, FS_CardinalityType

LEMMA FinitePrimed ==
  ASSUME TRUE
  PROVE  /\ IsFiniteSet(Spawned') /\ IsFiniteSet(Starting')
         /\ Cardinality(Spawned') \in Nat /\ Cardinality(Starting') \in Nat
<1>1. Spawned' \subseteq Procs /\ Starting' \subseteq Callers
  BY DEF Spawned, Starting
<1>. QED  BY <1>1, Finite, FS_Subset, FS_CardinalityType

LEMMA OneMore ==
  ASSUME NEW S, IsFiniteSet(S), NEW x
  PROVE  /\ IsFiniteSet(S \cup {x}) /\ Cardinality(S \cup {x}) \in Nat
         /\ Cardinality(S \cup {x}) <= Cardinality(S) + 1
<1>1. Cardinality(S) \in Nat
  BY FS_CardinalityType
<1>2. /\ IsFiniteSet(S \cup {x})
      /\ Cardinality(S \cup {x}) = IF x \in S THEN Cardinality(S) ELSE Cardinality(S) + 1
  BY FS_AddElement
<1>. QED  BY <1>1, <1>2

LEMMA FitShrinks ==
  ASSUME SpawnsFit, Spawned' \subseteq Spawned, Starting' \subseteq Starting
  PROVE  SpawnsFit'
<1>1. /\ Cardinality(Spawned') <= Cardinality(Spawned)
      /\ Cardinality(Starting') <= Cardinality(Starting)
  BY Finite, FS_Subset
<1>. QED  BY <1>1, Finite, FinitePrimed, SpawnsAssumption DEF SpawnsFit

\* A call that may start the pane later is only made while there is room.
LEMMA FitCalls ==
  ASSUME Room, NEW c, Spawned' \subseteq Spawned, Starting' \subseteq Starting \cup {c}
  PROVE  SpawnsFit'
<1>1. Cardinality(Spawned') <= Cardinality(Spawned)
  BY Finite, FS_Subset
<1>2. /\ IsFiniteSet(Starting \cup {c}) /\ Cardinality(Starting \cup {c}) \in Nat
      /\ Cardinality(Starting \cup {c}) <= Cardinality(Starting) + 1
  BY Finite, OneMore
<1>3. Cardinality(Starting') <= Cardinality(Starting \cup {c})
  BY <1>2, FS_Subset
<1>4. Cardinality(Spawned) + Cardinality(Starting) < MaxSpawns
  BY DEF Room, Starting
<1>. QED  BY <1>1, <1>2, <1>3, <1>4, Finite, FinitePrimed, SpawnsAssumption DEF SpawnsFit

LEMMA KilledSpawned ==
  ASSUME PInv
  PROVE  {g \in Procs : Killed[g] # "none"} = Spawned
BY DEF PInv, PaneTypes, Killed, Spawned

\* A start uses up the room its caller had, for one process.
LEMMA FitStarts ==
  ASSUME PInv, SpawnsFit, NEW c \in Callers \ {"archive"}, op[c] # "idle",
         op' = [op EXCEPT ![c] = "idle"], Start(c)
  PROVE  SpawnsFit' /\ transport' \in 0..MaxSpawns
<1>. DEFINE n == Cardinality(Spawned) + 1
<1>1. Starting' = Starting \ {c} /\ c \in Starting
  BY DEF Starting, PInv, PaneTypes
<1>2. Cardinality(Starting') = Cardinality(Starting) - 1
  BY <1>1, Finite, FS_RemoveElement
<1>3. n \in Nat /\ n \in 1..MaxSpawns
  BY <1>2, Finite, FinitePrimed, SpawnsAssumption DEF SpawnsFit
<1>4. CASE proc' = [Killed EXCEPT ![n] = "live"] /\ transport' = n
  <2>. HIDE DEF n
  <2>1. Spawned' \subseteq Spawned \cup {n}
    BY <1>4, KilledSpawned, KilledLeavesNone DEF Spawned
  <2>2. /\ IsFiniteSet(Spawned \cup {n}) /\ Cardinality(Spawned \cup {n}) \in Nat
        /\ Cardinality(Spawned \cup {n}) <= Cardinality(Spawned) + 1
    BY Finite, OneMore
  <2>3. Cardinality(Spawned') <= Cardinality(Spawned \cup {n})
    BY <2>1, <2>2, FS_Subset
  <2>4. SpawnsFit'
    BY <1>2, <2>2, <2>3, Finite, FinitePrimed, SpawnsAssumption DEF SpawnsFit
  <2>. QED  BY <1>3, <1>4, <2>4, SpawnsAssumption
<1>5. CASE proc' = Killed /\ transport' = 0
  BY <1>1, <1>5, KilledSpawned, FitShrinks, SpawnsAssumption DEF Spawned
<1>. QED  BY <1>4, <1>5 DEF Start

\* Where stop() leaves the processes and the current one.
LEMMA StopFits ==
  ASSUME PInv, transport \in 0..MaxSpawns, Stop
  PROVE  Spawned' = Spawned /\ transport' \in 0..MaxSpawns
BY KilledSpawned, SpawnsAssumption DEF Stop, Spawned

LEMMA FitKept ==
  ASSUME PInv, SpawnsFit, transport \in 0..MaxSpawns, [PaneNext]_paneVars
  PROVE  SpawnsFit' /\ transport' \in 0..MaxSpawns
<1>0. op \in [Callers -> {"idle", "queued", "stopping", "resumed"}] /\ PaneTypes
  BY DEF PInv, PaneTypes
<1>1. CASE \/ UNCHANGED paneVars
           \/ \E e \in {"busy", "free", "unsure"} : ProbeTick(e)
           \/ IdleTimerFires \/ TypeBody \/ TypeEnter \/ ReadyFallback
           \/ \E i \in Inputs : WriteInput(i) \/ WriteRaw(i)
           \/ \E g \in Procs, f \in BOOLEAN : Data(g, f)
  <2>1. UNCHANGED <<proc, transport, op>>
    BY <1>1, QuietSteps DEF Quiet, paneVars, spawn, callers
  <2>. QED  BY <2>1, FitShrinks DEF Spawned, Starting
<1>2. ASSUME NEW g \in Procs, Exit(g) PROVE SpawnsFit' /\ transport' \in 0..MaxSpawns
  <2>1. proc[g] # "none" /\ proc' = [proc EXCEPT ![g] = "gone"] /\ UNCHANGED <<transport, op>>
    BY <1>2 DEF Exit, callers
  <2>. QED  BY <1>0, <2>1, FitShrinks DEF Spawned, Starting, PaneTypes
<1>3. CASE StopSettles
  <2>1. /\ op' = [c \in Callers |-> IF op[c] = "stopping" THEN "resumed" ELSE op[c]]
        /\ UNCHANGED <<proc, transport>>
    BY <1>3 DEF StopSettles, spawn
  <2>2. Starting' = Starting
    BY <1>0, <2>1 DEF Starting
  <2>. QED  BY <2>1, <2>2, FitShrinks DEF Spawned
<1>4. CASE Boot \/ ResumeMode
  <2>1. PICK c \in {"boot", "mode"} :
          op[c] # "idle" /\ op' = [op EXCEPT ![c] = "idle"] /\ Start(c)
    BY <1>4 DEF Boot, ResumeMode
  <2>. QED  BY <2>1, FitStarts DEF Callers
<1>5. CASE ResumeRestart
  <2>1. op["restart"] # "idle" /\ op' = [op EXCEPT !["restart"] = "idle"]
    BY <1>5 DEF ResumeRestart
  <2>2. CASE Start("restart")
    BY <2>1, <2>2, FitStarts DEF Callers
  <2>3. CASE UNCHANGED <<machine, spawn>>
    BY <1>0, <2>1, <2>3, FitShrinks DEF Spawned, Starting, spawn
  <2>. QED  BY <1>5, <2>2, <2>3 DEF ResumeRestart
<1>6. CASE Restart \/ ChangeMode
  <2>1. PICK c \in {"restart", "mode"} :
          /\ Room
          /\ (Await(c) \/ Enqueue(c))
    BY <1>6 DEF Restart, ChangeMode
  <2>2. /\ Starting' \subseteq Starting \cup {c}
        /\ Spawned' = Spawned /\ transport' \in 0..MaxSpawns
    BY <1>0, <2>1, StopFits DEF Await, Enqueue, Starting, Spawned, spawn
  <2>. QED  BY <2>1, <2>2, FitCalls
<1>7. CASE Archive \/ \E c \in {"restart", "archive"} : TakeLock(c)
  <2>1. PICK c \in {"restart", "archive"} :
          /\ c = "archive" \/ op[c] # "idle"
          /\ \/ Await(c) \/ Enqueue(c)
             \/ op' = [op EXCEPT ![c] = "idle"] /\ UNCHANGED <<machine, spawn, stopping>>
    BY <1>7 DEF Archive, TakeLock
  <2>2. Starting' \subseteq Starting
    BY <1>0, <2>1 DEF Await, Enqueue, Starting
  <2>3. Spawned' = Spawned /\ transport' \in 0..MaxSpawns
    BY <2>1, StopFits DEF Await, Enqueue, Spawned, spawn
  <2>. QED  BY <2>2, <2>3, FitShrinks
<1>8. CASE ResumeArchive
  <2>1. op' = [op EXCEPT !["archive"] = "idle"] /\ UNCHANGED <<proc, transport>>
    BY <1>8 DEF ResumeArchive, spawn
  <2>. QED  BY <1>0, <2>1, FitShrinks DEF Spawned, Starting
<1>9. CASE Halt \/ DeletePane
  <2>1. Stop /\ UNCHANGED op
    BY <1>9 DEF Halt, DeletePane
  <2>. QED  BY <2>1, StopFits, FitShrinks DEF Starting
<1>. QED  BY <1>1, <1>2, <1>3, <1>4, <1>5, <1>6, <1>7, <1>8, <1>9 DEF PaneNext, Lifecycle

-----------------------------------------------------------------------------
(* Types. *)

MachineTypes ==
  /\ status \in {"Running", "Idle", "Exited"}
  /\ conf \in {"fallback", "authoritative"}
  /\ saw \in BOOLEAN /\ idleTimer \in BOOLEAN

CallerTypes ==
  /\ calls \in Meetings /\ agent \in BOOLEAN
  /\ ready \in BOOLEAN /\ fallback \in BOOLEAN
  /\ stopping \in BOOLEAN /\ onBoard \in BOOLEAN /\ archiving \in BOOLEAN

LEMMA ApplyTypes ==
  ASSUME MachineTypes, NEW event \in {"input", "busy", "free", "unsure", "output", "timer"},
         Apply(event)
  PROVE  MachineTypes'
<1>1. CASE status = "Exited"
  BY <1>1 DEF Apply, MachineTypes
<1>2. CASE status # "Exited"
  <2>1. /\ status' = Verdict(event).status
        /\ idleTimer' = Verdict(event).timer
        /\ conf' \in {"authoritative", "fallback", conf}
        /\ saw' \in BOOLEAN
    BY <1>2 DEF Apply
  <2>2. /\ Verdict(event).status \in {status, "Running", "Idle"}
        /\ Verdict(event).timer \in {idleTimer, TRUE, FALSE}
    BY DEF Verdict
  <2>. QED  BY <2>1, <2>2 DEF MachineTypes
<1>. QED  BY <1>1, <1>2

LEMMA MachineTyped ==
  ASSUME MachineTypes, [PaneNext]_paneVars
  PROVE  MachineTypes'
<1>1. CASE \E e \in {"busy", "free", "unsure"} : ProbeTick(e)
  BY <1>1, ApplyTypes DEF ProbeTick
<1>2. CASE IdleTimerFires
  BY <1>2, ApplyTypes DEF IdleTimerFires
<1>3. ASSUME NEW i \in Inputs, WriteInput(i) PROVE MachineTypes'
  BY <1>3, ApplyTypes DEF WriteInput
<1>4. ASSUME NEW g \in Procs, NEW f \in BOOLEAN, Data(g, f) PROVE MachineTypes'
  BY <1>4, ApplyTypes DEF Data
<1>5. ASSUME NEW g \in Procs, Exit(g) PROVE MachineTypes'
  BY <1>5 DEF Exit, MachineTypes, machine
<1>6. CASE \E c \in Callers : Start(c)
  BY <1>6 DEF Start, MachineTypes
<1>7. CASE Stop /\ UNCHANGED <<status, conf, saw>>
  BY <1>7 DEF Stop, MachineTypes
<1>8. CASE ResumeArchive
  BY <1>8 DEF ResumeArchive, MachineTypes
<1>9. CASE UNCHANGED machine
  BY <1>9 DEF machine, MachineTypes
<1>10. CASE \/ UNCHANGED paneVars
            \/ TypeBody \/ TypeEnter \/ ReadyFallback \/ StopSettles
            \/ \E i \in Inputs : WriteRaw(i)
            \/ Boot \/ Restart \/ ChangeMode \/ Archive
            \/ \E c \in {"restart", "archive"} : TakeLock(c)
            \/ ResumeRestart \/ ResumeMode \/ Halt \/ DeletePane
  <2>1. \/ UNCHANGED machine
        \/ Stop /\ UNCHANGED <<status, conf, saw>>
        \/ \E c \in Callers : Start(c)
    BY <1>10 DEF paneVars, TypeBody, TypeEnter, ReadyFallback, StopSettles, WriteRaw, Boot, Restart,
       ChangeMode, Archive, TakeLock, ResumeRestart, ResumeMode, Halt, DeletePane, Enqueue, Await,
       Callers
  <2>. QED  BY <1>6, <1>7, <1>9, <2>1
<1>. QED  BY <1>1, <1>2, <1>3, <1>4, <1>5, <1>8, <1>10 DEF PaneNext, Lifecycle

LEMMA CallersTyped ==
  ASSUME CallerTypes, [PaneNext]_paneVars
  PROVE  CallerTypes'
<1>1. UNCHANGED setting
  BY DEF PaneNext, Lifecycle, paneVars, ProbeTick, IdleTimerFires, TypeBody, TypeEnter, ReadyFallback,
     WriteInput, WriteRaw, Data, Exit, StopSettles, Boot, Restart, ChangeMode, Archive, TakeLock,
     ResumeRestart, ResumeMode, ResumeArchive, Halt, DeletePane
<1>2. ready' \in BOOLEAN /\ fallback' \in BOOLEAN
  <2>1. CASE \/ UNCHANGED paneVars \/ TypeBody \/ TypeEnter \/ ReadyFallback \/ IdleTimerFires
             \/ \E e \in {"busy", "free", "unsure"} : ProbeTick(e)
             \/ \E i \in Inputs : WriteInput(i) \/ WriteRaw(i)
             \/ \E g \in Procs, f \in BOOLEAN : Data(g, f)
             \/ \E g \in Procs : Exit(g)
    BY <2>1 DEF CallerTypes, paneVars, spawn, TypeBody, TypeEnter, ReadyFallback, MarkReady,
       IdleTimerFires, ProbeTick, WriteInput, WriteRaw, Data, Exit
  <2>2. CASE \/ StopSettles \/ Boot \/ Restart \/ ChangeMode \/ Archive
             \/ \E c \in {"restart", "archive"} : TakeLock(c)
             \/ ResumeRestart \/ ResumeMode \/ ResumeArchive \/ Halt \/ DeletePane
    <3>1. \/ UNCHANGED spawn
          \/ \E c \in Callers : Start(c)
          \/ Stop /\ UNCHANGED ready
      BY <2>2 DEF StopSettles, Boot, Restart, ChangeMode, Archive, TakeLock, ResumeRestart,
         ResumeMode, ResumeArchive, Halt, DeletePane, Enqueue, Await, Callers
    <3>. QED  BY <3>1 DEF CallerTypes, spawn, Start, Stop
  <2>. QED  BY <2>1, <2>2 DEF PaneNext, Lifecycle
<1>3. stopping' \in BOOLEAN
  <2>1. \/ UNCHANGED stopping \/ StopSettles \/ Stop
    BY DEF PaneNext, Lifecycle, paneVars, callers, ProbeTick, IdleTimerFires, TypeBody, TypeEnter,
       ReadyFallback, WriteInput, WriteRaw, Data, Exit, Boot, Restart, ChangeMode, Archive, TakeLock,
       ResumeRestart, ResumeMode, ResumeArchive, Halt, DeletePane, Enqueue, Await
  <2>. QED  BY <2>1 DEF CallerTypes, StopSettles, Stop
<1>4. onBoard' \in BOOLEAN /\ archiving' \in BOOLEAN
  BY DEF CallerTypes, PaneNext, Lifecycle, paneVars, callers, ProbeTick, IdleTimerFires, TypeBody,
     TypeEnter, ReadyFallback, WriteInput, WriteRaw, Data, Exit, StopSettles, Boot, Restart,
     ChangeMode, Archive, TakeLock, ResumeRestart, ResumeMode, ResumeArchive, Halt, DeletePane
<1>. QED  BY <1>1, <1>2, <1>3, <1>4 DEF CallerTypes, setting

\* What the observer and the group keep, besides the members' statuses.
JoinTypes ==
  /\ spine \in BOOLEAN
  /\ last \in {"none", "error", "exited", "idle"}
  /\ open \subseteq Members /\ todo \subseteq Members
  /\ marker \in Members \cup {Nil, Other}
  /\ told \in BOOLEAN

LEMMA HearTypes ==
  ASSUME JoinTypes, NEW chunk, Hear(chunk)
  PROVE  last' \in {"none", "error", "exited", "idle"} /\ told' \in BOOLEAN
<1>1. Class(chunk) \in {"none", "error", "exited", "idle"}
  BY DEF Class
<1>2. last' \in {last, "none", Class(chunk)}
  BY DEF Hear, Forgot
<1>3. told' \in BOOLEAN
  BY DEF Hear, Settles, JoinTypes
<1>. QED  BY <1>1, <1>2, <1>3 DEF JoinTypes

LEMMA JoinTyped ==
  ASSUME JoinTypes, [Next]_joinVars
  PROVE  JoinTypes'
<1>1. CASE UNCHANGED joinVars
  BY <1>1 DEF joinVars, recorded, group, JoinTypes
<1>2. CASE Dispatch \/ DispatchPlan
  BY <1>2 DEF Dispatch, DispatchPlan, JoinTypes
<1>3. ASSUME NEW m \in Members, PlanStep(m) PROVE JoinTypes'
  <2>1. /\ todo' \subseteq Members /\ open' \subseteq Members /\ UNCHANGED <<spine, told>>
        /\ last' \in {last, "none"} /\ marker' \in {marker, Other}
    BY <1>3 DEF PlanStep, Forgot, MarkedByOthers, JoinTypes
  <2>. QED  BY <2>1 DEF JoinTypes
<1>4. ASSUME NEW m \in Members, Approve(m) \/ Reject(m) PROVE JoinTypes'
  <2>1. /\ open' \subseteq Members /\ UNCHANGED <<spine, todo>>
        /\ marker' \in {m, marker, Other}
        /\ Hear("none") \/ UNCHANGED <<last, told>>
    BY <1>4 DEF Approve, Reject, MarkedByOthers, recorded, JoinTypes
  <2>. QED  BY <2>1, HearTypes DEF JoinTypes
<1>5. ASSUME NEW i \in Manual, WriteByHand(i) \/ RawByHand(i) PROVE JoinTypes'
  <2>1. /\ UNCHANGED <<spine, todo, open>> /\ marker' \in {marker, Other}
        /\ Hear("none") \/ UNCHANGED <<last, told>>
    BY <1>5 DEF WriteByHand, RawByHand, MarkedByOthers, recorded, group
  <2>. QED  BY <2>1, HearTypes DEF JoinTypes
<1>6. CASE \/ \E g \in Procs, chunk \in {"plain", "error"}, f \in BOOLEAN : Output(g, chunk, f)
           \/ PaneStep
  <2>1. UNCHANGED <<spine, todo, open, marker>> /\ \E chunk : Hear(chunk)
    BY <1>6 DEF Output, PaneStep, recorded
  <2>. QED  BY <2>1, HearTypes DEF JoinTypes
<1>. QED  BY <1>1, <1>2, <1>3, <1>4, <1>5, <1>6 DEF Next

-----------------------------------------------------------------------------
(* The theorems. *)

Typed == /\ transport \in 0..MaxSpawns /\ SpawnsFit
         /\ MachineTypes /\ CallerTypes /\ JoinTypes /\ JInv

TInv == PInv /\ InputInv /\ Typed

LEMMA TInvInit ==
  ASSUME Init2
  PROVE  TInv
<1>0. Init
  BY DEF Init2
<1>1. InputInv
  <2>1. /\ queue = NoInput /\ chain = <<>> /\ gap = Nil /\ used = {}
        /\ typed = [g \in Procs |-> <<>>]
    BY <1>0 DEF Init
  <2>2. <<>> \in Seq(Inputs) /\ <<>> \in Seq(Bytes) /\ DOMAIN <<>> = {}
    OBVIOUS
  <2>3. InputTypes
    BY <2>1, <2>2 DEF InputTypes, NoInput
  <2>4. InLine
    BY <2>1, EmptyDistinct DEF InLine, Waiting
  <2>5. \A g \in Procs : typed[g] = <<>>
    BY <2>1
  <2>6. Spent /\ EnterFollowsBody /\ TypedAtMostOncePerInput /\ GapOpen
    BY <2>1, <2>2, <2>5 DEF Spent, EnterFollowsBody, TypedAtMostOncePerInput, GapOpen
  <2>. QED  BY <2>3, <2>4, <2>6 DEF InputInv
<1>2. SpawnsFit /\ transport \in 0..MaxSpawns
  <2>1. Spawned = {} /\ Starting = {} \cup {"boot"} /\ transport = 0
    BY <1>0 DEF Init, Spawned, Starting, Callers
  <2>2. Cardinality({} \cup {"boot"}) <= Cardinality({}) + 1 /\ Cardinality({}) = 0
    BY FS_EmptySet, OneMore
  <2>3. Cardinality(Spawned) = 0 /\ Cardinality(Starting) <= 1
    BY <2>1, <2>2
  <2>. QED  BY <2>1, <2>3, Finite, SpawnsAssumption DEF SpawnsFit
<1>3. MachineTypes /\ CallerTypes
  BY <1>0 DEF Init, MachineTypes, CallerTypes
<1>4. JoinTypes /\ JInv
  BY MembersAssumption DEF Init2, JoinTypes, JInv, Moved
<1>. QED  BY <1>1, <1>2, <1>3, <1>4, InitEstablishes DEF TInv, Typed

LEMMA TInvKept == TInv /\ PInv' /\ [Next]_joinVars => TInv'
<1>. SUFFICES ASSUME TInv, PInv', [Next]_joinVars PROVE TInv'
  OBVIOUS
<1>1. [PaneNext]_paneVars
  BY JoinStepsArePaneSteps
<1>2. InputInv'
  BY <1>1, InputKept DEF TInv, Typed
<1>3. SpawnsFit' /\ transport' \in 0..MaxSpawns
  BY <1>1, FitKept DEF TInv, Typed
<1>4. MachineTypes' /\ CallerTypes' /\ JoinTypes' /\ JInv'
  BY <1>1, MachineTyped, CallersTyped, JoinTyped, JInvKept DEF TInv, Typed
<1>. QED  BY <1>2, <1>3, <1>4 DEF TInv, Typed

THEOREM InputInvariance == Spec => []TInv
<1>. QED  BY TInvInit, TInvKept, PaneInvariance, PTL DEF Spec

\* Every reachable state of the pane, its observer and its group has its type.
THEOREM TypeCorrect == Spec => []TypeOK
<1>1. TInv => TypeOK
  BY DEF TInv, Typed, PInv, PaneTypes, InputInv, InputTypes, Bytes, Kinds, MachineTypes, CallerTypes,
     JoinTypes, JInv, TypeOK, PaneTypeOK
<1>. QED  BY <1>1, InputInvariance, PTL

\* For any number of processes, in what each was given an Enter follows the body of
\* its own command, with raw bytes at most in between (terminal.ts:1272-1316).
THEOREM EnterIsOwn == Spec => []EnterFollowsBody
<1>1. TInv => EnterFollowsBody
  BY DEF TInv, InputInv
<1>. QED  BY <1>1, InputInvariance, PTL

\* No input is typed twice, into the same process or another (terminal.ts:1065-1082,
\* 1229-1251).
THEOREM NothingTwice == Spec => []TypedAtMostOncePerInput
<1>1. TInv => TypedAtMostOncePerInput
  BY DEF TInv, InputInv
<1>. QED  BY <1>1, InputInvariance, PTL
=============================================================================
