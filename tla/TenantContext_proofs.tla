------------------------- MODULE TenantContext_proofs -------------------------
(***************************************************************************)
(* Scopes and their connections, for every number of tasks, tenants,       *)
(* connections and nested scopes: a row belongs to the tenant its scope    *)
(* was opened for, no connection leaks or is shared, a transaction becomes *)
(* visible with its owner, and a savepoint undoes what is its own.         *)
(***************************************************************************)
EXTENDS TenantContext, TLAPS, FiniteSetTheorems, SequenceTheorems

WriteRecord ==
  [task : Tasks, scope : Nat, mode : Modes, tenant : Modes, within : SUBSET Nat]

Frame == [id : Nat, mode : Modes, conn : Conns \cup {NoConn}, own : BOOLEAN,
          save : BOOLEAN, mark : SUBSET WriteRecord]

Transaction == [state : {"idle", "open", "failed", "broken"}, tenant : Modes,
                writes : SUBSET WriteRecord, acked : SUBSET WriteRecord, undone : SUBSET Nat]

Phases == {"idle", "waiting", "leased", "work", "throwing"}

Typed ==
  /\ stack \in [Tasks -> Seq(Frame)]
  /\ pc \in [Tasks -> Phases]
  /\ queue \in Seq(Tasks)
  /\ free \subseteq Conns
  /\ tx \in [Conns -> Transaction]
  /\ opened \in [Tasks -> Nat]

Depth(t) == 1..Len(stack[t])

\* Where a task is and what its innermost scope has.
Phased ==
  \A t \in Tasks :
    /\ pc[t] = "idle" <=> stack[t] = <<>>
    /\ pc[t] \in {"waiting", "leased"} => stack[t][Len(stack[t])].own
    /\ pc[t] = "waiting" => stack[t][Len(stack[t])].conn = NoConn
    /\ \A i \in Depth(t) : stack[t][i].conn = NoConn => i = Len(stack[t]) /\ pc[t] = "waiting"

\* Who waits does so once.
Queued ==
  /\ \A k \in 1..Len(queue) : pc[queue[k]] = "waiting"
  /\ \A k, l \in 1..Len(queue) : queue[k] = queue[l] => k = l

\* A scope with a connection has it from itself or from an enclosing scope of
\* the same mode.
HasBase(s, i) ==
  \E j \in 1..i : s[j].own /\ s[j].conn = s[i].conn /\ s[j].mode = s[i].mode

Based ==
  \A t \in Tasks : \A i \in Depth(t) : stack[t][i].conn # NoConn => HasBase(stack[t], i)

\* A connection is in the pool or one scope has leased it.
Owns(t, i, c) == i \in Depth(t) /\ stack[t][i].own /\ stack[t][i].conn = c

Outside == \A t \in Tasks : \A i \in Depth(t) : stack[t][i].conn \notin free
Single == \A c \in Conns : \A t, u \in Tasks : \A i, j \in Nat :
            Owns(t, i, c) /\ Owns(u, j, c) => t = u /\ i = j
Covered == \A c \in Conns \ free : \E t \in Tasks : \E i \in Nat : Owns(t, i, c)
PoolIdle == \A c \in free : tx[c] = IdleTx

\* A transaction is set to the tenant of the scopes that use it.
Scoped ==
  \A t \in Tasks : \A i \in Depth(t) :
    /\ stack[t][i].conn # NoConn
    /\ ~(i = Len(stack[t]) /\ pc[t] = "leased")
    => tx[stack[t][i].conn].tenant = stack[t][i].mode

Stacked == Phased /\ Based /\ Outside /\ Single /\ Covered /\ PoolIdle /\ Scoped

Invariant == Typed /\ Queued /\ Stacked /\ OwnTenantOnly

-----------------------------------------------------------------------------
(* Sequences.                                                              *)

LEMMA AppendFacts ==
  ASSUME NEW S, NEW s \in Seq(S), NEW e \in S
  PROVE  /\ Append(s, e) \in Seq(S) /\ Append(s, e) # <<>>
         /\ Len(Append(s, e)) = Len(s) + 1
         /\ Append(s, e)[Len(s) + 1] = e
         /\ \A i \in 1..Len(s) : Append(s, e)[i] = s[i]
OBVIOUS

LEMMA FrontFacts ==
  ASSUME NEW S, NEW s \in Seq(S), s # <<>>
  PROVE  /\ Front(s) \in Seq(S) /\ Len(Front(s)) = Len(s) - 1 /\ Len(s) \in Nat \ {0}
         /\ Front(s) = <<>> <=> Len(s) = 1
         /\ \A i \in 1..(Len(s) - 1) : Front(s)[i] = s[i]
<1>1. Len(s) \in Nat \ {0} /\ Front(s) \in Seq(S)
  BY DEF Front
<1>2. Len(Front(s)) = Len(s) - 1
  <2> DEFINE n == Len(s) - 1
  <2>1. n \in Int /\ 1 \in Int /\ n >= 0
    BY <1>1
  <2>2. \A i \in 1..n : s[i] \in S
    BY <1>1
  <2> HIDE DEF n
  <2>4. Len(SubSeq(s, 1, n)) = n
    <3>1. CASE n = 0
      BY <2>1, <3>1, SubSeqEmpty
    <3>2. CASE n # 0
      BY <2>1, <2>2, <3>2
    <3> QED
      BY <3>1, <3>2
  <2> QED
    BY <2>4 DEF Front, n
<1>3. \A i \in 1..(Len(s) - 1) : Front(s)[i] = s[i]
  BY <1>1 DEF Front
<1>4. Front(s) = <<>> <=> Len(s) = 1
  BY <1>1, <1>2
<1> QED
  BY <1>1, <1>2, <1>3, <1>4

LEMMA RemoveAtFacts ==
  ASSUME NEW S, NEW s \in Seq(S), NEW k \in 1..Len(s)
  PROVE  /\ RemoveAt(s, k) \in Seq(S)
         /\ Len(RemoveAt(s, k)) = Len(s) - 1
         /\ \A i \in 1..Len(RemoveAt(s, k)) :
              RemoveAt(s, k)[i] = IF i < k THEN s[i] ELSE s[i + 1]
<1> DEFINE a == SubSeq(s, 1, k - 1) b == SubSeq(s, k + 1, Len(s))
<1>0. Len(s) \in Nat /\ k \in Nat /\ k >= 1 /\ k <= Len(s)
  OBVIOUS
<1>1. a \in Seq(S) /\ Len(a) = k - 1 /\ \A i \in 1..(k - 1) : a[i] = s[i]
  BY <1>0
<1>2. b \in Seq(S) /\ Len(b) = Len(s) - k /\ \A i \in 1..(Len(s) - k) : b[i] = s[k + i]
  BY <1>0
<1> HIDE DEF a, b
<1>3. /\ a \o b \in Seq(S) /\ Len(a \o b) = Len(s) - 1
      /\ \A i \in 1..(Len(s) - 1) :
           (a \o b)[i] = IF i < k THEN a[i] ELSE b[i - (k - 1)]
  <2>1. /\ a \o b \in Seq(S) /\ Len(a \o b) = Len(a) + Len(b)
        /\ \A i \in 1..(Len(a) + Len(b)) :
             (a \o b)[i] = IF i <= Len(a) THEN a[i] ELSE b[i - Len(a)]
    BY <1>1, <1>2, ConcatProperties, Zenon
  <2>2. Len(a) + Len(b) = Len(s) - 1 /\ \A i \in Nat : i <= Len(a) <=> i < k
    BY <1>0, <1>1, <1>2
  <2> QED
    BY <1>1, <2>1, <2>2
<1>4. ASSUME NEW i \in 1..(Len(s) - 1)
      PROVE  (a \o b)[i] = IF i < k THEN s[i] ELSE s[i + 1]
  <2>1. CASE i < k
    BY <1>0, <1>1, <1>3, <2>1
  <2>2. CASE ~(i < k)
    <3>1. i - (k - 1) \in 1..(Len(s) - k) /\ k + (i - (k - 1)) = i + 1
      BY <1>0, <2>2
    <3> QED
      BY <1>2, <1>3, <2>2, <3>1
  <2> QED
    BY <2>1, <2>2
<1> QED
  BY <1>3, <1>4 DEF RemoveAt, a, b

-----------------------------------------------------------------------------
(* The stacks.                                                             *)

Inner(t) == stack[t][Len(stack[t])]

\* A step that leaves the transactions their tenants, and those of the pool.
Keeps ==
  /\ \A c \in Conns : tx'[c].tenant = tx[c].tenant
  /\ \A c \in free : tx'[c] = tx[c]

LEMMA InnerFacts ==
  ASSUME Typed, Phased, NEW t \in Tasks, stack[t] # <<>>
  PROVE  /\ Len(stack[t]) \in Nat \ {0} /\ Len(stack[t]) \in Depth(t)
         /\ Inner(t) \in Frame /\ Top(t) = Inner(t)
         /\ pc[t] # "waiting" => Inner(t).conn \in Conns
<1>1. stack[t] \in Seq(Frame)
  BY DEF Typed
<1>2. Len(stack[t]) \in Nat \ {0}
  BY <1>1
<1>3. Len(stack[t]) \in Depth(t) /\ Inner(t) \in Frame
  BY <1>1, <1>2 DEF Depth, Inner
<1>4. Top(t) = Inner(t)
  BY DEF Top, Last, Inner
<1>5. Inner(t).conn \in Conns \cup {NoConn}
  BY <1>3 DEF Frame
<1>6. pc[t] # "waiting" => Inner(t).conn # NoConn
  BY <1>3 DEF Phased, Inner
<1> QED
  BY <1>2, <1>3, <1>4, <1>5, <1>6

LEMMA FrameFacts ==
  ASSUME Typed, NEW t \in Tasks, NEW i \in Depth(t)
  PROVE  /\ i \in Nat /\ i >= 1 /\ stack[t][i] \in Frame
         /\ stack[t][i].conn # NoConn => stack[t][i].conn \in Conns
<1>1. stack[t] \in Seq(Frame)
  BY DEF Typed
<1>2. stack[t][i] \in Frame /\ i \in Nat /\ i >= 1
  BY <1>1 DEF Depth
<1> QED
  BY <1>2 DEF Frame

\* Steps that leave the stacks.
LEMMA SameStack ==
  ASSUME Typed, Stacked, NEW t \in Tasks, stack' = stack, free' = free, Keeps,
         pc[t] \in {"work", "throwing"}, pc'[t] \in {"work", "throwing"},
         \A u \in Tasks : u # t => pc'[u] = pc[u]
  PROVE  Stacked'
<1> USE DEF Stacked
<1>1. \A u \in Tasks : Depth(u)' = Depth(u)
  BY DEF Depth
<1>2. Phased'
  BY <1>1 DEF Phased
<1>3. Based'
  BY <1>1 DEF Based
<1>4. Outside' /\ PoolIdle'
  BY <1>1 DEF Outside, PoolIdle, Keeps
<1>5. \A u, i, c : Owns(u, i, c)' <=> Owns(u, i, c)
  BY DEF Owns, Depth
<1>6. Single' /\ Covered'
  BY <1>5 DEF Single, Covered
<1>7. Scoped'
  <2> SUFFICES ASSUME NEW u \in Tasks, NEW i \in Depth(u), stack[u][i].conn # NoConn,
                      ~(i = Len(stack[u]) /\ pc'[u] = "leased")
               PROVE  tx'[stack[u][i].conn].tenant = stack[u][i].mode
    BY <1>1 DEF Scoped
  <2>1. stack[u][i].conn \in Conns
    BY FrameFacts
  <2>2. ~(i = Len(stack[u]) /\ pc[u] = "leased")
    OBVIOUS
  <2>3. tx[stack[u][i].conn].tenant = stack[u][i].mode
    BY <2>2 DEF Scoped
  <2> QED
    BY <2>1, <2>3 DEF Keeps
<1> QED
  BY <1>2, <1>3, <1>4, <1>6, <1>7

\* A scope is entered: in the transaction of the innermost scope of its mode,
\* or to wait for a connection of its own.
LEMMA Push ==
  ASSUME Typed, Stacked, NEW t \in Tasks, NEW f \in Frame, UNCHANGED <<free, tx>>,
         stack' = [stack EXCEPT ![t] = Append(stack[t], f)],
         pc[t] \in {"idle", "work"},
         \A u \in Tasks : u # t => pc'[u] = pc[u],
         \/ pc'[t] = "waiting" /\ f.own /\ f.conn = NoConn
         \/ /\ pc'[t] = "work" /\ pc[t] = "work" /\ ~f.own
            /\ f.conn = Inner(t).conn /\ f.mode = Inner(t).mode
  PROVE  Stacked'
<1> USE DEF Stacked
<1> DEFINE n == Len(stack[t])
<1>1. stack[t] \in Seq(Frame) /\ n \in Nat
  BY DEF Typed
<1>2. stack'[t] = Append(stack[t], f)
  BY DEF Typed
<1>3. /\ stack'[t] # <<>> /\ Len(stack'[t]) = n + 1 /\ stack'[t][n + 1] = f
      /\ \A i \in 1..n : stack'[t][i] = stack[t][i]
  BY <1>1, <1>2, AppendFacts
<1>4. Depth(t)' = 1..(n + 1) /\ Depth(t) = 1..n
  BY <1>3 DEF Depth
<1>5. \A u \in Tasks : u # t => stack'[u] = stack[u] /\ Depth(u)' = Depth(u)
  BY DEF Typed, Depth
<1>6. pc[t] = "work" => Inner(t).conn \in Conns /\ n \in 1..n /\ Inner(t) = stack[t][n]
  BY <1>4, InnerFacts DEF Phased, Inner
<1>7. NoConn \notin Conns /\ NoConn \notin free
  BY TenantContextAssumption DEF Typed
<1>8. \A i \in 1..n : stack[t][i].conn # NoConn
  BY <1>4 DEF Phased
<1>9. \A i \in 1..(n + 1) : i \in 1..n \/ i = n + 1
  BY <1>1
<1> HIDE DEF n
<1>10. Phased'
  <2> SUFFICES ASSUME NEW u \in Tasks
               PROVE /\ pc'[u] = "idle" <=> stack'[u] = <<>>
                     /\ pc'[u] \in {"waiting", "leased"} => stack'[u][Len(stack'[u])].own
                     /\ pc'[u] = "waiting" => stack'[u][Len(stack'[u])].conn = NoConn
                     /\ \A i \in Depth(u)' : stack'[u][i].conn = NoConn =>
                          i = Len(stack'[u]) /\ pc'[u] = "waiting"
    BY DEF Phased
  <2>1. CASE u # t
    BY <1>5, <2>1 DEF Phased
  <2>2. CASE u = t
    <3>1. ASSUME NEW i \in 1..(n + 1), stack'[t][i].conn = NoConn
          PROVE  i = Len(stack'[t]) /\ pc'[t] = "waiting"
      <4>1. i = n + 1
        BY <1>3, <1>8, <1>9, <3>1
      <4> QED
        BY <1>3, <1>6, <1>7, <3>1, <4>1
    <3> QED
      BY <1>3, <1>4, <2>2, <3>1
  <2> QED
    BY <2>1, <2>2
<1>11. Based'
  <2> SUFFICES ASSUME NEW u \in Tasks, NEW i \in Depth(u)', stack'[u][i].conn # NoConn
               PROVE  HasBase(stack'[u], i)
    BY DEF Based
  <2>1. CASE u # t
    BY <1>5, <2>1 DEF Based
  <2>2. CASE u = t /\ i \in 1..n
    <3>1. HasBase(stack[t], i) /\ i \in Nat /\ i <= n
      BY <1>1, <1>3, <1>4, <2>2 DEF Based
    <3>2. PICK j \in 1..i : /\ stack[t][j].own /\ stack[t][j].conn = stack[t][i].conn
                            /\ stack[t][j].mode = stack[t][i].mode
      BY <3>1 DEF HasBase
    <3>3. stack'[t][j] = stack[t][j] /\ stack'[t][i] = stack[t][i]
      BY <1>1, <1>3, <2>2, <3>1
    <3>4. \E k \in 1..i : /\ stack'[t][k].own /\ stack'[t][k].conn = stack'[t][i].conn
                          /\ stack'[t][k].mode = stack'[t][i].mode
      BY <3>2, <3>3
    <3> QED
      BY <2>2, <3>4, Zenon DEF HasBase
  <2>3. CASE u = t /\ i = n + 1
    <3>1. pc[t] = "work" /\ f.conn = Inner(t).conn /\ f.mode = Inner(t).mode
      BY <1>3, <2>3
    <3>2. HasBase(stack[t], n)
      BY <1>4, <1>6, <1>7, <3>1 DEF Based
    <3>3. PICK j \in 1..n : /\ stack[t][j].own /\ stack[t][j].conn = stack[t][n].conn
                            /\ stack[t][j].mode = stack[t][n].mode
      BY <3>2 DEF HasBase
    <3>4. stack'[t][j] = stack[t][j] /\ j \in 1..i
      BY <1>1, <1>3, <2>3
    <3> QED
      BY <1>3, <1>6, <2>3, <3>1, <3>3, <3>4 DEF HasBase
  <2> QED
    BY <1>4, <1>9, <2>1, <2>2, <2>3
<1>12. Outside'
  <2> SUFFICES ASSUME NEW u \in Tasks, NEW i \in Depth(u)' PROVE stack'[u][i].conn \notin free
    BY DEF Outside
  <2>1. CASE u # t
    BY <1>5, <2>1 DEF Outside
  <2>2. CASE u = t /\ i \in 1..n
    BY <1>3, <1>4, <2>2 DEF Outside
  <2>3. CASE u = t /\ i = n + 1
    BY <1>3, <1>4, <1>6, <1>7, <2>3 DEF Outside
  <2> QED
    BY <1>4, <1>9, <2>1, <2>2, <2>3
<1>13. ASSUME NEW u \in Tasks, NEW i \in Nat, NEW c \in Conns
       PROVE  Owns(u, i, c)' <=> Owns(u, i, c)
  <2>1. CASE u # t
    BY <1>5, <2>1 DEF Owns
  <2>2. CASE u = t
    <3>1. CASE i \in 1..n
      BY <1>1, <1>3, <1>4, <2>2, <3>1 DEF Owns
    <3>2. CASE i = n + 1
      <4>1. ~(f.own /\ f.conn = c)
        BY <1>7
      <4> QED
        BY <1>1, <1>3, <1>4, <2>2, <3>2, <4>1 DEF Owns
    <3>3. CASE i \notin 1..(n + 1)
      BY <1>1, <1>4, <2>2, <3>3 DEF Owns
    <3> QED
      BY <1>9, <3>1, <3>2, <3>3
  <2> QED
    BY <2>1, <2>2
<1>14. Single' /\ Covered' /\ PoolIdle'
  BY <1>13 DEF Single, Covered, PoolIdle
<1>15. Scoped'
  <2> SUFFICES ASSUME NEW u \in Tasks, NEW i \in Depth(u)', stack'[u][i].conn # NoConn,
                      ~(i = Len(stack'[u]) /\ pc'[u] = "leased")
               PROVE  tx[stack'[u][i].conn].tenant = stack'[u][i].mode
    BY DEF Scoped
  <2>1. CASE u # t
    BY <1>5, <2>1 DEF Scoped
  <2>2. CASE u = t /\ i \in 1..n
    <3>1. i \in Depth(t) /\ stack'[t][i] = stack[t][i] /\ pc[t] # "leased"
      BY <1>3, <1>4, <2>2
    <3>2. tx[stack[t][i].conn].tenant = stack[t][i].mode
      BY <1>8, <1>4, <3>1 DEF Scoped
    <3> QED
      BY <2>2, <3>1, <3>2
  <2>3. CASE u = t /\ i = n + 1
    <3>1. pc[t] = "work" /\ f.conn = Inner(t).conn /\ f.mode = Inner(t).mode
      BY <1>3, <2>3
    <3> QED
      BY <1>3, <1>4, <1>6, <1>7, <2>3, <3>1 DEF Scoped
  <2> QED
    BY <1>4, <1>9, <2>1, <2>2, <2>3
<1> QED
  BY <1>10, <1>11, <1>12, <1>14, <1>15

\* A scope is left: one that has leased a connection returns it, any other
\* leaves the transactions their tenants.
LEMMA Pop ==
  ASSUME Typed, Stacked, NEW t \in Tasks, stack[t] # <<>>,
         stack' = [stack EXCEPT ![t] = Front(stack[t])],
         \A u \in Tasks : u # t => pc'[u] = pc[u],
         pc'[t] \in {"idle", "work", "throwing"},
         pc'[t] = "idle" <=> Front(stack[t]) = <<>>,
         \/ /\ Inner(t).own /\ Inner(t).conn # NoConn
            /\ free' = free \cup {Inner(t).conn}
            /\ tx' = [tx EXCEPT ![Inner(t).conn] = IdleTx]
         \/ ~Inner(t).own /\ free' = free /\ Keeps
         \/ Inner(t).conn = NoConn /\ free' = free /\ Keeps
  PROVE  Stacked'
<1> USE DEF Stacked
<1> DEFINE n == Len(stack[t]) d == Inner(t).conn Returned == Inner(t).own /\ d # NoConn
<1>1. stack[t] \in Seq(Frame) /\ n \in Nat \ {0} /\ Inner(t) = stack[t][n] /\ n \in 1..n
  <2>1. stack[t] \in Seq(Frame)
    BY DEF Typed
  <2> QED
    BY <2>1, InnerFacts DEF Inner
<1>2. stack'[t] = Front(stack[t])
  BY DEF Typed
<1>3. /\ Len(stack'[t]) = n - 1 /\ (stack'[t] = <<>> <=> n = 1)
      /\ \A i \in 1..(n - 1) : stack'[t][i] = stack[t][i]
  BY <1>1, <1>2, FrontFacts
<1>4. Depth(t)' = 1..(n - 1) /\ Depth(t) = 1..n
  BY <1>3 DEF Depth
<1>5. \A u \in Tasks : u # t => stack'[u] = stack[u] /\ Depth(u)' = Depth(u)
  BY DEF Typed, Depth
<1>6. \A u \in Tasks : Depth(u)' \subseteq Depth(u)
  BY <1>1, <1>4, <1>5
<1>7. \A u \in Tasks : \A i \in Depth(u)' : stack'[u][i] = stack[u][i]
  BY <1>3, <1>4, <1>5
<1>8. NoConn \notin Conns /\ NoConn \notin free /\ d \in Conns \cup {NoConn}
  <2>1. Inner(t) \in Frame
    BY InnerFacts
  <2> QED
    BY <2>1, TenantContextAssumption DEF Typed, Frame
<1>9. \A u \in Tasks, i \in Nat, c \in Conns :
        Owns(u, i, c)' <=> Owns(u, i, c) /\ i \in Depth(u)'
  <2> SUFFICES ASSUME NEW u \in Tasks, NEW i \in Nat, NEW c \in Conns
               PROVE  Owns(u, i, c)' <=> Owns(u, i, c) /\ i \in Depth(u)'
    OBVIOUS
  <2>1. CASE i \in Depth(u)'
    <3>1. i \in Depth(u) /\ stack'[u][i] = stack[u][i]
      BY <1>6, <1>7, <2>1
    <3> QED
      BY <2>1, <3>1 DEF Owns
  <2>2. CASE i \notin Depth(u)'
    BY <2>2 DEF Owns
  <2> QED
    BY <2>1, <2>2
<1>10. \A u \in Tasks : \A i \in Depth(u) : i \in Depth(u)' \/ (u = t /\ i = n)
  BY <1>1, <1>4, <1>5
<1>11. n \notin Depth(t)' /\ n \in Nat
  BY <1>1, <1>4
<1>12. Returned => Owns(t, n, d) /\ d \in Conns
  BY <1>1, <1>4, <1>8 DEF Owns
<1>13. \/ Returned /\ free' = free \cup {d} /\ tx' = [tx EXCEPT ![d] = IdleTx]
       \/ ~Returned /\ free' = free /\ Keeps
  BY Zenon
<1>14. Phased'
  <2> SUFFICES ASSUME NEW u \in Tasks
               PROVE /\ pc'[u] = "idle" <=> stack'[u] = <<>>
                     /\ pc'[u] \in {"waiting", "leased"} => stack'[u][Len(stack'[u])].own
                     /\ pc'[u] = "waiting" => stack'[u][Len(stack'[u])].conn = NoConn
                     /\ \A i \in Depth(u)' : stack'[u][i].conn = NoConn =>
                          i = Len(stack'[u]) /\ pc'[u] = "waiting"
    BY DEF Phased
  <2>1. CASE u # t
    BY <1>5, <2>1 DEF Phased
  <2>2. CASE u = t
    <3>1. \A i \in Depth(t)' : stack'[t][i].conn # NoConn
      <4> SUFFICES ASSUME NEW i \in Depth(t)' PROVE stack[t][i].conn # NoConn
        BY <1>7
      <4>1. i \in Depth(t) /\ i # n
        BY <1>6, <1>11
      <4> QED
        BY <4>1 DEF Phased
    <3> QED
      BY <1>2, <2>2, <3>1
  <2> QED
    BY <2>1, <2>2
<1>15. Based'
  <2> SUFFICES ASSUME NEW u \in Tasks, NEW i \in Depth(u)', stack[u][i].conn # NoConn
               PROVE  HasBase(stack'[u], i)
    BY <1>7 DEF Based
  <2>1. HasBase(stack[u], i)
    BY <1>6 DEF Based
  <2>2. \A j \in 1..i : j \in Depth(u)'
    BY DEF Depth
  <2> QED
    BY <1>7, <2>1, <2>2 DEF HasBase
\* Nobody else uses a connection that is returned.
<1>16. ASSUME Returned, NEW u \in Tasks, NEW i \in Depth(u)' PROVE stack[u][i].conn # d
  <2> SUFFICES ASSUME stack[u][i].conn = d PROVE FALSE
    OBVIOUS
  <2>1. HasBase(stack[u], i) /\ i \in Depth(u)
    BY <1>6, <1>16 DEF Based
  <2>2. PICK j \in 1..i : stack[u][j].own /\ stack[u][j].conn = d
    BY <2>1 DEF HasBase
  <2>3. j \in Nat /\ j \in Depth(u)' /\ j \in Depth(u)
    BY <1>6, <2>2 DEF Depth
  <2>4. Owns(u, j, d)
    BY <2>2, <2>3 DEF Owns
  <2>5. u = t /\ j = n
    BY <1>11, <1>12, <1>16, <2>3, <2>4 DEF Single
  <2> QED
    BY <1>11, <2>3, <2>5
<1>17. Outside'
  <2> SUFFICES ASSUME NEW u \in Tasks, NEW i \in Depth(u)' PROVE stack[u][i].conn \notin free'
    BY <1>7 DEF Outside
  <2>1. stack[u][i].conn \notin free
    BY <1>6 DEF Outside
  <2> QED
    BY <1>13, <1>16, <2>1
<1>18. Single'
  BY <1>9 DEF Single
<1>19. Covered'
  <2> SUFFICES ASSUME NEW c \in Conns \ free'
               PROVE  \E u \in Tasks : \E i \in Nat : Owns(u, i, c) /\ i \in Depth(u)'
    BY <1>9 DEF Covered
  <2>1. c \notin free
    BY <1>13
  <2>2. PICK u \in Tasks : \E i \in Nat : Owns(u, i, c)
    BY <2>1 DEF Covered
  <2>3. PICK i \in Nat : Owns(u, i, c)
    BY <2>2
  <2>4. ~(u = t /\ i = n)
    <3> SUFFICES ASSUME u = t, i = n PROVE FALSE
      OBVIOUS
    <3>1. Inner(t).own /\ d = c
      BY <1>1, <2>3 DEF Owns
    <3> QED
      BY <1>8, <1>13, <3>1
  <2>5. i \in Depth(u)'
    BY <1>10, <2>3, <2>4 DEF Owns
  <2> QED
    BY <2>3, <2>5
<1>20. PoolIdle'
  <2> SUFFICES ASSUME NEW c \in free' PROVE tx'[c] = IdleTx
    BY DEF PoolIdle
  <2>1. CASE Returned /\ free' = free \cup {d} /\ tx' = [tx EXCEPT ![d] = IdleTx]
    BY <1>12, <2>1 DEF PoolIdle, Typed
  <2>2. CASE ~Returned /\ free' = free /\ Keeps
    BY <2>2 DEF PoolIdle, Keeps
  <2> QED
    BY <1>13, <2>1, <2>2
<1>21. Scoped'
  <2> SUFFICES ASSUME NEW u \in Tasks, NEW i \in Depth(u)', stack[u][i].conn # NoConn,
                      ~(i = Len(stack'[u]) /\ pc'[u] = "leased")
               PROVE  tx'[stack[u][i].conn].tenant = stack[u][i].mode
    BY <1>7 DEF Scoped
  <2>1. i \in Depth(u) /\ stack[u][i].conn \in Conns
    BY <1>6, FrameFacts
  <2>2. ~(i = Len(stack[u]) /\ pc[u] = "leased")
    <3>1. CASE u = t
      BY <1>11, <3>1
    <3>2. CASE u # t
      BY <1>5, <3>2
    <3> QED
      BY <3>1, <3>2
  <2>3. tx[stack[u][i].conn].tenant = stack[u][i].mode
    BY <2>1, <2>2 DEF Scoped
  <2>4. tx'[stack[u][i].conn].tenant = tx[stack[u][i].conn].tenant
    <3>1. CASE Returned /\ free' = free \cup {d} /\ tx' = [tx EXCEPT ![d] = IdleTx]
      BY <1>16, <2>1, <3>1 DEF Typed
    <3>2. CASE ~Returned /\ free' = free /\ Keeps
      BY <2>1, <3>2 DEF Keeps
    <3> QED
      BY <1>13, <3>1, <3>2
  <2> QED
    BY <2>3, <2>4
<1> QED
  BY <1>14, <1>15, <1>17, <1>18, <1>19, <1>20, <1>21

\* The pool grants a connection to the oldest of the waiting scopes.
LEMMA GrantStep ==
  ASSUME Typed, Queued, Stacked, NEW c \in Conns, Grant(c)
  PROVE  Stacked' /\ stack' \in [Tasks -> Seq(Frame)]
<1> USE DEF Stacked
<1>t. PICK t \in Tasks : t = Head(queue)
  <2>1. queue \in Seq(Tasks) /\ queue # <<>>
    BY DEF Typed, Grant
  <2> QED
    BY <2>1
<1> DEFINE n == Len(stack[t]) f == [stack[t][n] EXCEPT !.conn = c]
<1>0. /\ c \in free /\ pc[t] = "waiting" /\ stack[t] # <<>>
      /\ stack' = [stack EXCEPT ![t] = [stack[t] EXCEPT ![n] = f]]
      /\ pc' = [pc EXCEPT ![t] = "leased"] /\ free' = free \ {c} /\ tx' = tx
  <2>1. queue \in Seq(Tasks) /\ queue # <<>>
    BY DEF Typed, Grant
  <2>2. t = queue[1] /\ 1 \in 1..Len(queue)
    BY <1>t, <2>1
  <2>3. pc[t] = "waiting" /\ stack[t] # <<>>
    BY <2>2 DEF Queued, Phased
  <2> QED
    BY <1>t, <2>2, <2>3 DEF Grant
<1>1. stack[t] \in Seq(Frame) /\ n \in Nat \ {0} /\ n \in 1..n /\ stack[t][n] \in Frame
  <2>1. stack[t] \in Seq(Frame)
    BY <1>0 DEF Typed
  <2> QED
    BY <1>0, <2>1, InnerFacts DEF Inner
<1>2. stack[t][n].own /\ stack[t][n].conn = NoConn
  BY <1>0 DEF Phased
<1>3. /\ f \in Frame /\ f.conn = c /\ f.own /\ f.mode = stack[t][n].mode
  BY <1>1, <1>2 DEF Frame
<1> HIDE DEF n, f
<1>4. /\ stack'[t] \in Seq(Frame) /\ Len(stack'[t]) = n /\ stack'[t][n] = f
      /\ \A i \in 1..n : i # n => stack'[t][i] = stack[t][i]
  <2>1. stack'[t] = [stack[t] EXCEPT ![n] = f]
    BY <1>0 DEF Typed
  <2>2. Len(stack[t]) = n
    BY DEF n
  <2> QED
    BY <1>1, <1>3, <2>1, <2>2
<1>5. Depth(t)' = 1..n /\ Depth(t) = 1..n
  BY <1>4 DEF Depth, n
<1>6. \A u \in Tasks : u # t => stack'[u] = stack[u] /\ pc'[u] = pc[u] /\ Depth(u)' = Depth(u)
  BY <1>0 DEF Typed, Depth
<1>7. \A u \in Tasks : Depth(u)' = Depth(u)
  BY <1>5, <1>6
<1>8. \A u \in Tasks : \A i \in Depth(u) : ~(u = t /\ i = n) => stack'[u][i] = stack[u][i]
  BY <1>4, <1>5, <1>6
<1>9. NoConn \notin Conns /\ pc'[t] = "leased"
  BY <1>0, TenantContextAssumption DEF Typed
<1>10. stack' \in [Tasks -> Seq(Frame)]
  <2>1. stack' = [stack EXCEPT ![t] = stack'[t]]
    BY <1>0 DEF Typed
  <2> QED
    BY <1>4, <2>1 DEF Typed
<1>11. Phased'
  <2> SUFFICES ASSUME NEW u \in Tasks
               PROVE /\ pc'[u] = "idle" <=> stack'[u] = <<>>
                     /\ pc'[u] \in {"waiting", "leased"} => stack'[u][Len(stack'[u])].own
                     /\ pc'[u] = "waiting" => stack'[u][Len(stack'[u])].conn = NoConn
                     /\ \A i \in Depth(u)' : stack'[u][i].conn = NoConn =>
                          i = Len(stack'[u]) /\ pc'[u] = "waiting"
    BY DEF Phased
  <2>1. CASE u # t
    BY <1>6, <2>1 DEF Phased
  <2>2. CASE u = t
    <3>1. stack'[t] # <<>>
      BY <1>1, <1>4
    <3>2. \A i \in 1..n : stack'[t][i].conn # NoConn
      <4>1. \A i \in 1..n : i # n => stack[t][i].conn # NoConn
        BY <1>5 DEF Phased, n
      <4> QED
        BY <1>3, <1>4, <1>9, <4>1
    <3> QED
      BY <1>3, <1>4, <1>5, <1>9, <2>2, <3>1, <3>2
  <2> QED
    BY <2>1, <2>2
<1>12. Based'
  <2> SUFFICES ASSUME NEW u \in Tasks, NEW i \in Depth(u), stack'[u][i].conn # NoConn
               PROVE  HasBase(stack'[u], i)
    BY <1>7 DEF Based
  <2>1. CASE u = t /\ i = n
    BY <1>1, <1>3, <1>4, <2>1 DEF HasBase
  <2>2. CASE ~(u = t /\ i = n)
    <3>1. HasBase(stack[u], i) /\ stack'[u][i] = stack[u][i]
      BY <1>8, <2>2 DEF Based
    <3>2. PICK j \in 1..i : /\ stack[u][j].own /\ stack[u][j].conn = stack[u][i].conn
                            /\ stack[u][j].mode = stack[u][i].mode
      BY <3>1 DEF HasBase
    <3>3. j \in Depth(u)
      BY DEF Depth
    <3>4. ~(u = t /\ j = n)
      BY <1>2, <2>2, <3>1, <3>2
    <3> QED
      BY <1>8, <3>1, <3>2, <3>3, <3>4 DEF HasBase
  <2> QED
    BY <2>1, <2>2
<1>13. Outside'
  <2> SUFFICES ASSUME NEW u \in Tasks, NEW i \in Depth(u) PROVE stack'[u][i].conn \notin free'
    BY <1>7 DEF Outside
  <2>1. CASE u = t /\ i = n
    BY <1>0, <1>3, <1>4, <2>1
  <2>2. CASE ~(u = t /\ i = n)
    BY <1>0, <1>8, <2>2 DEF Outside
  <2> QED
    BY <2>1, <2>2
<1>14. ASSUME NEW u \in Tasks, NEW i \in Nat, NEW x \in Conns
       PROVE  Owns(u, i, x)' <=> Owns(u, i, x) \/ (u = t /\ i = n /\ x = c)
  <2>1. CASE u = t /\ i = n
    BY <1>1, <1>2, <1>3, <1>4, <1>5, <1>9, <2>1 DEF Owns
  <2>2. CASE ~(u = t /\ i = n)
    BY <1>7, <1>8, <2>2 DEF Owns
  <2> QED
    BY <2>1, <2>2
<1>15. \A u \in Tasks, i \in Nat : ~Owns(u, i, c)
  BY <1>0 DEF Owns, Outside
<1>16. Single'
  BY <1>14, <1>15 DEF Single
<1>17. Covered'
  <2> SUFFICES ASSUME NEW x \in Conns, x \notin free'
               PROVE  \E u \in Tasks : \E i \in Nat : Owns(u, i, x)'
    BY DEF Covered
  <2>1. CASE x = c
    BY <1>1, <1>14, <2>1
  <2>2. CASE x # c
    <3>1. x \in Conns \ free
      BY <1>0, <2>2
    <3> QED
      BY <1>14, <3>1 DEF Covered
  <2> QED
    BY <2>1, <2>2
<1>18. PoolIdle'
  BY <1>0 DEF PoolIdle
<1>19. Scoped'
  <2> SUFFICES ASSUME NEW u \in Tasks, NEW i \in Depth(u), stack'[u][i].conn # NoConn,
                      ~(i = Len(stack'[u]) /\ pc'[u] = "leased")
               PROVE  tx[stack'[u][i].conn].tenant = stack'[u][i].mode
    BY <1>0, <1>7 DEF Scoped
  <2>1. ~(u = t /\ i = n)
    BY <1>4, <1>9
  <2>2. ~(i = Len(stack[u]) /\ pc[u] = "leased")
    BY <1>0, <1>4, <1>6 DEF n
  <2> QED
    BY <1>8, <2>1, <2>2 DEF Scoped
<1> QED
  BY <1>10, <1>11, <1>12, <1>13, <1>16, <1>17, <1>18, <1>19

\* The transaction of a leased connection is set to the tenant of its scope.
LEMMA OpenStep ==
  ASSUME Typed, Stacked, NEW t \in Tasks, Open(t)
  PROVE  Stacked'
<1> USE DEF Stacked
<1> DEFINE n == Len(stack[t]) d == Inner(t).conn
<1>1. pc[t] = "leased" /\ stack[t] # <<>>
  BY DEF Open, Phased
<1>2. n \in Nat /\ n \in Depth(t) /\ Top(t) = Inner(t) /\ d \in Conns /\ Inner(t) = stack[t][n]
  BY <1>1, InnerFacts DEF Inner
<1>3. /\ \A c \in Conns : c # d => tx'[c] = tx[c]
      /\ tx'[d].tenant = Inner(t).mode
      /\ pc' = [pc EXCEPT ![t] = "work"] /\ UNCHANGED <<stack, queue, free>>
  <2>1. tx' = [tx EXCEPT ![d] = [IdleTx EXCEPT !.state = "open", !.tenant = Inner(t).mode]]
    BY <1>2 DEF Open
  <2>2. tx'[d] = [IdleTx EXCEPT !.state = "open", !.tenant = Inner(t).mode]
    BY <1>2, <2>1 DEF Typed
  <2>3. \A c \in Conns : c # d => tx'[c] = tx[c]
    BY <2>1 DEF Typed
  <2>4. tx'[d].tenant = Inner(t).mode
    BY <2>2 DEF IdleTx
  <2> QED
    BY <2>3, <2>4 DEF Open
<1>4. Inner(t).own /\ Owns(t, n, d)
  BY <1>1, <1>2 DEF Phased, Owns
<1>5. d \notin free
  BY <1>2 DEF Outside
<1> HIDE DEF n, d
<1>6. \A u \in Tasks : Depth(u)' = Depth(u)
  BY <1>3 DEF Depth
<1>7. Phased'
  <2> SUFFICES ASSUME NEW u \in Tasks
               PROVE /\ pc'[u] = "idle" <=> stack[u] = <<>>
                     /\ pc'[u] \in {"waiting", "leased"} => stack[u][Len(stack[u])].own
                     /\ pc'[u] = "waiting" => stack[u][Len(stack[u])].conn = NoConn
                     /\ \A i \in Depth(u) : stack[u][i].conn = NoConn =>
                          i = Len(stack[u]) /\ pc'[u] = "waiting"
    BY <1>3, <1>6 DEF Phased
  <2>1. pc'[u] = IF u = t THEN "work" ELSE pc[u]
    BY <1>3 DEF Typed
  <2> QED
    BY <1>1, <2>1 DEF Phased
<1>8. Based' /\ Outside'
  BY <1>3, <1>6 DEF Based, Outside
<1>9. \A u, i, c : Owns(u, i, c)' <=> Owns(u, i, c)
  BY <1>3 DEF Owns, Depth
<1>10. Single' /\ Covered'
  BY <1>3, <1>9 DEF Single, Covered
<1>11. PoolIdle'
  BY <1>3, <1>5 DEF PoolIdle, Typed
<1>12. Scoped'
  <2> SUFFICES ASSUME NEW u \in Tasks, NEW i \in Depth(u), stack[u][i].conn # NoConn,
                      ~(i = Len(stack[u]) /\ pc'[u] = "leased")
               PROVE  tx'[stack[u][i].conn].tenant = stack[u][i].mode
    BY <1>3, <1>6 DEF Scoped
  <2>0. stack[u][i].conn \in Conns /\ i \in Nat
    BY FrameFacts
  <2>1. CASE stack[u][i].conn = d
    <3>1. PICK j \in 1..i : /\ stack[u][j].own /\ stack[u][j].conn = d
                            /\ stack[u][j].mode = stack[u][i].mode
      BY <2>1 DEF Based, HasBase
    <3>2. j \in Depth(u) /\ j \in Nat /\ j <= i
      BY <2>0 DEF Depth
    <3>3. u = t /\ j = n
      BY <1>2, <1>4, <2>0, <2>1, <3>1, <3>2 DEF Single, Owns
    <3> QED
      BY <1>2, <1>3, <2>1, <3>1, <3>3
  <2>2. CASE stack[u][i].conn # d
    <3>1. ~(u = t /\ i = n)
      BY <1>2, <2>2 DEF d
    <3>2. ~(i = Len(stack[u]) /\ pc[u] = "leased")
      BY <1>3, <3>1 DEF n, Typed
    <3> QED
      BY <1>3, <2>0, <2>2, <3>2 DEF Scoped
  <2> QED
    BY <2>1, <2>2
<1> QED
  BY <1>7, <1>8, <1>10, <1>11, <1>12

-----------------------------------------------------------------------------
(* The steps.                                                              *)

\* The innermost scope of t is left.
Left(t) ==
  /\ stack' = [stack EXCEPT ![t] = Front(stack[t])]
  /\ \E next \in {"idle", "work", "throwing"} :
       pc' = [pc EXCEPT ![t] = next] /\ (next = "idle" <=> Front(stack[t]) = <<>>)

LEMMA LeaveIsLeft ==
  ASSUME NEW t, NEW STATE W, Resolve(t, W) \/ Reject(t, W) PROVE Left(t)
<1>1. PICK C : Leave(t, C, W) /\ (C = Continues(Front(stack[t])) \/ C = Thrown(Front(stack[t])))
  BY DEF Resolve, Reject
<1>2. PICK next \in C : pc' = [pc EXCEPT ![t] = next]
  BY <1>1 DEF Leave
<1>3. next \in {"idle", "work", "throwing"} /\ (next = "idle" <=> Front(stack[t]) = <<>>)
  BY <1>1, <1>2 DEF Continues, Thrown
<1> QED
  BY <1>1, <1>2, <1>3 DEF Left, Leave

LEMMA LeftStep ==
  ASSUME Typed, Stacked, NEW t \in Tasks, stack[t] # <<>>, Left(t),
         \/ Inner(t).own /\ Inner(t).conn # NoConn /\ Release(t)
         \/ (~Inner(t).own \/ Inner(t).conn = NoConn) /\ free' = free /\ Keeps
  PROVE  /\ Stacked'
         /\ stack' \in [Tasks -> Seq(Frame)] /\ pc' \in [Tasks -> Phases]
         /\ \A u \in Tasks : u # t => pc'[u] = pc[u]
<1>1. PICK next \in {"idle", "work", "throwing"} :
        pc' = [pc EXCEPT ![t] = next] /\ (next = "idle" <=> Front(stack[t]) = <<>>)
  BY DEF Left
<1>2. /\ pc' \in [Tasks -> Phases] /\ pc'[t] = next
      /\ \A u \in Tasks : u # t => pc'[u] = pc[u]
  BY <1>1 DEF Typed, Phases
<1>3. Front(stack[t]) \in Seq(Frame)
  BY FrontFacts DEF Typed
<1>4. stack' = [stack EXCEPT ![t] = Front(stack[t])] /\ stack' \in [Tasks -> Seq(Frame)]
  BY <1>3 DEF Left, Typed
<1>5. Top(t) = Inner(t)
  BY InnerFacts DEF Stacked
<1>6. Release(t) => /\ free' = free \cup {Inner(t).conn}
                    /\ tx' = [tx EXCEPT ![Inner(t).conn] = IdleTx]
  BY <1>5 DEF Release
<1>7. Stacked'
  BY <1>1, <1>2, <1>4, <1>6, Pop
<1> QED
  BY <1>2, <1>4, <1>7

LEMMA QueueKept ==
  ASSUME Typed, Queued, NEW t \in Tasks, pc[t] # "waiting", queue' = queue,
         \A u \in Tasks : u # t => pc'[u] = pc[u]
  PROVE  Queued'
<1>1. \A k \in 1..Len(queue) : queue[k] \in Tasks
  BY DEF Typed
<1> QED
  BY <1>1 DEF Queued

\* One transaction changes.
LEMMA TxFacts ==
  ASSUME Typed, NEW c \in Conns, NEW x \in Transaction, tx' = [tx EXCEPT ![c] = x]
  PROVE  /\ tx' \in [Conns -> Transaction] /\ tx'[c] = x
         /\ \A d \in Conns : d # c => tx'[d] = tx[d]
BY DEF Typed

\* A connection that is returned has no rows.
LEMMA ReleaseStep ==
  ASSUME Typed, Stacked, OwnTenantOnly, NEW t \in Tasks, stack[t] # <<>>, pc[t] # "waiting",
         Release(t)
  PROVE  tx' \in [Conns -> Transaction] /\ free' \subseteq Conns /\ OwnTenantOnly'
<1>1. Top(t) = Inner(t) /\ Inner(t).conn \in Conns
  BY InnerFacts DEF Stacked
<1>2. IdleTx \in Transaction /\ IdleTx.acked = {}
  BY DEF IdleTx, Transaction, Modes
<1>3. /\ tx' \in [Conns -> Transaction] /\ tx'[Inner(t).conn] = IdleTx
      /\ \A d \in Conns : d # Inner(t).conn => tx'[d] = tx[d]
  BY <1>1, <1>2, TxFacts DEF Release
<1>4. OwnTenantOnly'
  BY <1>2, <1>3 DEF OwnTenantOnly
<1>5. free' \subseteq Conns
  BY <1>1 DEF Release, Typed
<1> QED
  BY <1>3, <1>4, <1>5

LEMMA ScopeStep ==
  ASSUME Invariant, NEW t \in Tasks, NEW m \in ModesOf[t],
         LeaseScope(t, m) \/ \E save \in BOOLEAN : ReuseScope(t, m, save)
  PROVE  Invariant'
<1> USE DEF Invariant
<1>1. m \in Modes /\ opened[t] + 1 \in Nat /\ pc[t] \in {"idle", "work"} /\ pc[t] # "waiting"
  <2>1. m \in Modes
    BY TenantContextAssumption DEF Modes
  <2>2. pc[t] \in {"idle", "work"}
    BY DEF LeaseScope, ReuseScope, MayEnter
  <2> QED
    BY <2>1, <2>2 DEF Typed
<1>2. ASSUME UNCHANGED tx PROVE OwnTenantOnly'
  BY <1>2 DEF OwnTenantOnly
<1>3. CASE LeaseScope(t, m)
  <2> DEFINE f == Scope(t, m, NoConn, TRUE, FALSE, {})
  <2>1. f \in Frame /\ f.own /\ f.conn = NoConn
    BY <1>1 DEF Scope, Frame
  <2>2. /\ stack' = [stack EXCEPT ![t] = Append(stack[t], f)]
        /\ pc' = [pc EXCEPT ![t] = "waiting"] /\ queue' = Append(queue, t)
        /\ UNCHANGED <<free, tx>> /\ opened' = [opened EXCEPT ![t] = opened[t] + 1]
    BY <1>3 DEF LeaseScope
  <2> HIDE DEF f
  <2>3. /\ pc' \in [Tasks -> Phases] /\ pc'[t] = "waiting"
        /\ \A u \in Tasks : u # t => pc'[u] = pc[u]
    BY <2>2 DEF Typed, Phases
  <2>4. Stacked'
    BY <1>1, <2>1, <2>2, <2>3, Push
  <2>5. stack' \in [Tasks -> Seq(Frame)]
    <3>1. Append(stack[t], f) \in Seq(Frame)
      BY <2>1, AppendFacts DEF Typed
    <3> QED
      BY <2>2, <3>1 DEF Typed
  <2>6. /\ queue' \in Seq(Tasks) /\ Len(queue) \in Nat /\ Len(queue') = Len(queue) + 1
        /\ queue'[Len(queue) + 1] = t /\ \A k \in 1..Len(queue) : queue'[k] = queue[k]
    BY <2>2, AppendFacts DEF Typed
  <2>7. Queued'
    <3>1. \A k \in 1..Len(queue) : queue[k] \in Tasks /\ queue[k] # t
      BY <1>1 DEF Queued, Typed
    <3>2. \A k \in 1..(Len(queue) + 1) : k \in 1..Len(queue) \/ k = Len(queue) + 1
      BY <2>6
    <3>3. \A k \in 1..Len(queue') : pc'[queue'[k]] = "waiting"
      BY <2>3, <2>6, <3>1, <3>2 DEF Queued
    <3>4. \A k, l \in 1..Len(queue') : queue'[k] = queue'[l] => k = l
      BY <2>6, <3>1, <3>2 DEF Queued
    <3> QED
      BY <3>3, <3>4 DEF Queued
  <2>8. opened' \in [Tasks -> Nat] /\ free' \subseteq Conns /\ tx' \in [Conns -> Transaction]
    BY <1>1, <2>2 DEF Typed
  <2> QED
    BY <1>2, <2>2, <2>3, <2>4, <2>5, <2>6, <2>7, <2>8 DEF Typed
<1>4. ASSUME NEW save \in BOOLEAN, ReuseScope(t, m, save) PROVE Invariant'
  <2> DEFINE f == Scope(t, m, Top(t).conn, FALSE, save, TopTx(t).writes)
  <2>1. /\ stack[t] # <<>> /\ Top(t).mode = m /\ UNCHANGED <<queue, free, tx>>
        /\ opened' = [opened EXCEPT ![t] = opened[t] + 1]
    BY <1>4 DEF ReuseScope, Reuses
  <2>2. pc[t] = "work" /\ Top(t) = Inner(t) /\ Inner(t).conn \in Conns
    <3>1. pc[t] = "work"
      BY <1>1, <2>1 DEF Stacked, Phased
    <3> QED
      BY <2>1, <3>1, InnerFacts DEF Stacked
  <2>3. f \in Frame /\ ~f.own /\ f.conn = Inner(t).conn /\ f.mode = Inner(t).mode
    <3>1. TopTx(t).writes \in SUBSET WriteRecord
      BY <2>2 DEF TopTx, Typed, Transaction
    <3> QED
      BY <1>1, <2>1, <2>2, <3>1 DEF Scope, Frame
  <2>4. \/ /\ stack' = stack
           /\ \E next \in {"work", "throwing"} : pc' = [pc EXCEPT ![t] = next]
        \/ stack' = [stack EXCEPT ![t] = Append(stack[t], f)] /\ pc' = pc
    BY <1>4 DEF ReuseScope
  <2> HIDE DEF f
  <2>5. /\ pc' \in [Tasks -> Phases] /\ pc'[t] \in {"work", "throwing"}
        /\ \A u \in Tasks : u # t => pc'[u] = pc[u]
    BY <2>2, <2>4 DEF Typed, Phases
  <2>6. Stacked' /\ stack' \in [Tasks -> Seq(Frame)]
    <3>1. CASE stack' = stack
      <4>1. Keeps
        BY <2>1 DEF Keeps
      <4> QED
        BY <2>1, <2>2, <2>5, <3>1, <4>1, SameStack DEF Typed
    <3>2. CASE stack' = [stack EXCEPT ![t] = Append(stack[t], f)] /\ pc' = pc
      <4>1. Append(stack[t], f) \in Seq(Frame)
        BY <2>3, AppendFacts DEF Typed
      <4>2. Stacked'
        BY <1>1, <2>1, <2>2, <2>3, <3>2, Push
      <4> QED
        BY <3>2, <4>1, <4>2 DEF Typed
    <3> QED
      BY <2>4, <3>1, <3>2
  <2>7. Queued'
    BY <1>1, <2>1, <2>5, QueueKept
  <2>8. opened' \in [Tasks -> Nat]
    BY <1>1, <2>1 DEF Typed
  <2> QED
    BY <1>2, <2>1, <2>5, <2>6, <2>7, <2>8 DEF Typed
<1> QED
  BY <1>3, <1>4

LEMMA PoolStep ==
  ASSUME Invariant, NEW c \in Conns, Grant(c) PROVE Invariant'
<1> USE DEF Invariant
<1>0. queue \in Seq(Tasks) /\ queue # <<>> /\ queue' = Tail(queue)
      /\ UNCHANGED <<tx, opened>> /\ free' = free \ {c}
  BY DEF Grant, Typed
<1>1. PICK t \in Tasks : t = Head(queue)
  BY <1>0
<1>2. t = queue[1] /\ pc' = [pc EXCEPT ![t] = "leased"]
  BY <1>0, <1>1 DEF Grant
<1>3. Stacked' /\ stack' \in [Tasks -> Seq(Frame)]
  BY GrantStep
<1>4. /\ queue' \in Seq(Tasks) /\ Len(queue') = Len(queue) - 1 /\ Len(queue) \in Nat \ {0}
      /\ \A k \in 1..Len(queue') : queue'[k] = queue[k + 1]
  BY <1>0
<1>5. \A k \in 1..Len(queue') : k + 1 \in 1..Len(queue) /\ k + 1 # 1
  BY <1>4
<1>6. pc' \in [Tasks -> Phases] /\ \A u \in Tasks : u # t => pc'[u] = pc[u]
  BY <1>2 DEF Typed, Phases
<1>7. Queued'
  <2>1. \A k \in 1..Len(queue') : queue'[k] \in Tasks /\ queue'[k] # t
    <3>1. 1 \in 1..Len(queue)
      BY <1>4
    <3> QED
      BY <1>0, <1>2, <1>4, <1>5, <3>1 DEF Queued
  <2>2. ASSUME NEW k \in 1..Len(queue') PROVE pc'[queue'[k]] = "waiting"
    <3>1. pc'[queue'[k]] = pc[queue'[k]] /\ queue'[k] = queue[k + 1]
      BY <1>4, <1>6, <2>1
    <3>2. pc[queue[k + 1]] = "waiting"
      BY <1>5 DEF Queued
    <3> QED
      BY <3>1, <3>2
  <2>3. \A k, l \in 1..Len(queue') : queue'[k] = queue'[l] => k = l
    <3>1. ASSUME NEW k \in 1..Len(queue'), NEW l \in 1..Len(queue'), queue'[k] = queue'[l]
          PROVE  k = l
      <4>1. k + 1 = l + 1
        BY <1>4, <1>5, <3>1 DEF Queued
      <4> QED
        BY <4>1
    <3> QED
      BY <3>1
  <2> QED
    BY <2>2, <2>3 DEF Queued
<1>8. OwnTenantOnly'
  BY <1>0 DEF OwnTenantOnly
<1> QED
  BY <1>0, <1>3, <1>4, <1>6, <1>7, <1>8 DEF Typed

LEMMA TimeoutStep ==
  ASSUME Invariant, NEW t \in Tasks, LeaseTimeout(t) PROVE Invariant'
<1> USE DEF Invariant
<1>0. /\ pc[t] = "waiting" /\ stack[t] # <<>> /\ Inner(t).conn = NoConn
      /\ UNCHANGED <<free, tx, opened>>
  BY DEF LeaseTimeout, Stacked, Phased, Inner
<1>1. Left(t)
  BY LeaveIsLeft DEF LeaseTimeout
<1>2. Keeps
  BY <1>0 DEF Keeps
<1>3. /\ Stacked' /\ stack' \in [Tasks -> Seq(Frame)] /\ pc' \in [Tasks -> Phases]
      /\ \A u \in Tasks : u # t => pc'[u] = pc[u]
  BY <1>0, <1>1, <1>2, LeftStep
<1>4. PICK i \in 1..Len(queue) : queue[i] = t /\ queue' = RemoveAt(queue, i)
  BY DEF LeaseTimeout, LeavesQueue, Typed
<1>5. /\ queue' \in Seq(Tasks) /\ Len(queue') = Len(queue) - 1
      /\ \A k \in 1..Len(queue') : queue'[k] = IF k < i THEN queue[k] ELSE queue[k + 1]
  BY <1>4, RemoveAtFacts DEF Typed
<1>6. ASSUME NEW k \in 1..Len(queue')
      PROVE  \E l \in 1..Len(queue) : /\ l = (IF k < i THEN k ELSE k + 1) /\ l # i
                                      /\ queue'[k] = queue[l]
  <2>1. Len(queue) \in Nat /\ i \in Nat
    BY DEF Typed
  <2> QED
    BY <1>5, <2>1
<1>7. Queued'
  <2>1. ASSUME NEW k \in 1..Len(queue') PROVE pc'[queue'[k]] = "waiting"
    <3>1. PICK l \in 1..Len(queue) : l # i /\ queue'[k] = queue[l]
      BY <1>6
    <3>2. queue[l] # t /\ queue[l] \in Tasks
      BY <1>4, <3>1, SMTT(20) DEF Queued, Typed
    <3> QED
      BY <1>3, <3>1, <3>2 DEF Queued
  <2>2. ASSUME NEW k \in 1..Len(queue'), NEW l \in 1..Len(queue'), queue'[k] = queue'[l]
        PROVE  k = l
    <3>1. PICK x \in 1..Len(queue) :
            x = (IF k < i THEN k ELSE k + 1) /\ queue'[k] = queue[x]
      BY <1>6
    <3>2. PICK y \in 1..Len(queue) :
            y = (IF l < i THEN l ELSE l + 1) /\ queue'[l] = queue[y]
      BY <1>6
    <3>3. x = y
      BY <2>2, <3>1, <3>2 DEF Queued
    <3> QED
      BY <3>1, <3>2, <3>3
  <2> QED
    BY <2>1, <2>2 DEF Queued
<1>8. OwnTenantOnly'
  BY <1>0 DEF OwnTenantOnly
<1> QED
  BY <1>0, <1>3, <1>5, <1>7, <1>8 DEF Typed

\* An owning scope that has a connection is left, whichever way.
LEMMA OwnerStep ==
  ASSUME Invariant, NEW t \in Tasks,
         OpenFails(t) \/ (stack[t] # <<>> /\ (Commit(t) \/ CommitFails(t) \/ Rollback(t)))
  PROVE  Invariant'
<1> USE DEF Invariant
<1>0. /\ pc[t] \in {"leased", "work", "throwing"} /\ pc[t] # "waiting"
      /\ stack[t] # <<>> /\ Release(t) /\ UNCHANGED <<queue, opened>>
  BY DEF OpenFails, Commit, CommitFails, Rollback, Stacked, Phased
<1>1. Left(t)
  BY LeaveIsLeft DEF OpenFails, Commit, CommitFails, Rollback
<1>2. Inner(t).own /\ Inner(t).conn # NoConn
  <2>1. Top(t) = Inner(t) /\ Inner(t).conn \in Conns
    BY <1>0, InnerFacts DEF Stacked
  <2>2. Inner(t).own
    BY <2>1 DEF OpenFails, Commit, CommitFails, Rollback, Stacked, Phased, Inner
  <2> QED
    BY <2>1, <2>2, TenantContextAssumption
<1>3. /\ Stacked' /\ stack' \in [Tasks -> Seq(Frame)] /\ pc' \in [Tasks -> Phases]
      /\ \A u \in Tasks : u # t => pc'[u] = pc[u]
  BY <1>0, <1>1, <1>2, LeftStep
<1>4. tx' \in [Conns -> Transaction] /\ free' \subseteq Conns /\ OwnTenantOnly'
  BY <1>0, ReleaseStep
<1>5. Queued'
  BY <1>0, <1>3, QueueKept
<1> QED
  BY <1>0, <1>3, <1>4, <1>5 DEF Typed

\* The transaction of the innermost scope changes, but for its tenant.
LEMMA WorkStep ==
  ASSUME Invariant, NEW t \in Tasks, stack[t] # <<>>, pc[t] \in {"work", "throwing"},
         NEW STATE x, x \in Transaction, x.tenant = TopTx(t).tenant,
         \A w \in x.acked : w.tenant = w.mode,
         tx' = [tx EXCEPT ![Top(t).conn] = x], UNCHANGED <<queue, free, opened>>,
         \/ /\ stack' = stack
            /\ \E next \in {"work", "throwing"} : pc' = [pc EXCEPT ![t] = next]
         \/ ~Top(t).own /\ Left(t)
  PROVE  Invariant'
<1> USE DEF Invariant
<1>1. Top(t) = Inner(t) /\ Inner(t).conn \in Conns /\ pc[t] # "waiting"
  BY InnerFacts DEF Stacked
<1>2. /\ tx' \in [Conns -> Transaction] /\ tx'[Inner(t).conn] = x
      /\ \A d \in Conns : d # Inner(t).conn => tx'[d] = tx[d]
  BY <1>1, TxFacts
<1>3. Inner(t).conn \notin free
  BY <1>1, InnerFacts DEF Stacked, Outside, Inner
<1>4. Keeps
  BY <1>1, <1>2, <1>3 DEF Keeps, TopTx, Typed
<1>5. OwnTenantOnly'
  BY <1>2 DEF OwnTenantOnly
<1>6. /\ Stacked' /\ stack' \in [Tasks -> Seq(Frame)] /\ pc' \in [Tasks -> Phases]
      /\ \A u \in Tasks : u # t => pc'[u] = pc[u]
  <2>1. CASE stack' = stack /\ \E next \in {"work", "throwing"} : pc' = [pc EXCEPT ![t] = next]
    <3>1. /\ pc' \in [Tasks -> Phases] /\ pc'[t] \in {"work", "throwing"}
          /\ \A u \in Tasks : u # t => pc'[u] = pc[u]
      BY <2>1 DEF Typed, Phases
    <3>2. Stacked'
      BY <1>4, <2>1, <3>1, SameStack
    <3> QED
      BY <2>1, <3>1, <3>2 DEF Typed
  <2>2. CASE ~Top(t).own /\ Left(t)
    BY <1>1, <1>4, <2>2, LeftStep
  <2> QED
    BY <2>1, <2>2
<1>7. Queued'
  BY <1>1, <1>6, QueueKept
<1> QED
  BY <1>2, <1>5, <1>6, <1>7 DEF Typed

LEMMA InvariantStep ==
  ASSUME Invariant, [ContextNext]_ctxVars PROVE Invariant'
<1> USE DEF Invariant
<1>1. ASSUME NEW t \in Tasks, Open(t) PROVE Invariant'
  <2>1. /\ pc[t] = "leased" /\ pc[t] # "waiting" /\ pc' = [pc EXCEPT ![t] = "work"]
        /\ UNCHANGED <<stack, queue, free, opened>>
    BY <1>1 DEF Open
  <2>2. Top(t) = Inner(t) /\ Inner(t).conn \in Conns /\ Inner(t).mode \in Modes
    <3>1. stack[t] # <<>>
      BY <2>1 DEF Stacked, Phased
    <3> QED
      BY <2>1, <3>1, InnerFacts DEF Stacked, Frame
  <2> DEFINE x == [IdleTx EXCEPT !.state = "open", !.tenant = Top(t).mode]
  <2>3. x \in Transaction /\ x.acked = {}
    BY <2>2 DEF IdleTx, Transaction
  <2>4. tx' = [tx EXCEPT ![Inner(t).conn] = x]
    BY <1>1, <2>2 DEF Open
  <2> HIDE DEF x
  <2>5. /\ tx' \in [Conns -> Transaction] /\ tx'[Inner(t).conn] = x
        /\ \A d \in Conns : d # Inner(t).conn => tx'[d] = tx[d]
    BY <2>2, <2>3, <2>4, TxFacts
  <2>6. OwnTenantOnly'
    BY <2>3, <2>5 DEF OwnTenantOnly
  <2>7. Stacked'
    BY <1>1, OpenStep
  <2>8. pc' \in [Tasks -> Phases] /\ \A u \in Tasks : u # t => pc'[u] = pc[u]
    BY <2>1 DEF Typed, Phases
  <2>9. Queued'
    BY <2>1, <2>8, QueueKept
  <2> QED
    BY <2>1, <2>5, <2>6, <2>7, <2>8, <2>9 DEF Typed
<1>w. ASSUME NEW t \in Tasks, stack[t] # <<>>, pc[t] \in {"work", "throwing"}
      PROVE  /\ Top(t) = Inner(t) /\ Top(t).conn \in Conns /\ Top(t) \in Frame
             /\ TopTx(t) \in Transaction /\ TopTx(t) = tx[Top(t).conn]
             /\ \A w \in TopTx(t).acked : w.tenant = w.mode
             /\ TopTx(t).tenant = Top(t).mode
  <2>1. Top(t) = Inner(t) /\ Top(t).conn \in Conns /\ Top(t) \in Frame
    BY <1>w, InnerFacts DEF Stacked
  <2>2. TopTx(t) \in Transaction /\ TopTx(t) = tx[Top(t).conn]
    BY <2>1 DEF TopTx, Typed
  <2>3. Len(stack[t]) \in Depth(t) /\ Top(t) = stack[t][Len(stack[t])] /\ NoConn \notin Conns
    BY <1>w, <2>1, InnerFacts, TenantContextAssumption DEF Stacked, Inner
  <2>4. TopTx(t).tenant = Top(t).mode
    BY <1>w, <2>1, <2>2, <2>3 DEF Stacked, Scoped
  <2> QED
    BY <2>1, <2>2, <2>4 DEF OwnTenantOnly
<1>2. ASSUME NEW t \in Tasks, stack[t] # <<>>, Write(t) PROVE Invariant'
  <2> DEFINE w == [task |-> t, scope |-> Top(t).id, mode |-> Top(t).mode,
                   tenant |-> TopTx(t).tenant, within |-> Savepoints(t)]
             x == [TopTx(t) EXCEPT !.writes = TopTx(t).writes \cup {w},
                                   !.acked = TopTx(t).acked \cup {w}]
  <2>1. pc[t] = "work" /\ UNCHANGED <<stack, pc, queue, free, opened>>
    BY <1>2 DEF Write
  <2>2. /\ Top(t).conn \in Conns /\ Top(t) \in Frame /\ TopTx(t) = tx[Top(t).conn]
        /\ TopTx(t) \in Transaction /\ \A v \in TopTx(t).acked : v.tenant = v.mode
        /\ TopTx(t).tenant = Top(t).mode
    BY <1>2, <1>w, <2>1
  <2>3. Savepoints(t) \subseteq Nat
    <3>1. \A f \in ToSet(stack[t]) : f \in Frame
      BY DEF ToSet, Typed
    <3> QED
      BY <3>1 DEF Savepoints, Frame
  <2>4. w \in WriteRecord /\ w.tenant = w.mode
    BY <2>2, <2>3 DEF WriteRecord, Frame, Transaction
  <2>5. tx' = [tx EXCEPT ![Top(t).conn] = x]
    BY <1>2, <2>2 DEF Write, Typed
  <2> HIDE DEF w
  <2>6. /\ x \in Transaction /\ x.tenant = TopTx(t).tenant
        /\ x.acked = TopTx(t).acked \cup {w}
    BY <2>2, <2>4 DEF Transaction
  <2>7. \A v \in x.acked : v.tenant = v.mode
    BY <2>2, <2>4, <2>6
  <2>8. pc' = [pc EXCEPT ![t] = "work"]
    BY <2>1 DEF Typed
  <2> HIDE DEF x
  <2> QED
    BY <1>2, <2>1, <2>5, <2>6, <2>7, <2>8, WorkStep
<1>3. ASSUME NEW t \in Tasks, stack[t] # <<>>, StatementFails(t) PROVE Invariant'
  <2> DEFINE x == [TopTx(t) EXCEPT !.state = "failed"]
             y == [TopTx(t) EXCEPT !.state = "broken", !.writes = {}]
  <2>1. pc[t] = "work" /\ UNCHANGED <<stack, queue, free, opened>>
        /\ \E next \in {"work", "throwing"} : pc' = [pc EXCEPT ![t] = next]
    BY <1>3 DEF StatementFails
  <2>2. /\ Top(t).conn \in Conns /\ TopTx(t) = tx[Top(t).conn]
        /\ TopTx(t) \in Transaction /\ \A v \in TopTx(t).acked : v.tenant = v.mode
    BY <1>3, <1>w, <2>1
  <2>3. tx' = [tx EXCEPT ![Top(t).conn] = x] \/ tx' = [tx EXCEPT ![Top(t).conn] = y]
    BY <1>3, <2>2 DEF StatementFails, Typed
  <2>4. x \in Transaction /\ x.tenant = TopTx(t).tenant /\ x.acked = TopTx(t).acked
    BY <2>2 DEF Transaction
  <2>5. y \in Transaction /\ y.tenant = TopTx(t).tenant /\ y.acked = TopTx(t).acked
    BY <2>2 DEF Transaction
  <2> HIDE DEF x, y
  <2>6. CASE tx' = [tx EXCEPT ![Top(t).conn] = x]
    <3>1. \A v \in x.acked : v.tenant = v.mode
      BY <2>2, <2>4
    <3>2. pc[t] \in {"work", "throwing"} /\ UNCHANGED <<queue, free, opened>>
      BY <2>1
    <3>3. stack' = stack /\ \E next \in {"work", "throwing"} : pc' = [pc EXCEPT ![t] = next]
      BY <2>1
    <3> QED
      BY <1>3, <2>4, <2>6, <3>1, <3>2, <3>3, WorkStep
  <2>7. CASE tx' = [tx EXCEPT ![Top(t).conn] = y]
    <3>1. \A v \in y.acked : v.tenant = v.mode
      BY <2>2, <2>5
    <3>2. pc[t] \in {"work", "throwing"} /\ UNCHANGED <<queue, free, opened>>
      BY <2>1
    <3>3. stack' = stack /\ \E next \in {"work", "throwing"} : pc' = [pc EXCEPT ![t] = next]
      BY <2>1
    <3> QED
      BY <1>3, <2>5, <2>7, <3>1, <3>2, <3>3, WorkStep
  <2> QED
    BY <2>3, <2>6, <2>7
\* A step of the work that leaves the transactions.
<1>s. ASSUME NEW t \in Tasks, stack[t] # <<>>, pc[t] \in {"work", "throwing"},
             UNCHANGED <<tx, queue, free, opened>>,
             \/ /\ stack' = stack
                /\ \E next \in {"work", "throwing"} : pc' = [pc EXCEPT ![t] = next]
             \/ ~Top(t).own /\ Left(t)
      PROVE  Invariant'
  <2>1. /\ TopTx(t) \in Transaction /\ TopTx(t) = tx[Top(t).conn] /\ Top(t).conn \in Conns
        /\ \A v \in TopTx(t).acked : v.tenant = v.mode
    BY <1>s, <1>w
  <2>2. tx' = [tx EXCEPT ![Top(t).conn] = TopTx(t)]
    BY <1>s, <2>1 DEF Typed
  <2> QED
    BY <1>s, <2>1, <2>2, WorkStep
<1>4. ASSUME NEW t \in Tasks, stack[t] # <<>>, Throw(t) PROVE Invariant'
  BY <1>4, <1>s DEF Throw
<1>5. ASSUME NEW t \in Tasks, stack[t] # <<>>, ReturnReused(t) PROVE Invariant'
  <2>1. Left(t)
    BY <1>5, LeaveIsLeft DEF ReturnReused
  <2> QED
    BY <1>5, <1>s, <2>1 DEF ReturnReused
<1>6. ASSUME NEW t \in Tasks, stack[t] # <<>>, RejectReused(t) PROVE Invariant'
  <2>1. Left(t)
    BY <1>6, LeaveIsLeft DEF RejectReused
  <2>2. ~Top(t).own /\ pc[t] \in {"work", "throwing"} /\ UNCHANGED <<queue, free, opened>>
    BY <1>6 DEF RejectReused
  <2>3. CASE UNCHANGED tx
    BY <1>6, <1>s, <2>1, <2>2, <2>3
  <2>4. CASE ~UNCHANGED tx
    <3> DEFINE x == [TopTx(t) EXCEPT !.state = "open", !.writes = Top(t).mark,
                                     !.undone = TopTx(t).undone \cup {Top(t).id}]
    <3>1. /\ Top(t).conn \in Conns /\ Top(t) \in Frame /\ TopTx(t) = tx[Top(t).conn]
          /\ TopTx(t) \in Transaction /\ \A v \in TopTx(t).acked : v.tenant = v.mode
      BY <1>6, <1>w, <2>2
    <3>2. tx' = [tx EXCEPT ![Top(t).conn] = x]
      BY <1>6, <2>4, <3>1 DEF RejectReused, Undone, Typed
    <3>3. x \in Transaction /\ x.tenant = TopTx(t).tenant /\ x.acked = TopTx(t).acked
      BY <3>1 DEF Transaction, Frame
    <3> HIDE DEF x
    <3> QED
      BY <1>6, <2>1, <2>2, <3>1, <3>2, <3>3, WorkStep
  <2> QED
    BY <2>3, <2>4
<1>7. CASE UNCHANGED ctxVars
  <2>1. UNCHANGED <<stack, pc, queue, free, tx, opened>>
    BY <1>7 DEF ctxVars
  <2>2. Typed' /\ Queued' /\ OwnTenantOnly'
    BY <2>1 DEF Typed, Queued, OwnTenantOnly
  <2>3. Phased' /\ Based' /\ Outside' /\ PoolIdle' /\ Scoped'
    BY <2>1 DEF Stacked, Phased, Based, Outside, PoolIdle, Scoped, Depth
  <2>4. Single' /\ Covered'
    BY <2>1 DEF Stacked, Single, Covered, Owns, Depth
  <2> QED
    BY <2>2, <2>3, <2>4 DEF Stacked
<1> HIDE DEF Invariant
<1>8. ASSUME NEW t \in Tasks, TaskStep(t) PROVE Invariant'
  <2>1. ASSUME NEW m \in ModesOf[t],
               LeaseScope(t, m) \/ \E save \in BOOLEAN : ReuseScope(t, m, save)
        PROVE  Invariant'
    BY <2>1, ScopeStep
  <2>2. CASE OpenFails(t)
    BY <2>2, OwnerStep
  <2>3. CASE LeaseTimeout(t)
    BY <2>3, TimeoutStep
  <2>4. CASE stack[t] # <<>> /\ (Commit(t) \/ CommitFails(t) \/ Rollback(t))
    BY <2>4, OwnerStep
  <2> QED
    BY <1>1, <1>2, <1>3, <1>4, <1>5, <1>6, <1>8, <2>1, <2>2, <2>3, <2>4 DEF TaskStep
<1>9. ASSUME NEW c \in Conns, Grant(c) PROVE Invariant'
  BY <1>9, PoolStep
<1> QED
  BY <1>7, <1>8, <1>9 DEF ContextNext

LEMMA InvariantHolds == ContextSpec => []Invariant
<1>1. ContextInit => Invariant
  <2> SUFFICES ASSUME ContextInit PROVE Invariant
    OBVIOUS
  <2>1. /\ stack = [t \in Tasks |-> <<>>] /\ pc = [t \in Tasks |-> "idle"] /\ queue = <<>>
        /\ free = Conns /\ tx = [c \in Conns |-> IdleTx] /\ opened = [t \in Tasks |-> 0]
    BY DEF ContextInit
  <2>2. IdleTx \in Transaction /\ IdleTx.acked = {}
    BY DEF IdleTx, Transaction, Modes
  <2>3. <<>> \in Seq(Frame) /\ <<>> \in Seq(Tasks)
    OBVIOUS
  <2>4. stack \in [Tasks -> Seq(Frame)] /\ queue \in Seq(Tasks) /\ free \subseteq Conns
    BY <2>1, <2>3
  <2>5. pc \in [Tasks -> Phases]
    BY <2>1 DEF Phases
  <2>6. tx \in [Conns -> Transaction] /\ opened \in [Tasks -> Nat]
    BY <2>1, <2>2
  <2>7. \A t \in Tasks : Depth(t) = {}
    BY <2>1 DEF Depth
  <2>8. Phased
    BY <2>1, <2>7 DEF Phased
  <2>9. Queued
    BY <2>1 DEF Queued
  <2>10. Based /\ Outside /\ PoolIdle /\ Scoped
    BY <2>1, <2>7 DEF Based, Outside, PoolIdle, Scoped
  <2>11. Single /\ Covered
    BY <2>1, <2>7 DEF Single, Covered, Owns
  <2>12. OwnTenantOnly
    BY <2>1, <2>2 DEF OwnTenantOnly
  <2> QED
    BY <2>4, <2>5, <2>6, <2>8, <2>9, <2>10, <2>11, <2>12 DEF Invariant, Typed, Stacked
<1>2. Invariant /\ [ContextNext]_ctxVars => Invariant'
  BY InvariantStep
<1> QED
  BY <1>1, <1>2, PTL DEF ContextSpec

-----------------------------------------------------------------------------

\* Every row a scope writes belongs to the tenant the scope was opened for,
\* through nesting, reuse and the return of connections to the pool.
THEOREM OwnTenantOnlyHolds == ContextSpec => []OwnTenantOnly
<1>1. Invariant => OwnTenantOnly
  BY DEF Invariant
<1> QED
  BY <1>1, InvariantHolds, PTL

\* A connection is in the pool, without a transaction, or exactly one scope has
\* leased it: none leaks and none is shared, whatever fails.
THEOREM NoConnectionLeaksHolds == ContextSpec => []NoConnectionLeaks
<1>1. Invariant => NoConnectionLeaks
  <2> SUFFICES ASSUME Invariant, NEW c \in Conns
               PROVE LET owners == UNION {{<<t, i>> : i \in {k \in DOMAIN stack[t] :
                            stack[t][k].own /\ stack[t][k].conn = c}} : t \in Tasks}
                     IN  IF c \in free THEN owners = {} /\ tx[c] = IdleTx
                         ELSE Cardinality(owners) = 1
    BY DEF NoConnectionLeaks
  <2> DEFINE owners == UNION {{<<t, i>> : i \in {k \in DOMAIN stack[t] :
                            stack[t][k].own /\ stack[t][k].conn = c}} : t \in Tasks}
  <2>1. ASSUME NEW t \in Tasks
        PROVE  DOMAIN stack[t] = Depth(t) /\ Depth(t) \subseteq Nat
    BY DEF Invariant, Typed, Depth
  <2>2. \A x : x \in owners <=>
          \E t \in Tasks : \E i \in {k \in DOMAIN stack[t] :
             stack[t][k].own /\ stack[t][k].conn = c} : x = <<t, i>>
    OBVIOUS
  <2>3. \A x : x \in owners <=> \E t \in Tasks : \E i \in Nat : Owns(t, i, c) /\ x = <<t, i>>
    BY <2>1, <2>2 DEF Owns
  <2> HIDE DEF owners
  <2>4. CASE c \in free
    <3>1. \A t \in Tasks, i \in Nat : ~Owns(t, i, c)
      BY <2>4 DEF Invariant, Stacked, Outside, Owns
    <3>2. owners = {} /\ tx[c] = IdleTx
      BY <2>3, <2>4, <3>1 DEF Invariant, Stacked, PoolIdle
    <3> QED
      BY <2>4, <3>2 DEF owners
  <2>5. CASE c \notin free
    <3>1. PICK t \in Tasks : \E i \in Nat : Owns(t, i, c)
      BY <2>5 DEF Invariant, Stacked, Covered
    <3>2. PICK i \in Nat : Owns(t, i, c)
      BY <3>1
    <3>3. \A u \in Tasks, j \in Nat : Owns(u, j, c) => u = t /\ j = i
      BY <3>2 DEF Invariant, Stacked, Single
    <3>4. owners = {<<t, i>>}
      BY <2>3, <3>2, <3>3
    <3>5. Cardinality(owners) = 1
      BY <3>4, FS_Singleton
    <3> QED
      BY <2>5, <3>5 DEF owners
  <2> QED
    BY <2>4, <2>5
<1> QED
  BY <1>1, InvariantHolds, PTL

-----------------------------------------------------------------------------
(* The writes of a transaction and its savepoints.                          *)

Conn(t, i) == stack[t][i].conn

\* Where a leased connection has not begun its transaction yet.
Leased(t, i) == i = Len(stack[t]) /\ pc[t] = "leased"

\* The acknowledged writes that remain when the savepoint scopes K are undone.
Clean(c, K) == {w \in tx[c].acked : w.within \cap K = {}}

\* The scopes of a task are numbered as they are opened.
Numbered ==
  \A t \in Tasks : \A i \in Depth(t) :
    /\ stack[t][i].id <= opened[t]
    /\ \A j \in 1..(i - 1) : stack[t][j].id < stack[t][i].id
    /\ stack[t][i].own => ~stack[t][i].save

\* A transaction that may commit holds what its rejected savepoints left.
Remains == \A c \in Conns : tx[c].state # "broken" => tx[c].writes = Clean(c, tx[c].undone)

\* What a scope finds in its transaction is of its own task; its savepoint has not
\* been undone, remembers what undoing it would leave, and lies around those of
\* the scopes inside it.
Holds(t, i) ==
  LET f == stack[t][i]
      c == f.conn
  IN  /\ \A w \in tx[c].acked : w.task = t /\ \A k \in w.within : k <= opened[t]
      /\ \A k \in tx[c].undone : k <= opened[t]
      /\ f.id \notin tx[c].undone
      /\ ~Leased(t, i) => tx[c].state # "idle"
      /\ f.save /\ tx[c].state # "broken" => f.mark = Clean(c, tx[c].undone \cup {f.id})
      /\ f.save => \A j \in 1..(i - 1) : stack[t][j].save /\ stack[t][j].conn = c =>
           \A w \in tx[c].acked : f.id \in w.within => stack[t][j].id \in w.within

Held == \A t \in Tasks : \A i \in Depth(t) : Conn(t, i) # NoConn => Holds(t, i)

\* A write is in the transaction of its scope, if that is still there, and in no other;
\* once it is visible its scope is not.
Placed ==
  /\ \A c \in Conns : \A w \in tx[c].acked :
       /\ w.scope <= opened[w.task]
       /\ \A i \in Depth(w.task) : stack[w.task][i].id = w.scope => Conn(w.task, i) = c
  /\ \A c, d \in Conns : c # d => tx[c].acked \cap tx[d].acked = {}
  /\ \A w \in visible :
       /\ w \in WriteRecord /\ w.scope <= opened[w.task]
       /\ \A i \in Depth(w.task) : stack[w.task][i].id # w.scope
  /\ CommitsWithOwner

Journal == Numbered /\ Remains /\ Held /\ Placed

-----------------------------------------------------------------------------

\* Two scopes with one connection are of one task; the scope that has leased a
\* connection and is innermost is alone on it.
LEMMA OneTask ==
  ASSUME Typed, Stacked, NEW t \in Tasks, NEW u \in Tasks, NEW i \in Depth(t), NEW j \in Depth(u),
         Conn(t, i) # NoConn, Conn(t, i) = Conn(u, j)
  PROVE  t = u
<1> DEFINE c == Conn(t, i)
<1>1. c \in Conns /\ i \in Nat /\ j \in Nat /\ i <= Len(stack[t]) /\ j <= Len(stack[u])
      /\ Len(stack[t]) \in Nat /\ Len(stack[u]) \in Nat
  BY FrameFacts DEF Conn, Depth, Typed
<1>2. HasBase(stack[t], i) /\ HasBase(stack[u], j)
  BY DEF Stacked, Based, Conn
<1>3. PICK k \in 1..i : stack[t][k].own /\ stack[t][k].conn = c
  BY <1>2 DEF HasBase, Conn
<1>4. PICK l \in 1..j : stack[u][l].own /\ stack[u][l].conn = c
  BY <1>2 DEF HasBase, Conn
<1>5. k \in Depth(t) /\ l \in Depth(u) /\ k \in Nat /\ l \in Nat
  BY <1>1 DEF Depth
<1>6. Owns(t, k, c) /\ Owns(u, l, c)
  BY <1>3, <1>4, <1>5 DEF Owns
<1> QED
  BY <1>1, <1>5, <1>6 DEF Stacked, Single

\* The innermost scope that owns its connection is the only scope on it.
LEMMA Alone ==
  ASSUME Typed, Stacked, NEW t \in Tasks, stack[t] # <<>>, Inner(t).own, Inner(t).conn \in Conns,
         NEW u \in Tasks, NEW i \in Depth(u), Conn(u, i) = Inner(t).conn
  PROVE  u = t /\ i = Len(stack[t])
<1> DEFINE n == Len(stack[t])
           c == Inner(t).conn
<1>1. n \in Nat \ {0} /\ n \in Depth(t) /\ NoConn \notin Conns
  BY InnerFacts, TenantContextAssumption DEF Stacked
<1>2. i \in Nat /\ HasBase(stack[u], i) /\ i <= Len(stack[u]) /\ Len(stack[u]) \in Nat
  BY <1>1, FrameFacts DEF Stacked, Based, Conn, Depth, Typed
<1>3. PICK k \in 1..i : stack[u][k].own /\ stack[u][k].conn = c
  BY <1>2 DEF HasBase, Conn
<1>4. k \in Depth(u) /\ k \in Nat
  BY <1>2 DEF Depth
<1>5. Owns(u, k, c) /\ Owns(t, n, c)
  BY <1>1, <1>3, <1>4 DEF Owns, Inner
<1>6. u = t /\ k = n
  BY <1>1, <1>4, <1>5 DEF Stacked, Single
<1> QED
  BY <1>1, <1>2, <1>3, <1>6

\* A stack without its last scope.
LEMMA PopFacts ==
  ASSUME Typed, NEW t \in Tasks, stack[t] # <<>>, stack' = [stack EXCEPT ![t] = Front(stack[t])]
  PROVE  /\ Len(stack[t]) \in Nat \ {0} /\ Len(stack'[t]) = Len(stack[t]) - 1
         /\ Depth(t)' = 1..(Len(stack[t]) - 1) /\ Depth(t) = 1..Len(stack[t])
         /\ \A u \in Tasks : u # t => stack'[u] = stack[u]
         /\ \A u \in Tasks : Depth(u)' \subseteq Depth(u)
         /\ \A u \in Tasks : \A i \in Depth(u)' : stack'[u][i] = stack[u][i]
<1>1. stack[t] \in Seq(Frame) /\ stack'[t] = Front(stack[t])
  BY DEF Typed
<1>2. /\ Len(stack[t]) \in Nat \ {0} /\ Len(stack'[t]) = Len(stack[t]) - 1
      /\ \A i \in 1..(Len(stack[t]) - 1) : stack'[t][i] = stack[t][i]
  BY <1>1, FrontFacts
<1>3. Depth(t)' = 1..(Len(stack[t]) - 1) /\ Depth(t) = 1..Len(stack[t])
  BY <1>2 DEF Depth
<1>4. \A u \in Tasks : u # t => stack'[u] = stack[u] /\ Depth(u)' = Depth(u)
  BY DEF Typed, Depth
<1>5. Depth(t)' \subseteq Depth(t)
  BY <1>2, <1>3
<1> QED
  BY <1>2, <1>3, <1>4, <1>5

\* A scope whose transaction does not change holds what it held.
LEMMA HoldsKept ==
  ASSUME Typed, NEW t \in Tasks, NEW i \in Depth(t), Conn(t, i) # NoConn, Holds(t, i),
         \A k \in 1..i : stack'[t][k] = stack[t][k],
         tx'[Conn(t, i)] = tx[Conn(t, i)], opened'[t] \in Nat, opened[t] <= opened'[t],
         Leased(t, i) => Leased(t, i)'
  PROVE  Holds(t, i)'
<1>1. i \in Nat /\ i >= 1 /\ Conn(t, i) \in Conns /\ i \in 1..i /\ 1..(i - 1) \subseteq 1..i
  BY FrameFacts DEF Conn
<1>2. stack'[t][i] = stack[t][i] /\ \A j \in 1..(i - 1) : stack'[t][j] = stack[t][j]
  BY <1>1
<1> DEFINE c == stack[t][i].conn
<1>3. c \in Conns /\ tx'[c] = tx[c] /\ tx[c] \in Transaction /\ stack'[t][i].conn = c
  BY <1>1, <1>2 DEF Conn, Typed
<1>4. \A K : Clean(c, K)' = Clean(c, K)
  BY <1>3 DEF Clean
<1>5. Clean(c, tx[c].undone \cup {stack[t][i].id})' = Clean(c, tx[c].undone \cup {stack[t][i].id})
  BY <1>2, <1>3 DEF Clean
<1>6. opened[t] \in Nat /\ \A k \in Nat : k <= opened[t] => k <= opened'[t]
  BY DEF Typed
<1>7. /\ \A w \in tx[c].acked : \A k \in w.within : k \in Nat
      /\ \A k \in tx[c].undone : k \in Nat
  BY <1>3 DEF Transaction, WriteRecord
<1> HIDE DEF c, Clean
<1>8. /\ \A w \in tx'[c].acked : w.task = t /\ \A k \in w.within : k <= opened'[t]
      /\ \A k \in tx'[c].undone : k <= opened'[t]
  BY <1>3, <1>6, <1>7 DEF Holds, c
<1> QED
  <2>1. /\ stack[t][i].id \notin tx[c].undone
        /\ ~Leased(t, i) => tx[c].state # "idle"
        /\ stack[t][i].save /\ tx[c].state # "broken" =>
             stack[t][i].mark = Clean(c, tx[c].undone \cup {stack[t][i].id})
        /\ stack[t][i].save => \A j \in 1..(i - 1) : stack[t][j].save /\ stack[t][j].conn = c =>
             \A w \in tx[c].acked : stack[t][i].id \in w.within => stack[t][j].id \in w.within
    BY DEF Holds, c
  <2>2. /\ stack'[t][i].id \notin tx'[c].undone
        /\ ~Leased(t, i)' => tx'[c].state # "idle"
    BY <1>2, <1>3, <2>1
  <2>3. stack'[t][i].save => \A j \in 1..(i - 1) : stack'[t][j].save /\ stack'[t][j].conn = c =>
          \A w \in tx'[c].acked : stack'[t][i].id \in w.within => stack'[t][j].id \in w.within
    BY <1>2, <1>3, <2>1
  <2>4. PICK d \in Conns : d = c
    BY <1>3
  <2>5. Clean(d, tx[d].undone \cup {stack[t][i].id})'
          = Clean(d, tx[d].undone \cup {stack[t][i].id})
    BY <1>2, <1>3, <2>4 DEF Clean
  <2>6. stack'[t][i].save /\ tx'[d].state # "broken" =>
          stack'[t][i].mark = Clean(d, tx[d].undone \cup {stack[t][i].id})'
    BY <1>2, <1>3, <2>1, <2>4, <2>5
  <2>7. stack'[t][i].conn = d
    BY <1>3, <2>4
  <2>8. /\ stack'[t][i].id \notin tx'[d].undone
        /\ ~Leased(t, i)' => tx'[d].state # "idle"
        /\ \A w \in tx'[d].acked : w.task = t /\ \A k \in w.within : k <= opened'[t]
        /\ \A k \in tx'[d].undone : k <= opened'[t]
    BY <1>8, <2>2, <2>4
  <2>9. stack'[t][i].save => \A j \in 1..(i - 1) : stack'[t][j].save /\ stack'[t][j].conn = d =>
          \A w \in tx'[d].acked : stack'[t][i].id \in w.within => stack'[t][j].id \in w.within
    BY <2>3, <2>4
  <2> HIDE DEF c
  <2> QED
    BY <2>6, <2>7, <2>8, <2>9 DEF Holds

\* The scopes of a new state are those of the old one, or new ones; nothing is
\* acknowledged, and what becomes visible was in a transaction that ends.
LEMMA PlacedKept ==
  ASSUME Typed, Placed, opened' \in [Tasks -> Nat],
         \A u \in Tasks : opened[u] <= opened'[u],
         \A c \in Conns : tx'[c].acked \subseteq tx[c].acked,
         \A u \in Tasks : \A i \in Depth(u)' :
           \/ stack'[u][i].id \in Nat /\ stack'[u][i].id > opened[u]
           \/ \E j \in Depth(u) : /\ stack'[u][i].id = stack[u][j].id
                                  /\ stack'[u][i].conn = stack[u][j].conn \/ Conn(u, j) = NoConn,
         \A w \in visible' :
           \/ w \in visible
           \/ \E c \in Conns : /\ w \in tx[c].acked /\ tx'[c].acked = {}
                               /\ \A u \in Tasks : \A i \in Depth(u)' : stack'[u][i].conn # c
  PROVE  Placed'
<1>1. \A c \in Conns : \A w \in tx[c].acked :
        w \in WriteRecord /\ w.task \in Tasks /\ w.scope \in Nat
  BY DEF Typed, Transaction, WriteRecord
<1>2. NoConn \notin Conns /\ \A u \in Tasks : opened[u] \in Nat /\ opened'[u] \in Nat
  BY TenantContextAssumption DEF Typed
<1>3. ASSUME NEW c \in Conns, NEW w \in tx[c].acked
      PROVE  /\ w.scope <= opened[w.task] /\ w.scope <= opened'[w.task]
             /\ \A i \in Depth(w.task)' : stack'[w.task][i].id = w.scope =>
                                            stack'[w.task][i].conn = c
  <2>1. w.scope <= opened[w.task] /\ w.scope \in Nat /\ w.task \in Tasks
    BY <1>1 DEF Placed
  <2>2. w.scope <= opened'[w.task]
    BY <1>2, <2>1
  <2>3. ASSUME NEW i \in Depth(w.task)', stack'[w.task][i].id = w.scope
        PROVE  stack'[w.task][i].conn = c
    <3>1. ~(w.scope > opened[w.task])
      BY <1>2, <2>1
    <3>2. PICK j \in Depth(w.task) :
            /\ stack'[w.task][i].id = stack[w.task][j].id
            /\ stack'[w.task][i].conn = stack[w.task][j].conn \/ Conn(w.task, j) = NoConn
      BY <2>1, <2>3, <3>1
    <3>3. Conn(w.task, j) = c
      <4>1. stack[w.task][j].id = w.scope
        BY <2>3, <3>2
      <4>2. \A k \in Depth(w.task) : stack[w.task][k].id = w.scope => Conn(w.task, k) = c
        BY DEF Placed
      <4> QED
        BY <4>1, <4>2
    <3> QED
      BY <1>2, <3>2, <3>3 DEF Conn
  <2> QED
    BY <2>1, <2>2, <2>3
<1>4. \A c \in Conns : \A w \in tx'[c].acked :
        /\ w.scope <= opened'[w.task]
        /\ \A i \in Depth(w.task)' : stack'[w.task][i].id = w.scope => stack'[w.task][i].conn = c
  BY <1>3
<1>5. \A c, d \in Conns : c # d => tx'[c].acked \cap tx'[d].acked = {}
  BY DEF Placed
<1>6. ASSUME NEW w \in visible'
      PROVE  /\ w \in WriteRecord /\ w.scope <= opened'[w.task]
             /\ \A i \in Depth(w.task)' : stack'[w.task][i].id # w.scope
             /\ \A d \in Conns : w \notin tx'[d].acked
  <2>1. CASE w \in visible
    <3>1. /\ w \in WriteRecord /\ w.scope \in Nat /\ w.task \in Tasks /\ w.scope <= opened[w.task]
          /\ \A j \in Depth(w.task) : stack[w.task][j].id # w.scope
          /\ \A d \in Conns : w \notin tx[d].acked
      BY <2>1 DEF Placed, WriteRecord, CommitsWithOwner
    <3>2. w.scope <= opened'[w.task] /\ ~(w.scope > opened[w.task])
      BY <1>2, <3>1
    <3> QED
      BY <3>1, <3>2
  <2>2. CASE \E c \in Conns : /\ w \in tx[c].acked /\ tx'[c].acked = {}
                              /\ \A u \in Tasks : \A i \in Depth(u)' : stack'[u][i].conn # c
    <3>1. PICK c \in Conns : /\ w \in tx[c].acked /\ tx'[c].acked = {}
                             /\ \A u \in Tasks : \A i \in Depth(u)' : stack'[u][i].conn # c
      BY <2>2
    <3>2. w \in WriteRecord /\ w.task \in Tasks /\ w.scope <= opened'[w.task]
      BY <1>1, <1>3, <3>1
    <3>3. \A i \in Depth(w.task)' : stack'[w.task][i].id # w.scope
      BY <1>3, <3>1, <3>2
    <3>4. \A d \in Conns : w \notin tx'[d].acked
      BY <3>1 DEF Placed
    <3> QED
      BY <3>2, <3>3, <3>4
  <2> QED
    BY <2>1, <2>2
<1>7. \A w \in visible' :
        /\ w \in WriteRecord /\ w.scope <= opened'[w.task]
        /\ \A i \in Depth(w.task)' : stack'[w.task][i].id # w.scope
  BY <1>6
<1>8. CommitsWithOwner'
  BY <1>6 DEF CommitsWithOwner
<1> QED
  BY <1>4, <1>5, <1>7, <1>8 DEF Placed, Conn

\* The numbers of the scopes stay as long as the scopes do.
LEMMA NumberedKept ==
  ASSUME Typed, Numbered, opened' \in [Tasks -> Nat],
         \A u \in Tasks : opened[u] <= opened'[u],
         \A u \in Tasks : Depth(u)' \subseteq Depth(u),
         \A u \in Tasks : \A i \in Depth(u)' : /\ stack'[u][i].id = stack[u][i].id
                                               /\ stack'[u][i].own = stack[u][i].own
                                               /\ stack'[u][i].save = stack[u][i].save
  PROVE  Numbered'
<1> SUFFICES ASSUME NEW u \in Tasks, NEW i \in Depth(u)'
             PROVE  /\ stack'[u][i].id <= opened'[u]
                    /\ \A j \in 1..(i - 1) : stack'[u][j].id < stack'[u][i].id
                    /\ stack'[u][i].own => ~stack'[u][i].save
  BY DEF Numbered
<1>1. /\ i \in Depth(u) /\ stack[u][i] \in Frame /\ i \in Nat
      /\ opened[u] \in Nat /\ opened'[u] \in Nat
  BY FrameFacts DEF Typed
<1>2. stack[u][i].id \in Nat /\ stack[u][i].id <= opened[u] /\ stack'[u][i].id <= opened'[u]
  BY <1>1 DEF Numbered, Frame
<1>3. ASSUME NEW j \in 1..(i - 1) PROVE stack'[u][j].id < stack'[u][i].id
  <2>1. j \in Depth(u)'
    BY <1>1 DEF Depth
  <2> QED
    BY <1>1, <2>1 DEF Numbered
<1> QED
  BY <1>1, <1>2, <1>3 DEF Numbered

\* What remains of a transaction does not change with others.
LEMMA RemainsKept ==
  ASSUME Remains, NEW c,
         \A d \in Conns : d # c => tx'[d] = tx[d],
         c \in Conns /\ tx'[c].state # "broken" =>
           tx'[c].writes = {w \in tx'[c].acked : w.within \cap tx'[c].undone = {}}
  PROVE  Remains'
<1> SUFFICES ASSUME NEW d \in Conns, tx'[d].state # "broken"
             PROVE  tx'[d].writes = {w \in tx'[d].acked : w.within \cap tx'[d].undone = {}}
  BY DEF Remains, Clean
<1>1. CASE d = c
  BY <1>1
<1>2. CASE d # c
  BY <1>2 DEF Remains, Clean
<1> QED
  BY <1>1, <1>2

-----------------------------------------------------------------------------

\* A scope is left whose transaction stays as it is.
LEMMA PopsInside ==
  ASSUME Invariant, Journal, NEW t \in Tasks, stack[t] # <<>>,
         stack' = [stack EXCEPT ![t] = Front(stack[t])],
         \A u \in Tasks : u # t => pc'[u] = pc[u],
         UNCHANGED <<tx, opened>>, visible' \subseteq visible
  PROVE  Journal'
<1> USE DEF Invariant, Journal
<1>1. /\ Len(stack[t]) \in Nat \ {0} /\ Depth(t)' = 1..(Len(stack[t]) - 1)
      /\ \A u \in Tasks : u # t => stack'[u] = stack[u]
      /\ \A u \in Tasks : Depth(u)' \subseteq Depth(u)
      /\ \A u \in Tasks : \A i \in Depth(u)' : stack'[u][i] = stack[u][i]
  BY PopFacts
<1>2. opened' \in [Tasks -> Nat] /\ \A u \in Tasks : opened[u] <= opened'[u]
  BY DEF Typed
<1>3. Numbered'
  BY <1>1, <1>2, NumberedKept
<1>4. Remains'
  BY DEF Remains, Clean
<1>5. Held'
  <2> SUFFICES ASSUME NEW u \in Tasks, NEW i \in Depth(u)', Conn(u, i)' # NoConn
               PROVE  Holds(u, i)'
    BY DEF Held
  <2>1. i \in Depth(u) /\ Conn(u, i) # NoConn /\ i \in Nat
    BY <1>1, FrameFacts DEF Conn
  <2>2. Holds(u, i)
    BY <2>1 DEF Held
  <2>3. \A k \in 1..i : k \in Depth(u)'
    BY <2>1 DEF Depth
  <2>4. \A k \in 1..i : stack'[u][k] = stack[u][k]
    BY <1>1, <2>3
  <2>5. Leased(u, i) => Leased(u, i)'
    BY <1>1 DEF Leased, Depth
  <2>6. opened'[u] \in Nat /\ opened[u] <= opened'[u] /\ tx'[Conn(u, i)] = tx[Conn(u, i)]
    BY <1>2
  <2> QED
    BY <2>1, <2>2, <2>4, <2>5, <2>6, HoldsKept
<1>6. Placed'
  <2>1. \A u \in Tasks : \A i \in Depth(u)' :
          \E j \in Depth(u) : /\ stack'[u][i].id = stack[u][j].id
                              /\ stack'[u][i].conn = stack[u][j].conn \/ Conn(u, j) = NoConn
    BY <1>1
  <2>2. \A c \in Conns : tx'[c].acked \subseteq tx[c].acked
    OBVIOUS
  <2>3. \A w \in visible' : w \in visible
    OBVIOUS
  <2> QED
    BY <1>2, <2>1, <2>2, <2>3, PlacedKept
<1> QED
  BY <1>3, <1>4, <1>5, <1>6

\* The scope that has leased its connection returns it.
LEMMA PopsOwner ==
  ASSUME Invariant, Journal, NEW t \in Tasks, stack[t] # <<>>, pc[t] # "waiting", Inner(t).own,
         stack' = [stack EXCEPT ![t] = Front(stack[t])],
         \A u \in Tasks : u # t => pc'[u] = pc[u],
         tx' = [tx EXCEPT ![Inner(t).conn] = IdleTx], opened' = opened,
         visible' \subseteq visible \cup tx[Inner(t).conn].acked
  PROVE  Journal'
<1> USE DEF Invariant, Journal
<1>0. Inner(t).conn \in Conns /\ NoConn \notin Conns
  BY InnerFacts, TenantContextAssumption DEF Stacked
<1> PICK c \in Conns : c = Inner(t).conn
  BY <1>0
<1>1. /\ Len(stack[t]) \in Nat \ {0} /\ Depth(t)' = 1..(Len(stack[t]) - 1)
      /\ \A u \in Tasks : u # t => stack'[u] = stack[u]
      /\ \A u \in Tasks : Depth(u)' \subseteq Depth(u)
      /\ \A u \in Tasks : \A i \in Depth(u)' : stack'[u][i] = stack[u][i]
  BY PopFacts
<1>2. opened' \in [Tasks -> Nat] /\ \A u \in Tasks : opened[u] <= opened'[u]
  BY DEF Typed
<1>3. tx'[c] = IdleTx /\ \A d \in Conns : d # c => tx'[d] = tx[d]
  BY DEF Typed
<1>4. IdleTx.writes = {} /\ IdleTx.acked = {} /\ IdleTx.undone = {}
  BY DEF IdleTx
<1>5. ASSUME NEW u \in Tasks, NEW i \in Depth(u)' PROVE stack'[u][i].conn # c
  <2>1. i \in Depth(u) /\ stack'[u][i] = stack[u][i]
    BY <1>1
  <2>2. CASE Conn(u, i) = c
    <3>1. u = t /\ i = Len(stack[t])
      BY <1>0, <2>1, <2>2, Alone
    <3> QED
      BY <1>1, <3>1
  <2>3. CASE Conn(u, i) # c
    BY <2>1, <2>3 DEF Conn
  <2> QED
    BY <2>2, <2>3
<1>6. Numbered'
  BY <1>1, <1>2, NumberedKept
<1>7. Remains'
  <2>1. tx'[c].writes = {w \in tx'[c].acked : w.within \cap tx'[c].undone = {}}
    BY <1>3, <1>4
  <2> QED
    BY <1>3, <2>1, RemainsKept
<1>8. Held'
  <2> SUFFICES ASSUME NEW u \in Tasks, NEW i \in Depth(u)', Conn(u, i)' # NoConn
               PROVE  Holds(u, i)'
    BY DEF Held
  <2>1. i \in Depth(u) /\ Conn(u, i) # NoConn /\ i \in Nat /\ Conn(u, i) # c /\ Conn(u, i) \in Conns
    BY <1>1, <1>5, FrameFacts DEF Conn
  <2>2. Holds(u, i)
    BY <2>1 DEF Held
  <2>3. \A k \in 1..i : k \in Depth(u)'
    BY <2>1 DEF Depth
  <2>4. \A k \in 1..i : stack'[u][k] = stack[u][k]
    BY <1>1, <2>3
  <2>5. Leased(u, i) => Leased(u, i)'
    BY <1>1 DEF Leased, Depth
  <2>6. opened'[u] \in Nat /\ opened[u] <= opened'[u] /\ tx'[Conn(u, i)] = tx[Conn(u, i)]
    BY <1>2, <1>3, <2>1
  <2> QED
    BY <2>1, <2>2, <2>4, <2>5, <2>6, HoldsKept
<1>9. Placed'
  <2>1. \A u \in Tasks : \A i \in Depth(u)' :
          \E j \in Depth(u) : /\ stack'[u][i].id = stack[u][j].id
                              /\ stack'[u][i].conn = stack[u][j].conn \/ Conn(u, j) = NoConn
    BY <1>1
  <2>2. \A d \in Conns : tx'[d].acked \subseteq tx[d].acked
    BY <1>3, <1>4
  <2>3. \A w \in visible' :
           \/ w \in visible
           \/ \E d \in Conns : /\ w \in tx[d].acked /\ tx'[d].acked = {}
                               /\ \A u \in Tasks : \A i \in Depth(u)' : stack'[u][i].conn # d
    BY <1>3, <1>4, <1>5
  <2> QED
    BY <1>2, <2>1, <2>2, <2>3, PlacedKept
<1> QED
  BY <1>6, <1>7, <1>8, <1>9

\* Transitivity.
LEMMA Orders ==
  \A a, b, d \in Nat : (a <= b => a < b + 1) /\ (a <= b /\ b <= d => a <= d)
OBVIOUS

\* A scope waits for a connection or is entered in the transaction of the innermost.
LEMMA Pushes ==
  ASSUME Invariant, Journal, NEW t \in Tasks, NEW f \in Frame, pc[t] \in {"idle", "work"},
         f.id = opened[t] + 1, f.own => ~f.save,
         \/ f.conn = NoConn
         \/ /\ stack[t] # <<>> /\ pc[t] = "work" /\ f.conn = Inner(t).conn
            /\ f.save => tx[f.conn].state = "open" /\ f.mark = tx[f.conn].writes,
         stack' = [stack EXCEPT ![t] = Append(stack[t], f)],
         \A u \in Tasks : u # t => pc'[u] = pc[u],
         opened' = [opened EXCEPT ![t] = opened[t] + 1], UNCHANGED <<tx, visible>>
  PROVE  Journal'
<1> USE DEF Invariant, Journal
<1> DEFINE n == Len(stack[t])
<1>1. stack[t] \in Seq(Frame) /\ n \in Nat /\ stack'[t] = Append(stack[t], f)
  BY DEF Typed
<1>2. /\ Len(stack'[t]) = n + 1 /\ stack'[t][n + 1] = f
      /\ \A i \in 1..n : stack'[t][i] = stack[t][i]
  BY <1>1, AppendFacts
<1>3. Depth(t)' = 1..(n + 1) /\ Depth(t) = 1..n
  BY <1>2 DEF Depth
<1>4. \A u \in Tasks : u # t => stack'[u] = stack[u] /\ Depth(u)' = Depth(u)
  BY DEF Typed, Depth
<1> HIDE DEF n
<1>5. /\ opened' \in [Tasks -> Nat] /\ \A u \in Tasks : opened[u] <= opened'[u]
      /\ opened[t] \in Nat /\ opened'[t] = opened[t] + 1
  BY DEF Typed
<1>6. \A i \in 1..(n + 1) : i \in 1..n \/ i = n + 1
  BY <1>1
<1>7. ASSUME NEW u \in Tasks, NEW i \in Depth(u)', ~(u = t /\ i = n + 1)
      PROVE  /\ i \in Depth(u) /\ i \in Nat /\ \A k \in 1..i : stack'[u][k] = stack[u][k]
             /\ stack'[u][i] = stack[u][i] /\ \A j \in 1..(i - 1) : stack'[u][j] = stack[u][j]
  <2>1. i \in Depth(u) /\ \A k \in 1..i : stack'[u][k] = stack[u][k]
    <3>1. CASE u = t
      BY <1>1, <1>2, <1>3, <1>6, <1>7, <3>1
    <3>2. CASE u # t
      BY <1>4, <1>7, <3>2 DEF Depth
    <3> QED
      BY <3>1, <3>2
  <2>2. i \in Nat /\ i >= 1
    BY <2>1, FrameFacts
  <2>3. i \in 1..i /\ 1..(i - 1) \subseteq 1..i
    BY <2>2
  <2> QED
    BY <2>1, <2>2, <2>3
<1>8. Numbered'
  <2> SUFFICES ASSUME NEW u \in Tasks, NEW i \in Depth(u)'
               PROVE  /\ stack'[u][i].id <= opened'[u]
                      /\ \A j \in 1..(i - 1) : stack'[u][j].id < stack'[u][i].id
                      /\ stack'[u][i].own => ~stack'[u][i].save
    BY DEF Numbered
  <2>1. CASE u = t /\ i = n + 1
    <3>1. \A j \in 1..(i - 1) :
            j \in Depth(t) /\ stack'[t][j] = stack[t][j] /\ stack[t][j] \in Frame
      BY <1>1, <1>2, <1>3, <2>1, FrameFacts
    <3>2. \A j \in 1..(i - 1) : stack[t][j].id \in Nat /\ stack[t][j].id <= opened[t]
      BY <3>1 DEF Numbered, Frame
    <3>3. \A j \in 1..(i - 1) : stack'[t][j].id < f.id
      <4> TAKE j \in 1..(i - 1)
      <4>1. /\ stack'[t][j].id = stack[t][j].id /\ stack[t][j].id \in Nat
            /\ stack[t][j].id <= opened[t]
        BY <3>1, <3>2
      <4>2. f.id = opened[t] + 1 /\ opened[t] \in Nat
        BY <1>5
      <4> QED
        BY <4>1, <4>2, Orders, Zenon
    <3> QED
      BY <1>2, <1>5, <2>1, <3>3
  <2>2. CASE ~(u = t /\ i = n + 1)
    <3>1. /\ i \in Depth(u) /\ i \in Nat /\ stack'[u][i] = stack[u][i]
          /\ \A j \in 1..(i - 1) : stack'[u][j] = stack[u][j]
      BY <1>7, <2>2
    <3>2. stack[u][i].id \in Nat /\ stack[u][i].id <= opened[u] /\ opened[u] \in Nat
          /\ opened'[u] \in Nat
      BY <1>5, <3>1, FrameFacts DEF Numbered, Frame, Typed
    <3>3. stack'[u][i].id <= opened'[u]
      <4>1. opened[u] <= opened'[u] /\ stack'[u][i].id = stack[u][i].id
        BY <1>5, <3>1
      <4> QED
        BY <3>2, <4>1, Orders, Zenon
    <3> QED
      BY <3>1, <3>3 DEF Numbered
  <2> QED
    BY <2>1, <2>2
<1>9. Remains'
  BY DEF Remains, Clean
<1>10. Held'
  <2> SUFFICES ASSUME NEW u \in Tasks, NEW i \in Depth(u)', Conn(u, i)' # NoConn
               PROVE  Holds(u, i)'
    BY DEF Held
  <2>1. CASE u = t /\ i = n + 1
    <3>1. Conn(t, i)' = f.conn /\ stack[t] # <<>> /\ pc[t] = "work" /\ f.conn = Inner(t).conn
      BY <1>2, <2>1 DEF Conn
    <3>2. f.conn \in Conns /\ n \in Depth(t) /\ Conn(t, n) = f.conn /\ n \in Nat \ {0}
          /\ NoConn \notin Conns
      BY <3>1, InnerFacts, TenantContextAssumption DEF Inner, Conn, Stacked, n
    <3> PICK c \in Conns : c = f.conn
      BY <3>2
    <3>3. Holds(t, n) /\ Conn(t, n) = c /\ ~Leased(t, n)
      BY <3>1, <3>2 DEF Held, Leased
    <3>4. /\ \A w \in tx[c].acked : w.task = t /\ \A k \in w.within : k \in Nat /\ k <= opened[t]
          /\ \A k \in tx[c].undone : k \in Nat /\ k <= opened[t]
          /\ tx[c].state # "idle"
      BY <3>3 DEF Holds, Conn, Typed, Transaction, WriteRecord
    <3>5. /\ \A w \in tx[c].acked : \A k \in w.within : k <= opened'[t] /\ k # f.id
          /\ \A k \in tx[c].undone : k <= opened'[t] /\ k # f.id
      BY <1>5, <3>4
    <3>6. ASSUME f.save
          PROVE  f.mark = {w \in tx[c].acked : w.within \cap (tx[c].undone \cup {f.id}) = {}}
      <4>1. f.mark = {w \in tx[c].acked : w.within \cap tx[c].undone = {}}
        BY <3>1, <3>2, <3>6 DEF Remains, Clean
      <4> QED
        BY <3>5, <4>1
    <3>7. stack'[t][i] = f /\ f.conn = c
      BY <1>2, <2>1
    <3>8. \A w \in tx'[c].acked : w.task = t /\ \A k \in w.within : k <= opened'[t]
      BY <3>4, <3>5
    <3>9. f.save => f.mark = Clean(c, tx[c].undone \cup {f.id})'
      BY <3>6 DEF Clean
    <3> HIDE DEF Clean
    <3>10. Holds(t, i)'
      BY <3>4, <3>5, <3>7, <3>8, <3>9 DEF Holds
    <3> QED
      BY <2>1, <3>10
  <2>2. CASE ~(u = t /\ i = n + 1)
    <3>1. /\ i \in Depth(u) /\ i \in Nat /\ \A k \in 1..i : stack'[u][k] = stack[u][k]
          /\ stack'[u][i] = stack[u][i]
      BY <1>7, <2>2
    <3>2. Conn(u, i) # NoConn
      BY <3>1 DEF Conn
    <3>3. Holds(u, i)
      BY <3>1, <3>2 DEF Held
    <3>4. Leased(u, i) => Leased(u, i)'
      BY <1>4 DEF Leased
    <3>5. opened'[u] \in Nat /\ opened[u] <= opened'[u] /\ tx'[Conn(u, i)] = tx[Conn(u, i)]
      BY <1>5
    <3> QED
      BY <3>1, <3>2, <3>3, <3>4, <3>5, HoldsKept
  <2> QED
    BY <2>1, <2>2
<1>11. Placed'
  <2>1. \A u \in Tasks : \A i \in Depth(u)' :
           \/ stack'[u][i].id \in Nat /\ stack'[u][i].id > opened[u]
           \/ \E j \in Depth(u) : /\ stack'[u][i].id = stack[u][j].id
                                  /\ stack'[u][i].conn = stack[u][j].conn \/ Conn(u, j) = NoConn
    <3> SUFFICES ASSUME NEW u \in Tasks, NEW i \in Depth(u)'
            PROVE  \/ stack'[u][i].id \in Nat /\ stack'[u][i].id > opened[u]
                   \/ \E j \in Depth(u) :
                        /\ stack'[u][i].id = stack[u][j].id
                        /\ stack'[u][i].conn = stack[u][j].conn \/ Conn(u, j) = NoConn
      OBVIOUS
    <3>1. CASE u = t /\ i = n + 1
      BY <1>2, <1>5, <3>1
    <3>2. CASE ~(u = t /\ i = n + 1)
      <4>1. i \in Depth(u) /\ stack'[u][i] = stack[u][i]
        BY <1>7, <3>2
      <4> QED
        BY <4>1
    <3> QED
      BY <3>1, <3>2
  <2>2. \A c \in Conns : tx'[c].acked \subseteq tx[c].acked
    OBVIOUS
  <2>3. \A w \in visible' : w \in visible
    OBVIOUS
  <2> QED
    BY <1>5, <2>1, <2>2, <2>3, PlacedKept
<1> QED
  BY <1>8, <1>9, <1>10, <1>11

\* The scopes stay, and one transaction changes.
LEMMA SameScopes ==
  ASSUME Invariant, Journal, NEW c \in Conns, UNCHANGED <<stack, opened, visible>>,
         \A d \in Conns : d # c => tx'[d] = tx[d],
         tx'[c].state # "broken" =>
           tx'[c].writes = {w \in tx'[c].acked : w.within \cap tx'[c].undone = {}},
         \A u \in Tasks : \A i \in Depth(u) :
           /\ Conn(u, i) = c => Holds(u, i)'
           /\ Conn(u, i) # c /\ Leased(u, i) => Leased(u, i)'
  PROVE  /\ Numbered' /\ Remains' /\ Held'
         /\ tx'[c].acked \subseteq tx[c].acked => Journal'
<1>1. opened' \in [Tasks -> Nat] /\ \A u \in Tasks : opened[u] <= opened'[u]
  BY DEF Typed, Invariant
<1>2. \A u \in Tasks : Depth(u)' = Depth(u)
  BY DEF Depth
<1>3. Typed /\ Numbered /\ Remains /\ Held /\ Placed
  BY DEF Invariant, Journal
<1>4. Numbered'
  BY <1>2, <1>3 DEF Numbered
<1>5. Remains'
  BY <1>3, RemainsKept
<1>6. Held'
  <2> SUFFICES ASSUME NEW u \in Tasks, NEW i \in Depth(u), Conn(u, i) # NoConn
               PROVE  Holds(u, i)'
    BY <1>2 DEF Held, Conn
  <2>1. CASE Conn(u, i) = c
    BY <2>1
  <2>2. CASE Conn(u, i) # c
    <3>1. Holds(u, i) /\ Conn(u, i) \in Conns
      BY <1>3, FrameFacts DEF Held, Conn
    <3>2. opened'[u] \in Nat /\ opened[u] <= opened'[u] /\ tx'[Conn(u, i)] = tx[Conn(u, i)]
      BY <1>1, <2>2, <3>1
    <3>3. \A k \in 1..i : stack'[u][k] = stack[u][k]
      OBVIOUS
    <3> QED
      BY <1>3, <2>2, <3>1, <3>2, <3>3, HoldsKept
  <2> QED
    BY <2>1, <2>2
<1>7. ASSUME tx'[c].acked \subseteq tx[c].acked PROVE Placed'
  <2>1. \A u \in Tasks : \A i \in Depth(u)' :
          \E j \in Depth(u) : /\ stack'[u][i].id = stack[u][j].id
                              /\ stack'[u][i].conn = stack[u][j].conn \/ Conn(u, j) = NoConn
    BY <1>2
  <2>2. \A d \in Conns : tx'[d].acked \subseteq tx[d].acked
    BY <1>7
  <2>3. \A w \in visible' : w \in visible
    OBVIOUS
  <2> QED
    BY <1>1, <1>3, <2>1, <2>2, <2>3, PlacedKept
<1> QED
  BY <1>4, <1>5, <1>6, <1>7 DEF Journal

\* The transaction of the innermost scope begins.
LEMMA Begins ==
  ASSUME Invariant, Journal, NEW t \in Tasks, Open(t) PROVE Journal'
<1>0. pc[t] = "leased" /\ stack[t] # <<>> /\ Inner(t).own /\ UNCHANGED <<stack, opened, visible>>
  BY DEF Open, Invariant, Stacked, Phased, Inner
<1>1. /\ Typed /\ Stacked /\ Numbered /\ Top(t) = Inner(t) /\ Inner(t).conn \in Conns
      /\ Len(stack[t]) \in Depth(t)
  BY <1>0, InnerFacts DEF Invariant, Journal, Stacked
<1> PICK c \in Conns : c = Inner(t).conn
  BY <1>1
<1> DEFINE x == [IdleTx EXCEPT !.state = "open", !.tenant = Top(t).mode]
<1>2. tx' = [tx EXCEPT ![c] = x]
  BY <1>1 DEF Open
<1>3. x.state = "open" /\ x.acked = {} /\ x.undone = {} /\ x.writes = {}
  BY DEF IdleTx
<1> HIDE DEF x
<1>4. tx'[c] = x /\ \A d \in Conns : d # c => tx'[d] = tx[d]
  BY <1>1, <1>2 DEF Typed
<1>5. ASSUME NEW u \in Tasks, NEW i \in Depth(u), Conn(u, i) = c PROVE Holds(u, i)'
  <2>1. u = t /\ i = Len(stack[t])
    BY <1>0, <1>1, <1>5, Alone
  <2>2. stack[u][i].own /\ ~stack[u][i].save
    BY <1>0, <1>1, <2>1 DEF Numbered, Inner
  <2>3. stack'[u][i].conn = c /\ ~stack'[u][i].save /\ tx'[c] = x
    BY <1>0, <1>4, <1>5, <2>2 DEF Conn
  <2> QED
    BY <1>3, <2>3 DEF Holds
<1>6. ASSUME NEW u \in Tasks, NEW i \in Depth(u), Conn(u, i) # c, Leased(u, i)
      PROVE  Leased(u, i)'
  <2>1. u # t
    BY <1>6 DEF Leased, Conn, Inner
  <2>2. pc'[u] = pc[u] /\ stack' = stack
    BY <1>1, <2>1 DEF Open, Typed
  <2> QED
    BY <1>6, <2>2 DEF Leased
<1>7. tx'[c].writes = {w \in tx'[c].acked : w.within \cap tx'[c].undone = {}}
      /\ tx'[c].acked \subseteq tx[c].acked
  BY <1>3, <1>4
<1> QED
  BY <1>0, <1>4, <1>5, <1>6, <1>7, SameScopes

\* What a statement finds.
LEMMA AtWork ==
  ASSUME Invariant, NEW t \in Tasks, stack[t] # <<>>, pc[t] \in {"work", "throwing"}
  PROVE  /\ Typed /\ Stacked /\ Top(t) = Inner(t) /\ Inner(t).conn \in Conns
         /\ Len(stack[t]) \in Depth(t) /\ Len(stack[t]) \in Nat \ {0}
         /\ Conn(t, Len(stack[t])) = Inner(t).conn
         /\ TopTx(t) = tx[Inner(t).conn] /\ TopTx(t) \in Transaction
         /\ NoConn \notin Conns
         /\ \A i \in Depth(t) : ~Leased(t, i)
<1>1. Typed /\ Stacked /\ pc[t] # "waiting" /\ pc[t] # "leased"
  BY DEF Invariant
<1>2. Top(t) = Inner(t) /\ Inner(t).conn \in Conns /\ Len(stack[t]) \in Depth(t)
      /\ Len(stack[t]) \in Nat \ {0}
  BY <1>1, InnerFacts DEF Stacked
<1>3. TopTx(t) = tx[Inner(t).conn] /\ TopTx(t) \in Transaction
  BY <1>1, <1>2 DEF TopTx, Typed
<1> QED
  BY <1>1, <1>2, <1>3, TenantContextAssumption DEF Conn, Inner, Leased

\* A statement fails.
LEMMA Fails ==
  ASSUME Invariant, Journal, NEW t \in Tasks, stack[t] # <<>>, StatementFails(t) PROVE Journal'
<1>0. pc[t] = "work" /\ pc[t] \in {"work", "throwing"} /\ UNCHANGED <<stack, opened, visible>>
      /\ \E next \in {"work", "throwing"} : pc' = [pc EXCEPT ![t] = next]
  BY DEF StatementFails
<1>1. /\ Typed /\ Stacked /\ Top(t) = Inner(t) /\ Inner(t).conn \in Conns
      /\ TopTx(t) = tx[Inner(t).conn] /\ TopTx(t) \in Transaction /\ NoConn \notin Conns
      /\ \A i \in Depth(t) : ~Leased(t, i)
  BY <1>0, AtWork
<1> PICK c \in Conns : c = Inner(t).conn
  BY <1>1
<1>2. /\ \A d \in Conns : d # c => tx'[d] = tx[d]
      /\ tx'[c].acked = tx[c].acked /\ tx'[c].undone = tx[c].undone
      /\ \/ tx'[c].state = "broken"
         \/ tx'[c].state = "failed" /\ tx[c].state = "open" /\ tx'[c].writes = tx[c].writes
  <2> DEFINE x == [tx[c] EXCEPT !.state = "failed"]
             y == [tx[c] EXCEPT !.state = "broken", !.writes = {}]
  <2>1. /\ x.state = "failed" /\ x.acked = tx[c].acked /\ x.undone = tx[c].undone
        /\ x.writes = tx[c].writes
        /\ y.state = "broken" /\ y.acked = tx[c].acked /\ y.undone = tx[c].undone
    BY <1>1 DEF Transaction
  <2>2. \/ tx[c].state = "open" /\ tx' = [tx EXCEPT ![c] = x]
        \/ tx' = [tx EXCEPT ![c] = y]
    BY <1>1 DEF StatementFails, Typed
  <2> HIDE DEF x, y
  <2>3. CASE tx[c].state = "open" /\ tx' = [tx EXCEPT ![c] = x]
    <3>1. tx'[c] = x /\ \A d \in Conns : d # c => tx'[d] = tx[d]
      BY <1>1, <2>3 DEF Typed
    <3> QED
      BY <2>1, <2>3, <3>1
  <2>4. CASE tx' = [tx EXCEPT ![c] = y]
    <3>1. tx'[c] = y /\ \A d \in Conns : d # c => tx'[d] = tx[d]
      BY <1>1, <2>4 DEF Typed
    <3> QED
      BY <2>1, <3>1
  <2> QED
    BY <2>2, <2>3, <2>4
<1>3. Remains /\ Held /\ \A u \in Tasks : Depth(u)' = Depth(u)
  BY <1>0 DEF Journal, Depth
<1>4. tx'[c].state # "broken" =>
        tx'[c].writes = {w \in tx'[c].acked : w.within \cap tx'[c].undone = {}}
  BY <1>2, <1>3 DEF Remains, Clean
<1>5. ASSUME NEW u \in Tasks, NEW i \in Depth(u), Conn(u, i) = c PROVE Holds(u, i)'
  <2>1. Holds(u, i) /\ stack'[u] = stack[u] /\ opened'[u] = opened[u] /\ stack[u][i].conn = c
    BY <1>0, <1>1, <1>3, <1>5 DEF Held, Conn
  <2>2. \A K : Clean(c, K)' = {w \in tx[c].acked : w.within \cap K = {}}
    BY <1>2 DEF Clean
  <2>3. Clean(c, tx[c].undone \cup {stack[u][i].id})' = Clean(c, tx[c].undone \cup {stack[u][i].id})
    BY <1>2, <2>1 DEF Clean
  <2> HIDE DEF Clean
  <2>4. tx'[c].state # "idle" /\ (tx'[c].state # "broken" => tx[c].state # "broken")
    BY <1>2
  <2>5. PICK f : f = stack[u][i]
    OBVIOUS
  <2>6. stack' = stack /\ f.conn = c
    BY <1>0, <2>1, <2>5
  <2>7. /\ \A w \in tx'[c].acked : w.task = u /\ \A k \in w.within : k <= opened'[u]
        /\ \A k \in tx'[c].undone : k <= opened'[u]
        /\ f.id \notin tx'[c].undone
    BY <1>2, <2>1, <2>5 DEF Holds
  <2>8. f.save /\ tx'[c].state # "broken" => f.mark = Clean(c, tx[c].undone \cup {f.id})'
    BY <1>2, <2>1, <2>3, <2>4, <2>5 DEF Holds
  <2>9. f.save => \A j \in 1..(i - 1) : stack[u][j].save /\ stack[u][j].conn = c =>
           \A w \in tx'[c].acked : f.id \in w.within => stack[u][j].id \in w.within
    BY <1>2, <2>1, <2>5 DEF Holds
  <2> QED
    BY <1>2, <2>4, <2>5, <2>6, <2>7, <2>8, <2>9, ZenonT(30) DEF Holds
<1>6. ASSUME NEW u \in Tasks, NEW i \in Depth(u), Leased(u, i) PROVE Leased(u, i)'
  <2>1. u # t
    BY <1>1, <1>6
  <2>2. pc'[u] = pc[u] /\ stack' = stack
    BY <1>0, <1>1, <2>1 DEF Typed
  <2> QED
    BY <1>6, <2>2 DEF Leased
<1>7. tx'[c].acked \subseteq tx[c].acked
  BY <1>2
<1> QED
  BY <1>0, <1>2, <1>4, <1>5, <1>6, <1>7, SameScopes

\* A statement writes: inside all savepoints of its task in this transaction.
LEMMA Writing ==
  ASSUME Invariant, Journal, NEW t \in Tasks, stack[t] # <<>>, Write(t) PROVE Journal'
<1>0. /\ pc[t] = "work" /\ pc[t] \in {"work", "throwing"}
      /\ UNCHANGED <<stack, pc, opened, visible>>
  BY DEF Write
<1> DEFINE n == Len(stack[t])
<1>1. /\ Typed /\ Stacked /\ Top(t) = Inner(t) /\ Inner(t).conn \in Conns
      /\ TopTx(t) = tx[Inner(t).conn] /\ TopTx(t) \in Transaction /\ NoConn \notin Conns
      /\ n \in Depth(t) /\ n \in Nat \ {0} /\ Conn(t, n) = Inner(t).conn
      /\ \A i \in Depth(t) : ~Leased(t, i)
  BY <1>0, AtWork
<1> PICK c \in Conns : c = Inner(t).conn
  BY <1>1
<1>2. PICK w : w = [task |-> t, scope |-> Top(t).id, mode |-> Top(t).mode,
                    tenant |-> TopTx(t).tenant, within |-> Savepoints(t)]
  OBVIOUS
<1>3. w.task = t /\ w.scope = stack[t][n].id /\ w.within = Savepoints(t)
  BY <1>1, <1>2 DEF Inner
<1>4. /\ tx[c].state = "open" /\ tx'[c].state = "open"
      /\ tx'[c].writes = tx[c].writes \cup {w} /\ tx'[c].acked = tx[c].acked \cup {w}
      /\ tx'[c].undone = tx[c].undone /\ \A d \in Conns : d # c => tx'[d] = tx[d]
  BY <1>1, <1>2 DEF Write, Typed, Transaction
<1>5. Numbered /\ Remains /\ Held /\ Placed /\ \A u \in Tasks : Depth(u)' = Depth(u)
  BY <1>0 DEF Journal, Depth
<1>6. \A k : k \in w.within <=>
        \E i \in Depth(t) : stack[t][i].save /\ Conn(t, i) = c /\ k = stack[t][i].id
  <2>1. \A f : f \in ToSet(stack[t]) <=> \E i \in Depth(t) : f = stack[t][i]
    BY <1>1 DEF ToSet, Depth, Typed
  <2> QED
    BY <1>1, <1>3, <2>1 DEF Savepoints, Conn
<1>7. \A k \in w.within : k <= opened[t] /\ k \notin tx[c].undone
  <2> SUFFICES ASSUME NEW i \in Depth(t), stack[t][i].save, Conn(t, i) = c
               PROVE  stack[t][i].id <= opened[t] /\ stack[t][i].id \notin tx[c].undone
    BY <1>6
  <2>1. Holds(t, i)
    BY <1>1, <1>5 DEF Held
  <2> QED
    BY <1>5, <2>1 DEF Numbered, Holds, Conn
<1> HIDE DEF n
<1>8. tx'[c].writes = {v \in tx'[c].acked : v.within \cap tx'[c].undone = {}}
  <2>1. tx[c].writes = {v \in tx[c].acked : v.within \cap tx[c].undone = {}}
    BY <1>4, <1>5 DEF Remains, Clean
  <2>2. w.within \cap tx[c].undone = {}
    BY <1>7
  <2> QED
    BY <1>4, <2>1, <2>2
<1>9. ASSUME NEW u \in Tasks, NEW i \in Depth(u), Conn(u, i) = c PROVE Holds(u, i)'
  <2>1. Holds(u, i) /\ stack'[u] = stack[u] /\ opened'[u] = opened[u] /\ stack[u][i].conn = c
    BY <1>0, <1>1, <1>5, <1>9 DEF Held, Conn
  <2>2. u = t
    BY <1>1, <1>9, OneTask
  <2>3. \A v \in tx'[c].acked : v.task = u /\ \A k \in v.within : k <= opened[u]
    BY <1>3, <1>4, <1>7, <2>1, <2>2 DEF Holds
  <2>4. ASSUME stack[u][i].save
        PROVE  stack[u][i].mark =
                 {v \in tx'[c].acked : v.within \cap (tx[c].undone \cup {stack[u][i].id}) = {}}
    <3>1. stack[u][i].id \in w.within
      BY <1>6, <1>9, <2>2, <2>4
    <3>2. stack[u][i].mark =
            {v \in tx[c].acked : v.within \cap (tx[c].undone \cup {stack[u][i].id}) = {}}
      BY <1>4, <2>1, <2>4 DEF Holds, Clean
    <3> QED
      BY <1>4, <3>1, <3>2
  <2>5. stack[u][i].save => stack[u][i].mark = Clean(c, tx[c].undone \cup {stack[u][i].id})'
    BY <1>0, <1>4, <2>4 DEF Clean
  <2>6. ASSUME stack[u][i].save, NEW j \in 1..(i - 1), stack[u][j].save, stack[u][j].conn = c,
               NEW v \in tx'[c].acked, stack[u][i].id \in v.within
        PROVE  stack[u][j].id \in v.within
    <3>1. CASE v \in tx[c].acked
      BY <2>1, <2>6, <3>1 DEF Holds
    <3>2. CASE v = w
      <4>1. j \in Depth(t)
        BY <2>2, <1>1, FrameFacts DEF Depth
      <4> QED
        BY <1>6, <2>2, <2>6, <3>2, <4>1 DEF Conn
    <3> QED
      BY <1>4, <3>1, <3>2
  <2>7. tx'[c].state # "idle" /\ tx'[c].undone = tx[c].undone
    BY <1>4
  <2>8. stack[u][i].id \notin tx[c].undone /\ \A k \in tx[c].undone : k <= opened[u]
    BY <2>1 DEF Holds
  <2> HIDE DEF Clean
  <2> QED
    BY <2>1, <2>3, <2>5, <2>6, <2>7, <2>8 DEF Holds
<1>10. ASSUME NEW u \in Tasks, NEW i \in Depth(u), Leased(u, i) PROVE Leased(u, i)'
  BY <1>0, <1>10 DEF Leased
<1>11. Numbered' /\ Remains' /\ Held'
  BY <1>0, <1>4, <1>5, <1>8, <1>9, <1>10, SameScopes
<1>12. \A i \in Depth(t) : stack[t][i].id = w.scope => i = n
  <2> SUFFICES ASSUME NEW i \in Depth(t), stack[t][i].id = w.scope, i # n PROVE FALSE
    OBVIOUS
  <2>1. i \in 1..(n - 1)
    BY <1>1 DEF Depth, n
  <2>2. stack[t][i].id < stack[t][n].id /\ stack[t][n].id \in Nat
    BY <1>1, <1>5, <2>1, FrameFacts DEF Numbered, Frame
  <2> QED
    BY <1>3, <2>2
<1>13. Placed'
  <2>1. ASSUME NEW d \in Conns, NEW v \in tx'[d].acked
        PROVE  /\ v.scope <= opened[v.task]
               /\ \A i \in Depth(v.task) : stack[v.task][i].id = v.scope => Conn(v.task, i) = d
    <3>1. CASE v \in tx[d].acked
      BY <1>5, <3>1 DEF Placed
    <3>2. CASE v = w /\ d = c
      BY <1>1, <1>3, <1>5, <1>12, <3>2 DEF Numbered
    <3> QED
      BY <1>4, <3>1, <3>2
  <2>2. ASSUME NEW d \in Conns, d # c PROVE w \notin tx[d].acked
    BY <1>1, <1>3, <1>5, <2>2 DEF Placed
  <2>3. \A d, e \in Conns : d # e => tx'[d].acked \cap tx'[e].acked = {}
    BY <1>4, <1>5, <2>2 DEF Placed
  <2>4. w \notin visible
    BY <1>1, <1>3, <1>5 DEF Placed
  <2>5. CommitsWithOwner'
    BY <1>0, <1>4, <1>5, <2>4 DEF Placed, CommitsWithOwner
  <2>6. \A v \in visible :
       /\ v \in WriteRecord /\ v.scope <= opened[v.task]
       /\ \A i \in Depth(v.task) : stack[v.task][i].id # v.scope
    BY <1>5 DEF Placed
  <2>7. stack' = stack /\ opened' = opened /\ visible' = visible
    BY <1>0
  <2>8. \A d \in Conns : \A v \in tx'[d].acked :
          /\ v.scope <= opened'[v.task]
          /\ \A i \in Depth(v.task)' : stack'[v.task][i].id = v.scope => Conn(v.task, i)' = d
    BY <2>1, <2>7 DEF Depth, Conn
  <2>9. \A v \in visible' :
       /\ v \in WriteRecord /\ v.scope <= opened'[v.task]
       /\ \A i \in Depth(v.task)' : stack'[v.task][i].id # v.scope
    BY <2>6, <2>7 DEF Depth
  <2> QED
    BY <2>3, <2>5, <2>8, <2>9 DEF Placed
<1> QED
  BY <1>11, <1>13 DEF Journal

\* A savepoint is undone and its scope left.
LEMMA Undoing ==
  ASSUME Invariant, Journal, NEW t \in Tasks, stack[t] # <<>>, RejectReused(t),
         Top(t).save, TopTx(t).state # "broken"
  PROVE  Journal'
<1> DEFINE n == Len(stack[t])
<1>0. /\ pc[t] \in {"work", "throwing"} /\ opened' = opened /\ Left(t)
      /\ stack' = [stack EXCEPT ![t] = Front(stack[t])]
      /\ \E next \in {"idle", "work", "throwing"} : pc' = [pc EXCEPT ![t] = next]
      /\ visible' \subseteq visible
  BY LeaveIsLeft DEF RejectReused, Left, Reject, Leave
<1>1. /\ Typed /\ Stacked /\ Top(t) = Inner(t) /\ Inner(t).conn \in Conns
      /\ TopTx(t) = tx[Inner(t).conn] /\ TopTx(t) \in Transaction /\ NoConn \notin Conns
      /\ n \in Depth(t) /\ n \in Nat \ {0} /\ Conn(t, n) = Inner(t).conn
      /\ \A i \in Depth(t) : ~Leased(t, i)
  BY <1>0, AtWork
<1> PICK c \in Conns : c = Inner(t).conn
  BY <1>1
<1>2. PICK f : f = stack[t][n]
  OBVIOUS
<1>3. Top(t) = f /\ f.save /\ f.conn = c
  BY <1>1, <1>2 DEF Inner
<1>4. /\ tx'[c].state = "open" /\ tx'[c].writes = f.mark /\ tx'[c].acked = tx[c].acked
      /\ tx'[c].undone = tx[c].undone \cup {f.id} /\ \A d \in Conns : d # c => tx'[d] = tx[d]
  <2> DEFINE x == [tx[c] EXCEPT !.state = "open", !.writes = f.mark,
                                !.undone = tx[c].undone \cup {f.id}]
  <2>1. /\ x.state = "open" /\ x.writes = f.mark /\ x.acked = tx[c].acked
        /\ x.undone = tx[c].undone \cup {f.id}
    BY <1>1 DEF Transaction
  <2>2. tx' = [tx EXCEPT ![c] = x]
    <3>1. tx' = [tx EXCEPT ![c].state = "open", ![c].writes = f.mark,
                           ![c].undone = @ \cup {f.id}]
      BY <1>3 DEF RejectReused, Undone
    <3>2. tx \in [Conns -> Transaction] /\ tx[c] \in Transaction
      BY <1>1 DEF Typed
    <3> QED
      BY <3>1, <3>2
  <2> HIDE DEF x
  <2>3. tx'[c] = x /\ \A d \in Conns : d # c => tx'[d] = tx[d]
    BY <1>1, <2>2 DEF Typed
  <2> QED
    BY <2>1, <2>3
<1>5. /\ Depth(t)' = 1..(n - 1) /\ Depth(t) = 1..n
      /\ \A u \in Tasks : u # t => stack'[u] = stack[u]
      /\ \A u \in Tasks : Depth(u)' \subseteq Depth(u)
      /\ \A u \in Tasks : \A i \in Depth(u)' : stack'[u][i] = stack[u][i]
  BY <1>0, <1>1, PopFacts
<1> HIDE DEF n
<1>6. Numbered /\ Remains /\ Held /\ Placed /\ tx[c].state # "broken"
  BY <1>1 DEF Journal
<1>7. Holds(t, n) /\ f.id <= opened[t]
  BY <1>1, <1>2, <1>6 DEF Held, Numbered
<1>8. opened' \in [Tasks -> Nat] /\ \A u \in Tasks : opened[u] <= opened'[u]
  BY <1>0, <1>1 DEF Typed
<1>9. Numbered'
  BY <1>1, <1>5, <1>6, <1>8, NumberedKept
<1>10. Remains'
  <2>1. f.mark = {w \in tx[c].acked : w.within \cap (tx[c].undone \cup {f.id}) = {}}
    BY <1>2, <1>3, <1>6, <1>7 DEF Holds, Clean
  <2>2. tx'[c].writes = {w \in tx'[c].acked : w.within \cap tx'[c].undone = {}}
    BY <1>4, <2>1
  <2> QED
    BY <1>4, <1>6, <2>2, RemainsKept
<1>11. ASSUME NEW u \in Tasks, NEW i \in Depth(u)'
       PROVE  /\ i \in Depth(u) /\ i \in Nat /\ stack'[u][i] = stack[u][i]
              /\ \A k \in 1..i : stack'[u][k] = stack[u][k]
              /\ \A k \in 1..(i - 1) : stack'[u][k] = stack[u][k]
              /\ u = t => i \in 1..(n - 1)
  <2>1. i \in Depth(u) /\ i \in Nat
    BY <1>1, <1>5, FrameFacts
  <2>2. \A k \in 1..i : k \in Depth(u)'
    BY <2>1 DEF Depth
  <2>3. \A k \in 1..i : stack'[u][k] = stack[u][k]
    BY <1>5, <2>2
  <2>4. \A k \in 1..(i - 1) : k \in 1..i
    BY <2>1
  <2> QED
    BY <1>5, <2>1, <2>3, <2>4
<1>12. ASSUME NEW u \in Tasks, NEW i \in Depth(u)', Conn(u, i)' # NoConn PROVE Holds(u, i)'
  <2>1. Conn(u, i) # NoConn /\ Conn(u, i) \in Conns /\ Holds(u, i)
    BY <1>1, <1>6, <1>11, <1>12, FrameFacts DEF Held, Conn
  <2>2. CASE Conn(u, i) # c
    <3>1. Leased(u, i) => Leased(u, i)'
      <4>1. CASE u = t
        BY <1>1, <1>11, <4>1
      <4>2. CASE u # t
        BY <1>0, <1>1, <1>5, <4>2 DEF Leased, Typed
      <4> QED
        BY <4>1, <4>2
    <3>2. opened'[u] \in Nat /\ opened[u] <= opened'[u] /\ tx'[Conn(u, i)] = tx[Conn(u, i)]
      BY <1>4, <1>8, <2>1, <2>2
    <3> QED
      BY <1>1, <1>11, <2>1, <3>1, <3>2, HoldsKept
  <2>3. CASE Conn(u, i) = c
    <3>1. u = t /\ i \in 1..(n - 1) /\ i \in Depth(t) /\ stack[t][i].conn = c
      <4>1. u = t
        BY <1>1, <1>11, <2>1, <2>3, OneTask
      <4> QED
        BY <1>11, <2>3, <4>1 DEF Conn
    <3>2. stack[t][i].id < f.id /\ stack[t][i].id \in Nat /\ f.id \in Nat
      BY <1>1, <1>2, <1>6, <3>1, FrameFacts DEF Numbered, Frame
    <3>3. PICK g : g = stack[t][i]
      OBVIOUS
    <3>9. /\ g.id \notin tx[c].undone /\ \A k \in tx[c].undone : k <= opened[t]
          /\ \A w \in tx[c].acked : w.task = t /\ \A k \in w.within : k <= opened[t]
      BY <2>1, <3>1, <3>3 DEF Holds
    <3>4. /\ g.id \notin tx'[c].undone /\ \A k \in tx'[c].undone : k <= opened[t]
          /\ \A w \in tx'[c].acked : w.task = t /\ \A k \in w.within : k <= opened[t]
      BY <1>4, <1>7, <3>2, <3>3, <3>9
    <3>5. ASSUME g.save
          PROVE  g.mark = {w \in tx[c].acked : w.within \cap (tx'[c].undone \cup {g.id}) = {}}
      <4>1. \A w \in tx[c].acked : f.id \in w.within => g.id \in w.within
        BY <1>2, <1>3, <1>7, <3>1, <3>3, <3>5 DEF Holds
      <4>2. g.mark = {w \in tx[c].acked : w.within \cap (tx[c].undone \cup {g.id}) = {}}
        BY <1>6, <2>1, <3>1, <3>3, <3>5 DEF Holds, Clean
      <4> QED
        BY <1>4, <4>1, <4>2
    <3>6. g.save => g.mark = Clean(c, tx[c].undone \cup {stack[t][i].id})'
      BY <1>4, <1>11, <3>1, <3>3, <3>5 DEF Clean
    <3>7. g.save => \A j \in 1..(i - 1) : stack[t][j].save /\ stack[t][j].conn = c =>
            \A w \in tx[c].acked : g.id \in w.within => stack[t][j].id \in w.within
      BY <2>1, <3>1, <3>3 DEF Holds
    <3>8. stack'[t][i] = g /\ g.conn = c /\ opened'[t] = opened[t]
          /\ \A j \in 1..(i - 1) : stack'[t][j] = stack[t][j]
      BY <1>0, <1>11, <3>1, <3>3
    <3>10. \A j \in 1..(i - 1) : g.save /\ stack'[t][j].save /\ stack'[t][j].conn = c =>
            \A w \in tx'[c].acked : g.id \in w.within => stack'[t][j].id \in w.within
      BY <1>4, <3>7, <3>8
    <3> HIDE DEF Clean
    <3>11. Holds(t, i)'
      BY <1>4, <3>4, <3>6, <3>8, <3>10 DEF Holds
    <3> QED
      BY <3>1, <3>11
  <2> QED
    BY <2>2, <2>3
<1>13. Held'
  BY <1>12 DEF Held
<1>14. Placed'
  <2>1. \A u \in Tasks : \A i \in Depth(u)' :
          \E j \in Depth(u) : /\ stack'[u][i].id = stack[u][j].id
                              /\ stack'[u][i].conn = stack[u][j].conn \/ Conn(u, j) = NoConn
    BY <1>5
  <2>2. \A d \in Conns : tx'[d].acked \subseteq tx[d].acked
    BY <1>4
  <2>3. \A w \in visible' : w \in visible
    BY <1>0
  <2> QED
    BY <1>1, <1>6, <1>8, <2>1, <2>2, <2>3, PlacedKept
<1> QED
  BY <1>9, <1>10, <1>13, <1>14 DEF Journal

\* The pool grants a connection: the scope that waits for it finds nothing there.
LEMMA Granted ==
  ASSUME Invariant, Journal, NEW c \in Conns, Grant(c) PROVE Journal'
<1>0. /\ queue \in Seq(Tasks) /\ queue # <<>> /\ c \in free
      /\ UNCHANGED <<tx, opened, visible>>
  BY DEF Grant, Invariant, Typed
<1>1. PICK t \in Tasks : t = Head(queue)
  BY <1>0
<1> DEFINE n == Len(stack[t])
<1>2. /\ pc' = [pc EXCEPT ![t] = "leased"] /\ stack' = [stack EXCEPT ![t][n].conn = c]
      /\ pc[t] = "waiting" /\ stack[t] # <<>> /\ tx[c] = IdleTx
      /\ Typed /\ Stacked /\ Numbered /\ Remains /\ Held /\ Placed
  <2>1. /\ pc' = [pc EXCEPT ![t] = "leased"] /\ stack' = [stack EXCEPT ![t][n].conn = c]
    BY <1>1 DEF Grant
  <2>2. pc[t] = "waiting"
    <3>1. queue[1] = t /\ 1 \in 1..Len(queue)
      BY <1>0, <1>1
    <3> QED
      BY <3>1 DEF Invariant, Queued
  <2> QED
    BY <1>0, <2>1, <2>2 DEF Invariant, Journal, Stacked, Phased, PoolIdle
<1>3. /\ n \in Nat \ {0} /\ n \in Depth(t) /\ Inner(t) \in Frame /\ Inner(t).own
      /\ Conn(t, n) = NoConn /\ NoConn \notin Conns
  BY <1>2, InnerFacts, TenantContextAssumption DEF Stacked, Phased, Inner, Conn
<1>4. stack[t] \in Seq(Frame) /\ stack'[t] = [stack[t] EXCEPT ![n].conn = c]
  BY <1>2 DEF Typed
<1>5. /\ Len(stack'[t]) = n /\ \A i \in Depth(t) : i # n => stack'[t][i] = stack[t][i]
      /\ stack'[t][n].conn = c /\ stack'[t][n].id = stack[t][n].id
      /\ stack'[t][n].own = stack[t][n].own /\ stack'[t][n].save = stack[t][n].save
  <2> DEFINE g == [stack[t][n] EXCEPT !.conn = c]
  <2>1. stack[t][n] \in Frame /\ c \in Conns
    BY <1>3 DEF Inner
  <2>2. /\ g.conn = c /\ g.id = stack[t][n].id /\ g.own = stack[t][n].own
        /\ g.save = stack[t][n].save
    BY <2>1 DEF Frame
  <2>3. stack'[t] = [stack[t] EXCEPT ![n] = g]
    BY <1>4
  <2> HIDE DEF g
  <2>4. stack[t] \in Seq(Frame) /\ n \in 1..Len(stack[t]) /\ n = Len(stack[t])
    BY <1>3, <1>4 DEF Depth
  <2>5. stack'[t][n] = g /\ Len(stack'[t]) = n
    BY <2>3, <2>4
  <2>6. \A i \in Depth(t) : i # n => stack'[t][i] = stack[t][i]
    BY <2>3, <2>4 DEF Depth
  <2> QED
    BY <2>2, <2>5, <2>6
<1>6. /\ \A u \in Tasks : u # t => stack'[u] = stack[u]
      /\ \A u \in Tasks : Depth(u)' = Depth(u)
  BY <1>2, <1>5 DEF Typed, Depth
<1>7. opened' \in [Tasks -> Nat] /\ \A u \in Tasks : opened[u] <= opened'[u]
  BY <1>0, <1>2 DEF Typed
<1>15. Inner(t) = stack[t][n] /\ n = Len(stack[t])
  BY DEF Inner
<1> HIDE DEF n
<1>8. \A u \in Tasks : \A i \in Depth(u)' : /\ stack'[u][i].id = stack[u][i].id
                                            /\ stack'[u][i].own = stack[u][i].own
                                            /\ stack'[u][i].save = stack[u][i].save
                                            /\ \/ stack'[u][i].conn = stack[u][i].conn
                                               \/ Conn(u, i) = NoConn
  BY <1>3, <1>5, <1>6, ZenonT(30)
<1>9. Numbered'
  BY <1>2, <1>6, <1>7, <1>8, NumberedKept
<1>10. Remains'
  BY <1>0, <1>2 DEF Remains, Clean
<1>11. ASSUME NEW u \in Tasks, NEW i \in Depth(u), Conn(u, i)' # NoConn PROVE Holds(u, i)'
  <2>1. CASE u = t /\ i = n
    <3>1. ~stack[u][i].save /\ ~stack'[u][i].save
      BY <1>2, <1>3, <1>5, <1>15, <2>1 DEF Numbered
    <3>2. pc'[u] = "leased" /\ stack'[u][i].conn = c /\ i = Len(stack'[u])
      BY <1>2, <1>5, <2>1 DEF Typed
    <3>3. Leased(u, i)'
      BY <3>2 DEF Leased
    <3>4. tx'[c].acked = {} /\ tx'[c].undone = {}
      BY <1>0, <1>2 DEF IdleTx
    <3> QED
      BY <3>1, <3>2, <3>3, <3>4 DEF Holds
  <2>2. CASE ~(u = t /\ i = n)
    <3>1. i \in Nat /\ i >= 1 /\ i <= Len(stack[u]) /\ Len(stack[u]) \in Nat
      BY <1>2, FrameFacts DEF Depth, Typed
    <3>2. ASSUME NEW k \in 1..i PROVE stack'[u][k] = stack[u][k]
      <4>1. CASE u = t
        <5>1. k \in Depth(t) /\ k # n
          BY <1>3, <1>15, <2>2, <3>1, <4>1 DEF Depth
        <5> QED
          BY <1>5, <4>1, <5>1
      <4>2. CASE u # t
        BY <1>6, <4>2
      <4> QED
        BY <4>1, <4>2
    <3>3. stack'[u][i] = stack[u][i]
      BY <3>1, <3>2
    <3>4. Conn(u, i) # NoConn /\ Holds(u, i)
      BY <1>2, <1>11, <3>3 DEF Held, Conn
    <3>5. Leased(u, i) => Leased(u, i)'
      <4>1. CASE u = t
        BY <1>2, <4>1 DEF Leased
      <4>2. CASE u # t
        BY <1>2, <1>6, <4>2 DEF Leased, Typed
      <4> QED
        BY <4>1, <4>2
    <3>6. opened'[u] \in Nat /\ opened[u] <= opened'[u] /\ tx'[Conn(u, i)] = tx[Conn(u, i)]
      BY <1>0, <1>7
    <3> QED
      BY <1>2, <3>2, <3>4, <3>5, <3>6, HoldsKept
  <2> QED
    BY <2>1, <2>2
<1>12. Held'
  BY <1>6, <1>11 DEF Held
<1>13. Placed'
  <2>1. \A u \in Tasks : \A i \in Depth(u)' :
          \E j \in Depth(u) : /\ stack'[u][i].id = stack[u][j].id
                              /\ stack'[u][i].conn = stack[u][j].conn \/ Conn(u, j) = NoConn
    BY <1>6, <1>8
  <2>2. \A d \in Conns : tx'[d].acked \subseteq tx[d].acked
    BY <1>0
  <2>3. \A w \in visible' : w \in visible
    BY <1>0
  <2> QED
    BY <1>2, <1>7, <2>1, <2>2, <2>3, PlacedKept
<1> QED
  BY <1>9, <1>10, <1>12, <1>13 DEF Journal

\* A savepoint cannot be set: the number of the scope is used up.
LEMMA Unsaved ==
  ASSUME Invariant, Journal, NEW t \in Tasks, pc[t] \in {"idle", "work"},
         UNCHANGED <<stack, tx, visible>>, opened' = [opened EXCEPT ![t] = opened[t] + 1],
         \A u \in Tasks : u # t => pc'[u] = pc[u]
  PROVE  Journal'
<1>1. Typed /\ Numbered /\ Remains /\ Held /\ Placed
  BY DEF Invariant, Journal
<1>2. opened' \in [Tasks -> Nat] /\ \A u \in Tasks : opened[u] <= opened'[u]
  BY <1>1 DEF Typed
<1>3. \A u \in Tasks : Depth(u)' = Depth(u)
  BY DEF Depth
<1>4. Numbered'
  BY <1>1, <1>2, <1>3, NumberedKept
<1>5. Remains'
  BY <1>1 DEF Remains, Clean
<1>6. ASSUME NEW u \in Tasks, NEW i \in Depth(u), Conn(u, i) # NoConn PROVE Holds(u, i)'
  <2>1. Holds(u, i)
    BY <1>1, <1>6 DEF Held
  <2>2. Leased(u, i) => Leased(u, i)'
    BY DEF Leased
  <2>3. opened'[u] \in Nat /\ opened[u] <= opened'[u] /\ tx'[Conn(u, i)] = tx[Conn(u, i)]
    BY <1>2
  <2>4. \A k \in 1..i : stack'[u][k] = stack[u][k]
    OBVIOUS
  <2> QED
    BY <1>1, <1>6, <2>1, <2>2, <2>3, <2>4, HoldsKept
<1>7. Held'
  BY <1>3, <1>6 DEF Held, Conn
<1>8. Placed'
  <2>1. \A u \in Tasks : \A i \in Depth(u)' :
          \E j \in Depth(u) : /\ stack'[u][i].id = stack[u][j].id
                              /\ stack'[u][i].conn = stack[u][j].conn \/ Conn(u, j) = NoConn
    BY <1>3
  <2>2. \A d \in Conns : tx'[d].acked \subseteq tx[d].acked
    OBVIOUS
  <2>3. \A w \in visible' : w \in visible
    OBVIOUS
  <2> QED
    BY <1>1, <1>2, <2>1, <2>2, <2>3, PlacedKept
<1> QED
  BY <1>4, <1>5, <1>7, <1>8 DEF Journal

\* A step of the work that changes no transaction, and none of its scopes.
LEMMA OnlyPc ==
  ASSUME Invariant, Journal, UNCHANGED <<stack, tx, opened, visible>>,
         \A u \in Tasks : pc'[u] = pc[u] \/ pc[u] # "leased"
  PROVE  Journal'
<1>1. Numbered /\ Remains /\ Held /\ Placed
  BY DEF Journal
<1>2. \A u \in Tasks : Depth(u)' = Depth(u)
  BY DEF Depth
<1>3. Numbered' /\ Remains' /\ Placed'
  BY <1>1, <1>2 DEF Numbered, Remains, Clean, Placed, CommitsWithOwner, Depth, Conn
<1>4. ASSUME NEW u \in Tasks, NEW i \in Depth(u), Conn(u, i) # NoConn PROVE Holds(u, i)'
  <2>1. Holds(u, i) /\ Typed
    BY <1>1, <1>4 DEF Held, Invariant
  <2>2. Leased(u, i) => Leased(u, i)'
    BY DEF Leased
  <2>3. opened'[u] \in Nat /\ opened[u] <= opened'[u] /\ tx'[Conn(u, i)] = tx[Conn(u, i)]
    BY <2>1 DEF Typed
  <2>4. \A k \in 1..i : stack'[u][k] = stack[u][k]
    OBVIOUS
  <2> QED
    BY <1>4, <2>1, <2>2, <2>3, <2>4, HoldsKept
<1>5. Held'
  BY <1>2, <1>4 DEF Held, Conn
<1> QED
  BY <1>3, <1>5 DEF Journal

\* A scope is opened.
LEMMA ScopeKeepsJournal ==
  ASSUME Invariant, Journal, NEW t \in Tasks, NEW m \in ModesOf[t],
         LeaseScope(t, m) \/ \E save \in BOOLEAN : ReuseScope(t, m, save)
  PROVE  Journal'
<1>1. /\ m \in Modes /\ opened[t] + 1 \in Nat /\ opened' = [opened EXCEPT ![t] = opened[t] + 1]
      /\ pc[t] \in {"idle", "work"} /\ UNCHANGED <<tx, visible>> /\ Typed /\ Stacked
  <2>1. m \in Modes
    BY TenantContextAssumption DEF Modes
  <2>2. opened[t] \in Nat /\ Typed /\ Stacked
    BY DEF Invariant, Typed
  <2> QED
    <3>1. CASE LeaseScope(t, m)
      BY <2>1, <2>2, <3>1 DEF LeaseScope, MayEnter
    <3>2. ASSUME NEW save \in BOOLEAN, ReuseScope(t, m, save)
          PROVE  /\ m \in Modes /\ opened[t] + 1 \in Nat
                 /\ opened' = [opened EXCEPT ![t] = opened[t] + 1]
                 /\ pc[t] \in {"idle", "work"} /\ UNCHANGED <<tx, visible>>
      BY <2>1, <2>2, <3>2 DEF ReuseScope, MayEnter
    <3> QED
      BY <2>1, <2>2, <3>1, <3>2
<1>2. CASE LeaseScope(t, m)
  <2> DEFINE f == Scope(t, m, NoConn, TRUE, FALSE, {})
  <2>1. f \in Frame /\ f.id = opened[t] + 1 /\ f.own /\ ~f.save /\ f.conn = NoConn
    BY <1>1 DEF Scope, Frame
  <2>2. /\ stack' = [stack EXCEPT ![t] = Append(stack[t], f)]
        /\ \A u \in Tasks : u # t => pc'[u] = pc[u]
    BY <1>1, <1>2 DEF LeaseScope, Typed
  <2> HIDE DEF f
  <2> QED
    BY <1>1, <2>1, <2>2, Pushes
<1>3. ASSUME NEW save \in BOOLEAN, ReuseScope(t, m, save) PROVE Journal'
  <2>1. stack[t] # <<>>
    BY <1>3 DEF ReuseScope, Reuses
  <2>2. /\ pc[t] = "work" /\ pc[t] \in {"work", "throwing"}
    BY <1>1, <2>1 DEF Stacked, Phased
  <2>3. /\ Top(t) = Inner(t) /\ Inner(t).conn \in Conns /\ TopTx(t) = tx[Inner(t).conn]
        /\ TopTx(t) \in Transaction
    BY <2>1, <2>2, AtWork
  <2>4. \A u \in Tasks : u # t => pc'[u] = pc[u]
    BY <1>1, <1>3 DEF ReuseScope, Typed
  <2>5. CASE save /\ TopTx(t).state # "open"
    <3>1. stack' = stack
      BY <1>3, <2>5 DEF ReuseScope
    <3> QED
      BY <1>1, <2>4, <3>1, Unsaved
  <2>6. CASE ~(save /\ TopTx(t).state # "open")
    <3> DEFINE f == Scope(t, m, Top(t).conn, FALSE, save, TopTx(t).writes)
    <3>1. stack' = [stack EXCEPT ![t] = Append(stack[t], f)]
      BY <1>3, <2>6 DEF ReuseScope
    <3>2. f \in Frame
      BY <1>1, <2>3 DEF Scope, Frame, Transaction
    <3>3. /\ f.id = opened[t] + 1 /\ ~f.own /\ f.conn = Inner(t).conn /\ f.save = save
          /\ f.mark = tx[Inner(t).conn].writes
      BY <2>3 DEF Scope
    <3>4. f.save => tx[f.conn].state = "open" /\ f.mark = tx[f.conn].writes
      BY <2>3, <2>6, <3>3
    <3> HIDE DEF f
    <3> QED
      BY <1>1, <2>1, <2>2, <2>4, <3>1, <3>2, <3>3, <3>4, Pushes
  <2> QED
    BY <2>5, <2>6
<1> QED
  BY <1>2, <1>3

\* How a scope is left.
LEMMA LeftVisible ==
  ASSUME Typed, NEW t \in Tasks, NEW STATE W, Resolve(t, W) \/ Reject(t, W)
  PROVE  /\ stack' = [stack EXCEPT ![t] = Front(stack[t])]
         /\ \A u \in Tasks : u # t => pc'[u] = pc[u]
         /\ visible' \subseteq visible \cup W
<1>1. PICK C : Leave(t, C, W)
  BY DEF Resolve, Reject
<1>2. PICK next \in C : pc' = [pc EXCEPT ![t] = next]
  BY <1>1 DEF Leave
<1>3. visible' \subseteq visible \cup W
  BY <1>1 DEF Leave
<1> QED
  BY <1>1, <1>2, <1>3 DEF Leave, Typed

\* The scope that owns a transaction ends, and the transaction with it.
LEMMA OwnerKeepsJournal ==
  ASSUME Invariant, Journal, NEW t \in Tasks,
         OpenFails(t) \/ (stack[t] # <<>> /\ (Commit(t) \/ CommitFails(t) \/ Rollback(t)))
  PROVE  Journal'
<1>0. /\ pc[t] \in {"leased", "work", "throwing"} /\ pc[t] # "waiting"
      /\ stack[t] # <<>> /\ Release(t) /\ opened' = opened
  BY DEF OpenFails, Commit, CommitFails, Rollback, Invariant, Stacked, Phased
<1>1. Typed /\ Stacked /\ Remains /\ Top(t) = Inner(t) /\ Inner(t).conn \in Conns
  BY <1>0, InnerFacts DEF Invariant, Journal, Stacked
<1>2. Inner(t).own
  BY <1>1 DEF OpenFails, Commit, CommitFails, Rollback, Stacked, Phased, Inner
<1>3. tx' = [tx EXCEPT ![Inner(t).conn] = IdleTx]
  BY <1>0, <1>1 DEF Release
<1>4. TopTx(t).state = "open" => TopTx(t).writes \subseteq tx[Inner(t).conn].acked
  BY <1>1 DEF Remains, Clean, TopTx
<1>5. \E W \in SUBSET tx[Inner(t).conn].acked : Resolve(t, W) \/ Reject(t, W)
  <2>1. CASE OpenFails(t) \/ Rollback(t)
    BY <2>1 DEF OpenFails, Rollback
  <2>2. CASE Commit(t)
    BY <1>4, <2>2 DEF Commit
  <2>3. CASE CommitFails(t)
    BY <1>4, <2>3 DEF CommitFails
  <2> QED
    BY <2>1, <2>2, <2>3
<1>6. /\ stack' = [stack EXCEPT ![t] = Front(stack[t])]
      /\ \A u \in Tasks : u # t => pc'[u] = pc[u]
      /\ visible' \subseteq visible \cup tx[Inner(t).conn].acked
  <2>1. PICK W \in SUBSET tx[Inner(t).conn].acked : Resolve(t, W) \/ Reject(t, W)
    BY <1>5
  <2> QED
    BY <1>1, <2>1, LeftVisible
<1> QED
  BY <1>0, <1>2, <1>3, <1>6, PopsOwner

\* The steps together.
LEMMA JournalStep ==
  ASSUME Invariant, Journal, [ContextNext]_ctxVars PROVE Journal'
<1>0. Typed /\ Stacked
  BY DEF Invariant
<1>1. ASSUME NEW t \in Tasks, stack[t] # <<>>, UNCHANGED <<tx, opened>>,
             Resolve(t, {}) \/ Reject(t, {})
      PROVE  Journal'
  <2>1. /\ stack' = [stack EXCEPT ![t] = Front(stack[t])]
        /\ \A u \in Tasks : u # t => pc'[u] = pc[u]
        /\ visible' \subseteq visible \cup {}
    BY <1>0, <1>1, LeftVisible
  <2> QED
    BY <1>1, <2>1, PopsInside
<1>2. ASSUME NEW t \in Tasks, LeaseTimeout(t) PROVE Journal'
  <2>1. stack[t] # <<>>
    BY <1>0, <1>2 DEF LeaseTimeout, Stacked, Phased
  <2> QED
    BY <1>1, <1>2, <2>1 DEF LeaseTimeout
<1>3. ASSUME NEW t \in Tasks, stack[t] # <<>>, Throw(t) PROVE Journal'
  BY <1>0, <1>3, OnlyPc DEF Throw, Typed
<1>4. ASSUME NEW t \in Tasks, stack[t] # <<>>, ReturnReused(t) PROVE Journal'
  BY <1>1, <1>4 DEF ReturnReused
<1>5. ASSUME NEW t \in Tasks, stack[t] # <<>>, RejectReused(t) PROVE Journal'
  <2>1. CASE Top(t).save /\ TopTx(t).state # "broken"
    BY <1>5, <2>1, Undoing
  <2>2. CASE ~(Top(t).save /\ TopTx(t).state # "broken")
    BY <1>1, <1>5, <2>2 DEF RejectReused
  <2> QED
    BY <2>1, <2>2
<1>6. CASE UNCHANGED ctxVars
  BY <1>6, OnlyPc DEF ctxVars
<1>7. ASSUME NEW t \in Tasks, TaskStep(t) PROVE Journal'
  <2>1. ASSUME NEW m \in ModesOf[t],
               LeaseScope(t, m) \/ \E save \in BOOLEAN : ReuseScope(t, m, save)
        PROVE  Journal'
    BY <2>1, ScopeKeepsJournal
  <2>2. CASE Open(t)
    BY <2>2, Begins
  <2>3. CASE OpenFails(t) \/ (stack[t] # <<>> /\ (Commit(t) \/ CommitFails(t) \/ Rollback(t)))
    BY <2>3, OwnerKeepsJournal
  <2>4. CASE stack[t] # <<>> /\ (Write(t) \/ StatementFails(t))
    BY <2>4, Writing, Fails
  <2> QED
    BY <1>2, <1>3, <1>4, <1>5, <1>7, <2>1, <2>2, <2>3, <2>4 DEF TaskStep
<1> QED
  BY <1>6, <1>7, Granted DEF ContextNext

LEMMA JournalHolds == ContextSpec => []Journal
<1>1. ContextInit => Journal
  <2> SUFFICES ASSUME ContextInit PROVE Journal
    OBVIOUS
  <2>1. \A t \in Tasks : Depth(t) = {}
    BY DEF ContextInit, Depth
  <2>2. \A c \in Conns : tx[c].acked = {} /\ tx[c].writes = {} /\ tx[c].undone = {}
    BY DEF ContextInit, IdleTx
  <2>3. visible = {}
    BY DEF ContextInit
  <2> QED
    BY <2>1, <2>2, <2>3
       DEF Journal, Numbered, Remains, Clean, Held, Placed, CommitsWithOwner
<1>2. Invariant /\ Journal /\ [ContextNext]_ctxVars => Journal'
  BY JournalStep
<1> QED
  BY <1>1, <1>2, InvariantHolds, PTL DEF ContextSpec

\* What a nested scope has written is in no other transaction and not visible
\* while the transaction of its owner is open: only the owner's COMMIT shows it.
THEOREM CommitsWithOwnerHolds == ContextSpec => []CommitsWithOwner
<1>1. Journal => CommitsWithOwner
  BY DEF Journal, Placed
<1> QED
  BY <1>1, JournalHolds, PTL

\* ROLLBACK TO SAVEPOINT undoes the writes of its own scope and of those inside
\* it, and what it has undone never commits, however scopes are nested.
THEOREM UndoesItsOwnHolds == ContextSpec => []UndoesItsOwn
<1>1. Journal => UndoesItsOwn
  BY DEF Journal, Remains, Clean, UndoesItsOwn
<1> QED
  BY <1>1, JournalHolds, PTL

=============================================================================
