---------------------------- MODULE ConfigProofs ----------------------------
(* Theorems about Config and Log: for any threads, programs, static           *)
(* variables, types and documents.  Values and listeners have no type: a      *)
(* sequence is one over some set.                                             *)
EXTENDS Log, FiniteSetTheorems, TLAPS

IsSeq(s) == \E S : s \in Seq(S)

\* A variable, and a thread inside setValue.
VarRec(r) == r = [type |-> r.type, m_val |-> r.m_val, m_cbs |-> r.m_cbs] /\ IsSeq(r.m_cbs)
ChangeRec(r) ==
  /\ r = [pc |-> r.pc, var |-> r.var, val |-> r.val, todo |-> r.todo, rest |-> r.rest]
  /\ IsSeq(r.todo)
Changes(t) == at[t].pc \in {"notify", "assign"}

\* Nothing points to a variable that was never created, and a listener that is
\* called has been added.
VarsOK ==
  /\ IsSeq(cvars) /\ IsSeq(told) /\ Len(told) = Len(cvars)
  /\ \A v \in 1..Len(cvars) : VarRec(cvars[v]) /\ Range(cvars[v].m_cbs) \subseteq DOMAIN told[v]

ThreadsOK ==
  /\ DOMAIN at = Threads
  /\ \A t \in Threads : Changes(t) =>
       /\ ChangeRec(at[t]) /\ at[t].var \in 1..Len(cvars)
       /\ Range(at[t].todo) \subseteq DOMAIN told[at[t].var]

NamesOK ==
  /\ DOMAIN handle = Threads
  /\ \A name \in DOMAIN s_datas : s_datas[name] \in 1..Len(cvars)
  /\ \A t \in Threads : \A name \in DOMAIN handle[t] : handle[t][name] \in 0..Len(cvars)

\* A name is registered as long as somebody has a pointer to its variable.
HandlesOK ==
  \A t \in Threads : \A name \in DOMAIN handle[t] :
    handle[t][name] # NULL /\ name \notin retyped => name \in DOMAIN s_datas /\ handle[t][name] = s_datas[name]

\* A variable of which no change met another call: one thread at most is changing
\* it, and every listener is still to be called or was told the value that thread
\* will assign, or, if there is none, the value the variable has.
Follows(v) ==
  /\ \A t, u \in Changing(v) : t = u
  /\ Changing(v) = {} => \A cb \in Range(cvars[v].m_cbs) : told[v][cb] = cvars[v].m_val
  /\ \A t \in Changing(v) :
       /\ \A cb \in Range(cvars[v].m_cbs) : cb \in Range(at[t].todo) \/ told[v][cb] = at[t].val
       /\ at[t].pc = "assign" => at[t].todo = <<>>

FollowOK == \A v \in 1..Len(cvars) : v \notin mixed => Follows(v)

IInv == VarsOK /\ ThreadsOK /\ NamesOK /\ HandlesOK /\ FollowOK

-----------------------------------------------------------------------------
(* Sequences over any set.                                                   *)

LEMMA SeqDomain ==
  ASSUME NEW s, IsSeq(s)
  PROVE  Len(s) \in Nat /\ DOMAIN s = 1..Len(s)
BY DEF IsSeq

LEMMA SeqRange ==
  ASSUME NEW s, IsSeq(s)
  PROVE  /\ \A i \in 1..Len(s) : s[i] \in Range(s)
         /\ \A x \in Range(s) : \E i \in 1..Len(s) : x = s[i]
BY SeqDomain DEF Range

LEMMA NoElements ==
  ASSUME NEW s, s = <<>>
  PROVE  IsSeq(s) /\ Len(s) = 0 /\ Range(s) = {}
<1>1. s \in Seq({}) /\ Len(s) = 0 OBVIOUS
<1>2. IsSeq(s) BY <1>1 DEF IsSeq
<1>3. \A i \in 1..0 : FALSE OBVIOUS
<1>4. Range(s) = {} BY <1>1, <1>2, <1>3, SeqRange
<1> QED BY <1>1, <1>2, <1>4

LEMMA AppendAny ==
  ASSUME NEW s, IsSeq(s), NEW x
  PROVE  /\ IsSeq(Append(s, x)) /\ Len(Append(s, x)) = Len(s) + 1
         /\ \A i \in 1..Len(s) : Append(s, x)[i] = s[i]
         /\ Append(s, x)[Len(s) + 1] = x
         /\ Range(Append(s, x)) = Range(s) \cup {x}
<1>1. PICK S : s \in Seq(S) BY DEF IsSeq
<1>2. PICK T : T = S \cup {x} OBVIOUS
<1>3. s \in Seq(T) /\ x \in T BY <1>1, <1>2
<1>4. /\ Append(s, x) \in Seq(T) /\ Len(Append(s, x)) = Len(s) + 1 /\ Len(s) \in Nat
      /\ \A i \in 1..Len(s) : Append(s, x)[i] = s[i]
      /\ Append(s, x)[Len(s) + 1] = x
  BY <1>3
<1>5. IsSeq(Append(s, x)) BY <1>4 DEF IsSeq
<1>6. Range(Append(s, x)) \subseteq Range(s) \cup {x}
  <2> SUFFICES ASSUME NEW y \in Range(Append(s, x)) PROVE y \in Range(s) \cup {x} OBVIOUS
  <2>1. PICK i \in 1..Len(s) + 1 : y = Append(s, x)[i] BY <1>4, <1>5, SeqRange
  <2>2. i = Len(s) + 1 \/ i \in 1..Len(s) BY <1>4
  <2> QED BY <1>4, <2>1, <2>2, SeqRange
<1>7. Range(s) \cup {x} \subseteq Range(Append(s, x))
  <2>1. x \in Range(Append(s, x))
    <3>1. Len(s) + 1 \in 1..Len(s) + 1 BY <1>4
    <3> QED BY <1>4, <1>5, <3>1, SeqRange
  <2>2. ASSUME NEW y \in Range(s) PROVE y \in Range(Append(s, x))
    <3>1. PICK i \in 1..Len(s) : y = s[i] BY SeqRange
    <3>2. i \in 1..Len(s) + 1 BY <1>4
    <3> QED BY <1>4, <1>5, <3>1, <3>2, SeqRange
  <2> QED BY <2>1, <2>2
<1> QED BY <1>4, <1>5, <1>6, <1>7

LEMMA TailAny ==
  ASSUME NEW s, IsSeq(s), s # <<>>
  PROVE  /\ IsSeq(Tail(s)) /\ s[1] \in Range(s)
         /\ Range(s) = {s[1]} \cup Range(Tail(s))
<1>1. PICK S : s \in Seq(S) BY DEF IsSeq
<1>2. PICK n \in Nat : n = Len(s) /\ n > 0 BY <1>1
<1>3. Tail(s) \in Seq(S) /\ Len(Tail(s)) = n - 1 /\ \A i \in 1..n - 1 : Tail(s)[i] = s[i + 1]
  BY <1>1, <1>2
<1>4. IsSeq(Tail(s)) BY <1>3 DEF IsSeq
<1>5. s[1] \in Range(s) BY <1>2, SeqRange
<1>6. ASSUME NEW x \in Range(s) PROVE x \in {s[1]} \cup Range(Tail(s))
  <2>1. PICK i \in 1..n : x = s[i] BY <1>2, SeqRange
  <2>2. CASE i = 1 BY <2>1, <2>2
  <2>3. CASE i # 1
    <3>1. i - 1 \in 1..n - 1 /\ (i - 1) + 1 = i BY <1>2, <2>3
    <3>2. Tail(s)[i - 1] = x BY <1>3, <2>1, <3>1
    <3> QED BY <1>3, <1>4, <3>1, <3>2, SeqRange
  <2> QED BY <2>2, <2>3
<1>7. ASSUME NEW x \in Range(Tail(s)) PROVE x \in Range(s)
  <2>1. PICK i \in 1..n - 1 : x = Tail(s)[i] BY <1>3, <1>4, SeqRange
  <2>2. i + 1 \in 1..n BY <1>2
  <2> QED BY <1>2, <1>3, <2>1, <2>2, SeqRange
<1> QED BY <1>4, <1>5, <1>6, <1>7

\* A set of natural numbers has a least element.
LEMMA LeastOfNat ==
  ASSUME NEW S, S \subseteq Nat, S # {}
  PROVE  Min(S) \in S /\ \A y \in S : Min(S) <= y
<1> DEFINE R == OpToRel(<, Nat)
<1>1. \A x, y \in Nat : <<y, x>> \in R <=> y < x BY DEF OpToRel
<1>2. IsWellFoundedOn(R, Nat) BY NatLessThanWellFounded
<1> HIDE DEF R
<1>3. PICK x \in S : \A y \in S : ~(<<y, x>> \in R) BY <1>2, WFMin
<1>4. ASSUME NEW y \in S PROVE x <= y
  <2>1. x \in Nat /\ y \in Nat /\ ~(<<y, x>> \in R) BY <1>3
  <2>2. ~(y < x) BY <2>1, <1>1
  <2> QED BY <2>1, <2>2
<1> QED BY <1>3, <1>4 DEF Min

\* Removing a listener adds none.
LEMMA RemoveAny ==
  ASSUME NEW s, IsSeq(s), NEW x
  PROVE  IsSeq(RemoveFirst(s, x)) /\ Range(RemoveFirst(s, x)) \subseteq Range(s)
<1>1. PICK S : s \in Seq(S) BY DEF IsSeq
<1>2. CASE ~\E i \in 1..Len(s) : s[i] = x BY <1>2 DEF RemoveFirst
<1>3. CASE \E i \in 1..Len(s) : s[i] = x
  <2> DEFINE I == {i \in 1..Len(s) : s[i] = x}
  <2>1. PICK n \in Nat : n = Len(s) BY <1>1
  <2>2. I \subseteq Nat /\ I # {} BY <1>3, <2>1
  <2>3. PICK k \in 1..n : k = Min(I) BY <2>1, <2>2, LeastOfNat
  <2>4. RemoveFirst(s, x) = SubSeq(s, 1, k - 1) \o SubSeq(s, k + 1, n)
    BY <1>3, <2>1, <2>2, <2>3 DEF RemoveFirst, RemoveAt, SelectInSeq
  <2> HIDE DEF I
  <2> DEFINE a == SubSeq(s, 1, k - 1)
             b == SubSeq(s, k + 1, n)
  <2>5. a \in Seq(S) /\ Len(a) = k - 1 /\ \A i \in 1..k - 1 : a[i] = s[i] BY <1>1, <2>1
  <2>6. b \in Seq(S) /\ Len(b) = n - k /\ \A i \in 1..n - k : b[i] = s[k + i] BY <1>1, <2>1
  <2>7. RemoveFirst(s, x) = a \o b BY <2>4
  <2> HIDE DEF a, b
  <2>8. a \o b \in Seq(S) /\ Len(a \o b) = n - 1
    <3>1. a \in Seq(S) /\ b \in Seq(S) BY <2>5, <2>6
    <3>2. a \o b \in Seq(S) BY <3>1
    <3>3. Len(a \o b) = Len(a) + Len(b) BY <3>1
    <3> QED BY <2>1, <2>5, <2>6, <3>2, <3>3
  <2>9. IsSeq(a \o b) BY <2>8 DEF IsSeq
  <2>10. ASSUME NEW y \in Range(a \o b) PROVE y \in Range(s)
    <3>1. PICK i \in 1..n - 1 : y = (a \o b)[i] BY <2>8, <2>9, SeqRange
    <3>2. CASE i < k
      <4>1. y = a[i] /\ i \in 1..n BY <2>1, <2>5, <2>6, <3>1, <3>2
      <4> QED BY <2>1, <2>5, <3>2, <4>1, SeqRange
    <3>3. CASE i >= k
      <4>1. y = b[i - (k - 1)] BY <2>1, <2>5, <2>6, <3>1, <3>3
      <4>2. i - (k - 1) \in 1..n - k /\ k + (i - (k - 1)) = i + 1 /\ i + 1 \in 1..n BY <2>1, <3>3
      <4> QED BY <2>1, <2>6, <4>1, <4>2, SeqRange
    <3> QED BY <2>1, <3>2, <3>3
  <2> QED BY <2>7, <2>9, <2>10
<1> QED BY <1>2, <1>3

-----------------------------------------------------------------------------

(* The initial state, and steps by what they change.                         *)

\* A function on 1..n is a sequence.
LEMMA FunAny ==
  ASSUME NEW n \in Nat, NEW f, f = [i \in 1..n |-> f[i]]
  PROVE  IsSeq(f) /\ Len(f) = n
<1>1. PICK S : S = {f[i] : i \in 1..n} OBVIOUS
<1>2. f \in [1..n -> S] BY <1>1
<1>3. f \in Seq(S) /\ Len(f) = n BY <1>2
<1> QED BY <1>3 DEF IsSeq

LEMMA InitInv == ASSUME ConfigInit PROVE IInv
<1>1. PICK n \in Nat : n = Len(Statics) /\ DOMAIN Statics = 1..n
  BY StaticsAssumption
<1>2. IsSeq(cvars) /\ Len(cvars) = n
  <2>1. cvars = [i \in 1..n |-> cvars[i]] BY <1>1 DEF ConfigInit
  <2> QED BY <2>1, FunAny
<1>3. IsSeq(told) /\ Len(told) = n
  <2>1. told = [i \in 1..n |-> told[i]] BY <1>1 DEF ConfigInit
  <2> QED BY <2>1, FunAny
<1>4. ASSUME NEW v \in 1..n
      PROVE  /\ VarRec(cvars[v]) /\ DOMAIN told[v] = Range(cvars[v].m_cbs)
             /\ \A cb \in Range(cvars[v].m_cbs) : told[v][cb] = cvars[v].m_val
  <2>1. PICK r : r = cvars[v] OBVIOUS
  <2>2. /\ r = [type |-> Statics[v].type, m_val |-> Statics[v].val, m_cbs |-> Statics[v].cbs]
        /\ told[v] = [cb \in Range(Statics[v].cbs) |-> Statics[v].val]
    BY <1>1, <2>1 DEF ConfigInit
  <2>3. r.m_cbs = Statics[v].cbs /\ r.m_val = Statics[v].val /\ r.type = Statics[v].type BY <2>2
  <2>4. Statics[v].cbs \in Seq(Range(Statics[v].cbs)) BY <1>1, StaticsAssumption
  <2>5. IsSeq(r.m_cbs) BY <2>3, <2>4 DEF IsSeq
  <2>6. VarRec(r) BY <2>2, <2>3, <2>5 DEF VarRec
  <2> QED BY <2>1, <2>2, <2>3, <2>6
<1>5. VarsOK BY <1>2, <1>3, <1>4 DEF VarsOK
<1>6. DOMAIN at = Threads /\ \A t \in Threads : at[t].pc = "idle"
  BY DEF ConfigInit, Idle
<1>7. ThreadsOK BY <1>6 DEF ThreadsOK, Changes
<1>8. DOMAIN handle = Threads /\ \A t \in Threads : DOMAIN handle[t] = {}
  BY DEF ConfigInit
<1>9. ASSUME NEW name \in DOMAIN s_datas PROVE s_datas[name] \in 1..n
  <2>1. /\ name \in {v.name : v \in Range(Statics)}
        /\ s_datas[name] = CHOOSE i \in DOMAIN Statics : Statics[i].name = name
    BY DEF ConfigInit
  <2>2. \E i \in DOMAIN Statics : Statics[i].name = name BY <2>1 DEF Range
  <2> QED BY <1>1, <2>1, <2>2
<1>10. NamesOK BY <1>2, <1>8, <1>9 DEF NamesOK
<1>11. HandlesOK BY <1>8 DEF HandlesOK
<1>12. FollowOK
  <2>1. \A v : Changing(v) = {} BY <1>6 DEF Changing
  <2> QED BY <1>2, <1>4, <2>1 DEF FollowOK, Follows
<1> QED BY <1>5, <1>7, <1>10, <1>11, <1>12 DEF IInv

\* A step that leaves the variables and their changes alone.
LEMMA RegistrySame ==
  ASSUME VarsOK, ThreadsOK, FollowOK, UNCHANGED <<at, cvars, told, mixed>>
  PROVE  VarsOK' /\ ThreadsOK' /\ FollowOK'
<1>1. VarsOK' BY DEF VarsOK
<1>2. ThreadsOK' BY DEF ThreadsOK, Changes
<1>3. FollowOK' BY DEF FollowOK, Follows, Changing
<1> QED BY <1>1, <1>2, <1>3

LEMMA NamesSame ==
  ASSUME NamesOK, HandlesOK, UNCHANGED <<handle, s_datas, retyped>>, Len(cvars') = Len(cvars)
  PROVE  NamesOK' /\ HandlesOK'
<1>1. NamesOK' BY DEF NamesOK
<1>2. HandlesOK' BY DEF HandlesOK
<1> QED BY <1>1, <1>2

\* A step that changes one variable.
LEMMA OneVariable ==
  ASSUME VarsOK, NEW v \in 1..Len(cvars),
         IsSeq(cvars'), IsSeq(told'), Len(cvars') = Len(cvars), Len(told') = Len(told),
         \A w \in 1..Len(cvars) : w # v => cvars'[w] = cvars[w] /\ told'[w] = told[w],
         NEW r, cvars'[v] = r, NEW g, told'[v] = g,
         VarRec(r), Range(r.m_cbs) \subseteq DOMAIN g
  PROVE  VarsOK'
<1>1. ASSUME NEW w \in 1..Len(cvars') PROVE (VarRec(cvars[w]) /\ Range(cvars[w].m_cbs) \subseteq DOMAIN told[w])'
  <2>1. CASE w = v BY <2>1
  <2>2. CASE w # v
    <3>1. cvars'[w] = cvars[w] /\ told'[w] = told[w] BY <2>2
    <3>2. VarRec(cvars[w]) /\ Range(cvars[w].m_cbs) \subseteq DOMAIN told[w] BY DEF VarsOK
    <3> QED BY <3>1, <3>2
  <2> QED BY <2>1, <2>2
<1>2. Len(told') = Len(cvars') BY DEF VarsOK
<1> QED BY <1>1, <1>2 DEF VarsOK

LEMMA OneVariableThreads ==
  ASSUME ThreadsOK, NEW v \in 1..Len(cvars), Len(cvars') = Len(cvars), at' = at,
         \A w \in 1..Len(cvars) : w # v => told'[w] = told[w],
         DOMAIN told[v] \subseteq DOMAIN told'[v]
  PROVE  ThreadsOK'
<1>1. DOMAIN at' = Threads BY DEF ThreadsOK
<1>2. ASSUME NEW t \in Threads, Changes(t)'
      PROVE  (/\ ChangeRec(at[t]) /\ at[t].var \in 1..Len(cvars)
              /\ Range(at[t].todo) \subseteq DOMAIN told[at[t].var])'
  <2>1. Changes(t) BY <1>2 DEF Changes
  <2>2. PICK r : r = at[t] OBVIOUS
  <2>3. ChangeRec(r) /\ r.var \in 1..Len(cvars) /\ Range(r.todo) \subseteq DOMAIN told[r.var]
    BY <2>1, <2>2 DEF ThreadsOK
  <2>4. Range(r.todo) \subseteq DOMAIN told'[r.var]
    <3>1. CASE r.var = v BY <2>3, <3>1
    <3>2. CASE r.var # v BY <2>3, <3>2
    <3> QED BY <3>1, <3>2
  <2>5. at'[t] = r BY <2>2
  <2> QED BY <2>3, <2>4, <2>5
<1> QED BY <1>1, <1>2 DEF ThreadsOK

\* A call under the write lock: whoever meets a change marks the variable.
LEMMA LockedFollows ==
  ASSUME FollowOK, NEW v \in 1..Len(cvars), Len(cvars') = Len(cvars), at' = at,
         \A w \in 1..Len(cvars) : w # v => cvars'[w] = cvars[w] /\ told'[w] = told[w],
         mixed' = IF Changing(v) # {} THEN mixed \cup {v} ELSE mixed,
         Changing(v) = {} /\ v \notin mixed => \A cb \in Range(cvars'[v].m_cbs) : told'[v][cb] = cvars'[v].m_val
  PROVE  FollowOK'
<1>1. \A w : Changing(w)' = Changing(w) BY DEF Changing
<1>2. ASSUME NEW w \in 1..Len(cvars), w \notin mixed' PROVE Follows(w)'
  <2>1. w \notin mixed BY <1>2
  <2>2. Follows(w) BY <2>1 DEF FollowOK
  <2>3. CASE w # v BY <1>1, <2>2, <2>3 DEF Follows
  <2>4. CASE w = v
    <3>1. Changing(v) = {} BY <1>2, <2>4
    <3> QED BY <1>1, <2>1, <2>4, <3>1 DEF Follows
  <2> QED BY <2>3, <2>4
<1> QED BY <1>2 DEF FollowOK

-----------------------------------------------------------------------------

(* The calls.                                                                *)

\* Pointers and names, when a thread gets the pointer p.
LEMMA PointerGiven ==
  ASSUME NamesOK, NEW t \in Threads, NEW name, NEW p \in 0..Len(cvars), Len(cvars') = Len(cvars),
         DOMAIN handle' = Threads, s_datas' = s_datas,
         \A u \in Threads : u # t => handle'[u] = handle[u], handle'[t] = Set1(handle[t], name, p)
  PROVE  /\ NamesOK'
         /\ \A u \in Threads : \A x \in DOMAIN handle'[u] :
              \/ u = t /\ x = name /\ handle'[u][x] = p
              \/ x \in DOMAIN handle[u] /\ handle'[u][x] = handle[u][x]
<1>1. ASSUME NEW u \in Threads, NEW x \in DOMAIN handle'[u]
      PROVE  \/ u = t /\ x = name /\ handle'[u][x] = p
             \/ x \in DOMAIN handle[u] /\ handle'[u][x] = handle[u][x]
  BY DEF Set1
<1>2. NamesOK' BY <1>1 DEF NamesOK
<1> QED BY <1>1, <1>2

LEMMA FindOK == ASSUME IInv, NEW t \in Threads, Find(t) PROVE IInv'
<1>1. VarsOK' /\ ThreadsOK' /\ FollowOK' BY RegistrySame DEF Find, IInv
<1>2. PICK x, type : x = Args(t).name /\ type = Args(t).type OBVIOUS
<1>p. PICK p \in 0..Len(cvars) :
        p = IF x \in DOMAIN s_datas /\ cvars[s_datas[x]].type = type THEN s_datas[x] ELSE NULL
  <2>1. Len(cvars) \in Nat BY SeqDomain DEF IInv, VarsOK
  <2> QED BY <2>1 DEF IInv, NamesOK, NULL
<1>h. PICK h : h = Set1(handle[t], x, p) OBVIOUS
<1>e. handle' = [handle EXCEPT ![t] = h] BY <1>2, <1>p, <1>h DEF Find
<1>3. DOMAIN handle' = Threads /\ handle'[t] = h /\ \A u \in Threads : u # t => handle'[u] = handle[u]
  BY <1>e DEF IInv, NamesOK
<1>4. UNCHANGED <<s_datas, cvars, retyped>> BY DEF Find
<1>6. /\ NamesOK'
      /\ \A u \in Threads : \A y \in DOMAIN handle'[u] :
           \/ u = t /\ y = x /\ handle'[u][y] = p
           \/ y \in DOMAIN handle[u] /\ handle'[u][y] = handle[u][y]
  <2>1. NamesOK /\ p \in 0..Len(cvars) BY DEF IInv
  <2>2. s_datas' = s_datas /\ Len(cvars') = Len(cvars) BY <1>4
  <2> QED BY <2>1, <2>2, <1>e, <1>h, <1>3, PointerGiven
<1>7. HandlesOK' BY <1>p, <1>4, <1>6 DEF IInv, HandlesOK
<1> QED BY <1>1, <1>6, <1>7 DEF IInv

LEMMA ElsewhereOK == ASSUME IInv, NEW t \in Threads, Elsewhere(t) PROVE IInv'
<1>1. VarsOK' /\ ThreadsOK' /\ FollowOK' BY RegistrySame DEF Elsewhere, IInv
<1>2. NamesOK' /\ HandlesOK' BY NamesSame DEF Elsewhere, IInv
<1> QED BY <1>1, <1>2 DEF IInv

\* A new variable has no listener and nobody is changing it.
LEMMA NewVariable ==
  ASSUME VarsOK, ThreadsOK, FollowOK, NEW type, NEW val, at' = at, mixed' = mixed,
         cvars' = Append(cvars, [type |-> type, m_val |-> val, m_cbs |-> <<>>]),
         told' = Append(told, <<>>)
  PROVE  VarsOK' /\ ThreadsOK' /\ FollowOK' /\ Len(cvars') = Len(cvars) + 1 /\ Len(cvars) \in Nat
<1>1. PICK r : r = [type |-> type, m_val |-> val, m_cbs |-> <<>>] OBVIOUS
<1>2. PICK g : g = <<>> OBVIOUS
<1>3. /\ IsSeq(cvars') /\ Len(cvars') = Len(cvars) + 1 /\ cvars'[Len(cvars) + 1] = r
      /\ \A v \in 1..Len(cvars) : cvars'[v] = cvars[v]
  BY <1>1, AppendAny DEF VarsOK
<1>4. /\ IsSeq(told') /\ Len(told') = Len(cvars) + 1 /\ told'[Len(cvars) + 1] = g
      /\ \A v \in 1..Len(cvars) : told'[v] = told[v]
  BY <1>2, AppendAny DEF VarsOK
<1>5. PICK n \in Nat : n = Len(cvars) BY SeqDomain DEF VarsOK
<1>6. VarRec(r) /\ Range(r.m_cbs) = {}
  <2>1. r.m_cbs = <<>> /\ r.m_val = val /\ r.type = type BY <1>1
  <2>2. IsSeq(r.m_cbs) /\ Range(r.m_cbs) = {} BY <2>1, NoElements
  <2> QED BY <1>1, <2>1, <2>2 DEF VarRec
<1>7. \A v \in 1..n + 1 : v \in 1..n \/ v = n + 1 BY <1>5
<1>8. VarsOK'
  <2>1. ASSUME NEW v \in 1..n + 1 PROVE (VarRec(cvars[v]) /\ Range(cvars[v].m_cbs) \subseteq DOMAIN told[v])'
    <3>1. CASE v = n + 1
      <4>1. cvars'[v] = r BY <1>3, <1>5, <3>1
      <4> QED BY <1>6, <4>1
    <3>2. CASE v \in 1..n
      <4>1. cvars'[v] = cvars[v] /\ told'[v] = told[v] BY <1>3, <1>4, <1>5, <3>2
      <4>2. VarRec(cvars[v]) /\ Range(cvars[v].m_cbs) \subseteq DOMAIN told[v] BY <1>5, <3>2 DEF VarsOK
      <4> QED BY <4>1, <4>2
    <3> QED BY <1>7, <3>1, <3>2
  <2> QED BY <1>3, <1>4, <1>5, <2>1 DEF VarsOK
<1>9. ThreadsOK'
  <2>1. ASSUME NEW t \in Threads, Changes(t)'
        PROVE  (/\ ChangeRec(at[t]) /\ at[t].var \in 1..Len(cvars)
                /\ Range(at[t].todo) \subseteq DOMAIN told[at[t].var])'
    <3>1. PICK c : c = at[t] /\ at'[t] = c OBVIOUS
    <3>2. ChangeRec(c) /\ c.var \in 1..n /\ Range(c.todo) \subseteq DOMAIN told[c.var]
      BY <1>5, <2>1, <3>1 DEF ThreadsOK, Changes
    <3>3. c.var \in 1..n + 1 /\ told'[c.var] = told[c.var] BY <1>4, <1>5, <3>2
    <3> QED BY <1>3, <1>5, <3>1, <3>2, <3>3
  <2> QED BY <2>1 DEF ThreadsOK
<1>10. FollowOK'
  <2>1. \A v : Changing(v)' = Changing(v) BY DEF Changing
  <2>2. Changing(n + 1) = {} BY <1>5 DEF Changing, ThreadsOK, Changes
  <2>3. ASSUME NEW v \in 1..n + 1, v \notin mixed' PROVE Follows(v)'
    <3>1. CASE v = n + 1
      <4>1. cvars'[v] = r BY <1>3, <1>5, <3>1
      <4> QED BY <1>6, <2>1, <2>2, <3>1, <4>1 DEF Follows
    <3>2. CASE v \in 1..n
      <4>1. cvars'[v] = cvars[v] /\ told'[v] = told[v] BY <1>3, <1>4, <1>5, <3>2
      <4>2. Follows(v) BY <1>5, <2>3, <3>2 DEF FollowOK
      <4>3. PICK c, g1 : c = cvars[v] /\ cvars'[v] = c /\ g1 = told[v] /\ told'[v] = g1 BY <4>1
      <4>4. PICK C : C = Changing(v) /\ C = Changing(v)' BY <2>1
      <4>5. /\ \A t, u \in C : t = u
            /\ C = {} => \A cb \in Range(c.m_cbs) : g1[cb] = c.m_val
            /\ \A t \in C : /\ \A cb \in Range(c.m_cbs) : cb \in Range(at[t].todo) \/ g1[cb] = at[t].val
                            /\ at[t].pc = "assign" => at[t].todo = <<>>
        BY <4>2, <4>3, <4>4 DEF Follows
      <4> QED BY <4>3, <4>4, <4>5 DEF Follows
    <3> QED BY <1>7, <3>1, <3>2
  <2> QED BY <1>3, <1>5, <2>3 DEF FollowOK
<1> QED BY <1>3, <1>5, <1>8, <1>9, <1>10

LEMMA LookupOK == ASSUME IInv, NEW t \in Threads, Lookup(t) PROVE IInv'
<1> DEFINE name == Args(t).name
           known == name \in DOMAIN s_datas
<1>0. UNCHANGED <<program, at, mixed>> BY DEF Lookup
<1>1. CASE known /\ handle' = [handle EXCEPT ![t] = Set1(@, name, s_datas[name])]
           /\ UNCHANGED <<s_datas, cvars, told, retyped>>
  <2>1. VarsOK' /\ ThreadsOK' /\ FollowOK' BY <1>0, <1>1, RegistrySame DEF IInv
  <2>2. PICK p \in 1..Len(cvars) : p = s_datas[name] BY <1>1 DEF IInv, NamesOK
  <2>3. PICK x, h : x = name /\ h = Set1(handle[t], x, p) OBVIOUS
  <2>4. handle' = [handle EXCEPT ![t] = h] /\ s_datas' = s_datas /\ Len(cvars') = Len(cvars)
    BY <1>1, <2>2, <2>3
  <2>5. /\ NamesOK'
        /\ \A u \in Threads : \A y \in DOMAIN handle'[u] :
             \/ u = t /\ y = x /\ handle'[u][y] = p
             \/ y \in DOMAIN handle[u] /\ handle'[u][y] = handle[u][y]
    <3>0. Len(cvars) \in Nat BY SeqDomain DEF IInv, VarsOK
    <3>1. NamesOK /\ p \in 0..Len(cvars) BY <3>0 DEF IInv
    <3>2. DOMAIN handle' = Threads /\ handle'[t] = h /\ \A u \in Threads : u # t => handle'[u] = handle[u]
      BY <2>4 DEF IInv, NamesOK
    <3> QED BY <3>1, <3>2, <2>3, <2>4, PointerGiven
  <2>6. HandlesOK' BY <1>1, <2>2, <2>3, <2>5 DEF IInv, HandlesOK
  <2> QED BY <2>1, <2>5, <2>6 DEF IInv
<1>2. CASE UNCHANGED <<handle, s_datas, cvars, told, retyped>>
  <2>1. VarsOK' /\ ThreadsOK' /\ FollowOK' BY <1>0, <1>2, RegistrySame DEF IInv
  <2>2. NamesOK' /\ HandlesOK' BY <1>2, NamesSame DEF IInv
  <2> QED BY <2>1, <2>2 DEF IInv
<1>3. CASE /\ cvars' = Append(cvars, [type |-> Args(t).type, m_val |-> Args(t).val, m_cbs |-> <<>>])
           /\ told' = Append(told, <<>>)
           /\ s_datas' = Set1(s_datas, name, Len(cvars'))
           /\ handle' = [handle EXCEPT ![t] = Set1(@, name, Len(cvars'))]
           /\ retyped' = IF known THEN retyped \cup {name} ELSE retyped
  <2>1. PICK type, val, x : type = Args(t).type /\ val = Args(t).val /\ x = name OBVIOUS
  <2>2. VarsOK' /\ ThreadsOK' /\ FollowOK' /\ Len(cvars') = Len(cvars) + 1 /\ Len(cvars) \in Nat
    BY <1>0, <1>3, <2>1, NewVariable DEF IInv
  <2>3. PICK n \in Nat : n = Len(cvars) /\ Len(cvars') = n + 1 BY <2>2
  <2>4. /\ DOMAIN s_datas' = DOMAIN s_datas \cup {x}
        /\ \A y \in DOMAIN s_datas' : s_datas'[y] = IF y = x THEN n + 1 ELSE s_datas[y]
    BY <1>3, <2>1, <2>3 DEF Set1
  <2>5. DOMAIN handle = Threads BY DEF IInv, NamesOK
  <2>6. /\ DOMAIN handle' = Threads
        /\ \A u \in Threads : \A y \in DOMAIN handle'[u] :
             \/ u = t /\ y = x /\ handle'[u][y] = n + 1
             \/ y \in DOMAIN handle[u] /\ handle'[u][y] = handle[u][y]
    BY <1>3, <2>1, <2>3, <2>5 DEF Set1
  <2>7. \A y \in DOMAIN s_datas : s_datas[y] \in 1..n BY <2>3 DEF IInv, NamesOK
  <2>8. \A u \in Threads : \A y \in DOMAIN handle[u] : handle[u][y] \in 0..n
    BY <2>3 DEF IInv, NamesOK
  <2>9. NamesOK'
    <3>1. \A y \in DOMAIN s_datas' : s_datas'[y] \in 1..n + 1 BY <2>4, <2>7
    <3>2. \A u \in Threads : \A y \in DOMAIN handle'[u] : handle'[u][y] \in 0..n + 1
      BY <2>6, <2>8
    <3> QED BY <2>3, <2>6, <3>1, <3>2 DEF NamesOK
  <2>10. HandlesOK'
    <3> SUFFICES ASSUME NEW u \in Threads, NEW y \in DOMAIN handle'[u], handle'[u][y] # NULL, y \notin retyped'
                 PROVE  y \in DOMAIN s_datas' /\ handle'[u][y] = s_datas'[y]
      BY DEF HandlesOK
    <3>1. CASE u = t /\ y = x /\ handle'[u][y] = n + 1 BY <2>4, <3>1
    <3>2. CASE y \in DOMAIN handle[u] /\ handle'[u][y] = handle[u][y]
      <4>1. y \notin retyped /\ (known => y # x) BY <1>3, <2>1
      <4>2. y \in DOMAIN s_datas /\ handle[u][y] = s_datas[y] BY <3>2, <4>1 DEF IInv, HandlesOK
      <4>3. y # x BY <2>1, <4>1, <4>2
      <4> QED BY <2>4, <3>2, <4>2, <4>3
    <3> QED BY <2>6, <3>1, <3>2
  <2> QED BY <2>2, <2>9, <2>10 DEF IInv
<1> QED BY <1>1, <1>2, <1>3 DEF Lookup

\* The variable a call is made on exists.
LEMMA ThisKnown ==
  ASSUME IInv, NEW t \in Threads, This(t) # NULL
  PROVE  This(t) \in 1..Len(cvars)
<1>1. Len(cvars) \in Nat BY SeqDomain DEF IInv, VarsOK
<1> QED BY <1>1 DEF This, IInv, NamesOK, NULL

LEMMA VariableReplaced ==
  ASSUME IsSeq(cvars), NEW v \in 1..Len(cvars), NEW r, cvars' = [cvars EXCEPT ![v] = r]
  PROVE  /\ IsSeq(cvars') /\ Len(cvars') = Len(cvars) /\ cvars'[v] = r
         /\ \A w \in 1..Len(cvars) : w # v => cvars'[w] = cvars[w]
<1>1. PICK n \in Nat : n = Len(cvars) /\ DOMAIN cvars = 1..n BY SeqDomain
<1>2. PICK z : z = cvars' OBVIOUS
<1>3. /\ z = [i \in 1..n |-> z[i]] /\ z[v] = r
      /\ \A w \in 1..n : w # v => z[w] = cvars[w]
  BY <1>1, <1>2
<1>4. IsSeq(z) /\ Len(z) = n BY <1>3, FunAny
<1> QED BY <1>1, <1>2, <1>3, <1>4

LEMMA ToldReplaced ==
  ASSUME IsSeq(told), NEW v \in 1..Len(told), NEW g, told' = [told EXCEPT ![v] = g]
  PROVE  /\ IsSeq(told') /\ Len(told') = Len(told) /\ told'[v] = g
         /\ \A w \in 1..Len(told) : w # v => told'[w] = told[w]
<1>1. PICK n \in Nat : n = Len(told) /\ DOMAIN told = 1..n BY SeqDomain
<1>2. PICK z : z = told' OBVIOUS
<1>3. /\ z = [i \in 1..n |-> z[i]] /\ z[v] = g
      /\ \A w \in 1..n : w # v => z[w] = told[w]
  BY <1>1, <1>2
<1>4. IsSeq(z) /\ Len(z) = n BY <1>3, FunAny
<1> QED BY <1>1, <1>2, <1>3, <1>4

\* A call under the write lock of variable v gives it the listeners cbs.
LEMMA ListenersStep ==
  ASSUME IInv, NEW v \in 1..Len(cvars), NEW cbs, IsSeq(cbs), NEW g,
         UNCHANGED <<at, handle, s_datas, retyped>>,
         mixed' = IF Changing(v) # {} THEN mixed \cup {v} ELSE mixed,
         cvars' = [cvars EXCEPT ![v].m_cbs = cbs],
         IsSeq(told'), Len(told') = Len(told), told'[v] = g,
         \A w \in 1..Len(cvars) : w # v => told'[w] = told[w],
         Range(cbs) \subseteq DOMAIN g, DOMAIN told[v] \subseteq DOMAIN g,
         Changing(v) = {} /\ v \notin mixed => \A cb \in Range(cbs) : g[cb] = cvars[v].m_val
  PROVE  IInv'
<1>1. PICK q : q = cvars[v] OBVIOUS
<1>2. VarRec(q) BY <1>1 DEF IInv, VarsOK
<1>3. PICK r : r = [q EXCEPT !.m_cbs = cbs] OBVIOUS
<1>4. r = [type |-> q.type, m_val |-> q.m_val, m_cbs |-> cbs] BY <1>2, <1>3 DEF VarRec
<1>5. r.m_cbs = cbs /\ r.m_val = q.m_val /\ r.type = q.type BY <1>4
<1>6. VarRec(r) BY <1>4, <1>5 DEF VarRec
<1>7. IsSeq(cvars) BY DEF IInv, VarsOK
<1>8. cvars' = [cvars EXCEPT ![v] = r] BY <1>1, <1>3
<1>9. /\ IsSeq(cvars') /\ Len(cvars') = Len(cvars) /\ cvars'[v] = r
      /\ \A w \in 1..Len(cvars) : w # v => cvars'[w] = cvars[w]
  BY <1>7, <1>8, VariableReplaced
<1>10. VarsOK' BY <1>5, <1>6, <1>9, OneVariable DEF IInv
<1>11. ThreadsOK' BY <1>9, OneVariableThreads DEF IInv
<1>12. NamesOK' /\ HandlesOK' BY <1>9, NamesSame DEF IInv
<1>13. FollowOK'
  <2>1. Changing(v) = {} /\ v \notin mixed => \A cb \in Range(cvars'[v].m_cbs) : told'[v][cb] = cvars'[v].m_val
    BY <1>1, <1>5, <1>9
  <2> QED BY <1>9, <2>1, LockedFollows DEF IInv
<1> QED BY <1>10, <1>11, <1>12, <1>13 DEF IInv

LEMMA AddListenerOK == ASSUME IInv, NEW t \in Threads, AddListener(t) PROVE IInv'
<1>1. PICK v \in 1..Len(cvars) : v = This(t) BY ThisKnown DEF AddListener, Locked
<1>2. PICK cb : cb = Args(t).cb OBVIOUS
<1>3. PICK q : q = cvars[v] OBVIOUS
<1>4. VarRec(q) /\ Range(q.m_cbs) \subseteq DOMAIN told[v] BY <1>3 DEF IInv, VarsOK
<1>5. PICK cbs : cbs = Append(q.m_cbs, cb) OBVIOUS
<1>6. IsSeq(cbs) /\ Range(cbs) = Range(q.m_cbs) \cup {cb} BY <1>4, <1>5, AppendAny DEF VarRec
<1>7. PICK g : g = Set1(told[v], cb, q.m_val) OBVIOUS
<1>8. /\ DOMAIN g = DOMAIN told[v] \cup {cb}
      /\ \A x \in DOMAIN g : g[x] = IF x = cb THEN q.m_val ELSE told[v][x]
  BY <1>7 DEF Set1
<1>9. cvars' = [cvars EXCEPT ![v].m_cbs = cbs] /\ told' = [told EXCEPT ![v] = g]
  BY <1>1, <1>2, <1>3, <1>5, <1>7 DEF AddListener
<1>10. IsSeq(told) /\ Len(told) = Len(cvars) BY DEF IInv, VarsOK
<1>11. /\ IsSeq(told') /\ Len(told') = Len(told) /\ told'[v] = g
       /\ \A w \in 1..Len(cvars) : w # v => told'[w] = told[w]
  BY <1>9, <1>10, ToldReplaced
<1>12. Changing(v) = {} /\ v \notin mixed => \A x \in Range(cbs) : g[x] = cvars[v].m_val
  <2> SUFFICES ASSUME Changing(v) = {}, v \notin mixed, NEW x \in Range(cbs) PROVE g[x] = q.m_val BY <1>3
  <2>1. Follows(v) BY DEF IInv, FollowOK
  <2>2. \A y \in Range(q.m_cbs) : told[v][y] = q.m_val BY <1>3, <2>1 DEF Follows
  <2> QED BY <1>4, <1>6, <1>8, <2>2
<1>13. UNCHANGED <<at, handle, s_datas, retyped>> BY DEF AddListener, Locked
<1>14. mixed' = IF Changing(v) # {} THEN mixed \cup {v} ELSE mixed BY <1>1 DEF AddListener, Locked
<1>15. Range(cbs) \subseteq DOMAIN g /\ DOMAIN told[v] \subseteq DOMAIN g BY <1>4, <1>6, <1>8
<1> QED BY <1>6, <1>9, <1>11, <1>12, <1>13, <1>14, <1>15, ListenersStep

\* delListener and clearListener: fewer listeners.
LEMMA FewerListeners ==
  ASSUME IInv, NEW v \in 1..Len(cvars), NEW cbs, IsSeq(cbs), Range(cbs) \subseteq Range(cvars[v].m_cbs),
         UNCHANGED <<at, handle, s_datas, retyped, told>>,
         mixed' = IF Changing(v) # {} THEN mixed \cup {v} ELSE mixed,
         cvars' = [cvars EXCEPT ![v].m_cbs = cbs]
  PROVE  IInv'
<1>1. PICK g : g = told[v] OBVIOUS
<1>2. Range(cvars[v].m_cbs) \subseteq DOMAIN g BY <1>1 DEF IInv, VarsOK
<1>3. IsSeq(told') /\ Len(told') = Len(told) /\ told'[v] = g /\ \A w \in 1..Len(cvars) : w # v => told'[w] = told[w]
  BY <1>1 DEF IInv, VarsOK
<1>4. Changing(v) = {} /\ v \notin mixed => \A cb \in Range(cbs) : g[cb] = cvars[v].m_val
  <2> SUFFICES ASSUME Changing(v) = {}, v \notin mixed, NEW x \in Range(cbs) PROVE g[x] = cvars[v].m_val
    OBVIOUS
  <2>1. Follows(v) BY DEF IInv, FollowOK
  <2> QED BY <1>1, <2>1 DEF Follows
<1>5. Range(cbs) \subseteq DOMAIN g /\ DOMAIN told[v] \subseteq DOMAIN g BY <1>1, <1>2
<1> QED BY <1>3, <1>4, <1>5, ListenersStep

LEMMA DelListenerOK == ASSUME IInv, NEW t \in Threads, DelListener(t) PROVE IInv'
<1>1. PICK v \in 1..Len(cvars) : v = This(t) BY ThisKnown DEF DelListener, Locked
<1>2. PICK cb, q : cb = Args(t).cb /\ q = cvars[v] OBVIOUS
<1>3. IsSeq(q.m_cbs) BY <1>2 DEF IInv, VarsOK, VarRec
<1>4. PICK cbs : cbs = RemoveFirst(q.m_cbs, cb) OBVIOUS
<1>5. IsSeq(cbs) /\ Range(cbs) \subseteq Range(cvars[v].m_cbs) BY <1>2, <1>3, <1>4, RemoveAny
<1>6. cvars' = [cvars EXCEPT ![v].m_cbs = cbs] BY <1>1, <1>2, <1>4 DEF DelListener
<1>7. UNCHANGED <<at, handle, s_datas, retyped, told>> BY DEF DelListener, Locked
<1>8. mixed' = IF Changing(v) # {} THEN mixed \cup {v} ELSE mixed BY <1>1 DEF DelListener, Locked
<1> QED BY <1>5, <1>6, <1>7, <1>8, FewerListeners

LEMMA ClearListenerOK == ASSUME IInv, NEW t \in Threads, ClearListener(t) PROVE IInv'
<1>1. PICK v \in 1..Len(cvars) : v = This(t) BY ThisKnown DEF ClearListener, Locked
<1>2. PICK cbs : cbs = <<>> OBVIOUS
<1>3. IsSeq(cbs) /\ Range(cbs) \subseteq Range(cvars[v].m_cbs) BY <1>2, NoElements
<1>4. cvars' = [cvars EXCEPT ![v].m_cbs = cbs] BY <1>1, <1>2 DEF ClearListener
<1>5. UNCHANGED <<at, handle, s_datas, retyped, told>> BY DEF ClearListener, Locked
<1>6. mixed' = IF Changing(v) # {} THEN mixed \cup {v} ELSE mixed BY <1>1 DEF ClearListener, Locked
<1> QED BY <1>3, <1>4, <1>5, <1>6, FewerListeners

-----------------------------------------------------------------------------
(* setValue and LoadFromYaml.                                                *)

LEMMA RestQuiet == \A rest : Rest(rest).pc \notin {"notify", "assign"}
BY DEF Rest, Idle

LEMMA CallQuiet ==
  ASSUME NEW t \in Threads, NEW op, Call(t, op)
  PROVE  ~Changes(t)
BY DEF Call, Changes, Idle

\* A thread that changes no variable goes on and still changes none.
LEMMA QuietStep ==
  ASSUME IInv, NEW t \in Threads, ~Changes(t), NEW r, r.pc \notin {"notify", "assign"},
         at' = [at EXCEPT ![t] = r], mixed \subseteq mixed',
         UNCHANGED <<handle, s_datas, cvars, told, retyped>>
  PROVE  IInv'
<1>1. DOMAIN at = Threads BY DEF IInv, ThreadsOK
<1>2. DOMAIN at' = Threads /\ at'[t] = r /\ \A u \in Threads : u # t => at'[u] = at[u] BY <1>1
<1>3. \A u \in Threads : Changes(u)' => u # t /\ Changes(u) /\ at'[u] = at[u] BY <1>2 DEF Changes
<1>4. VarsOK' BY DEF IInv, VarsOK
<1>5. ThreadsOK' BY <1>2, <1>3 DEF IInv, ThreadsOK
<1>6. NamesOK' /\ HandlesOK' BY NamesSame DEF IInv
<1>7. FollowOK'
  <2>1. \A v : Changing(v)' = Changing(v) /\ t \notin Changing(v) BY <1>2 DEF Changing, Changes
  <2>2. ASSUME NEW v \in 1..Len(cvars), v \notin mixed' PROVE Follows(v)'
    <3>1. Follows(v) BY <2>2 DEF IInv, FollowOK
    <3>2. \A u \in Changing(v) : at'[u] = at[u] BY <1>2, <2>1 DEF Changing
    <3> QED BY <2>1, <3>1, <3>2 DEF Follows
  <2> QED BY <2>2 DEF FollowOK
<1> QED BY <1>4, <1>5, <1>6, <1>7 DEF IInv

\* A thread begins to change variable v: every listener is still to be called.
LEMMA ChangeBegins ==
  ASSUME IInv, NEW t \in Threads, ~Changes(t), NEW v \in 1..Len(cvars), NEW val, NEW rest, NEW r,
         r = [pc |-> "notify", var |-> v, val |-> val, todo |-> cvars[v].m_cbs, rest |-> rest],
         at' = [at EXCEPT ![t] = r],
         mixed' = IF Changing(v) # {} THEN mixed \cup {v} ELSE mixed,
         UNCHANGED <<handle, s_datas, cvars, told, retyped>>
  PROVE  IInv'
<1>1. DOMAIN at = Threads BY DEF IInv, ThreadsOK
<1>2. DOMAIN at' = Threads /\ at'[t] = r /\ \A u \in Threads : u # t => at'[u] = at[u] BY <1>1
<1>3. PICK cbs : cbs = cvars[v].m_cbs OBVIOUS
<1>4. r.pc = "notify" /\ r.var = v /\ r.val = val /\ r.todo = cbs /\ r.rest = rest BY <1>3
<1>5. IsSeq(cbs) /\ Range(cbs) \subseteq DOMAIN told[v] BY <1>3 DEF IInv, VarsOK, VarRec
<1>6. ChangeRec(r) BY <1>3, <1>4, <1>5 DEF ChangeRec
<1>7. VarsOK' BY DEF IInv, VarsOK
<1>8. ThreadsOK'
  <2>1. ASSUME NEW u \in Threads, Changes(u)'
        PROVE  (/\ ChangeRec(at[u]) /\ at[u].var \in 1..Len(cvars)
                /\ Range(at[u].todo) \subseteq DOMAIN told[at[u].var])'
    <3>1. CASE u = t BY <1>2, <1>4, <1>5, <1>6, <3>1
    <3>2. CASE u # t
      <4>1. PICK c : c = at[u] /\ c = at'[u] BY <1>2, <3>2
      <4>2. Changes(u) BY <2>1, <4>1 DEF Changes
      <4>3. ChangeRec(c) /\ c.var \in 1..Len(cvars) /\ Range(c.todo) \subseteq DOMAIN told[c.var]
        BY <4>1, <4>2 DEF IInv, ThreadsOK
      <4> QED BY <4>1, <4>3
    <3> QED BY <3>1, <3>2
  <2> QED BY <1>2, <2>1 DEF ThreadsOK
<1>9. NamesOK' /\ HandlesOK' BY NamesSame DEF IInv
<1>10. FollowOK'
  <2>1. Changing(v)' = Changing(v) \cup {t} BY <1>2, <1>4 DEF Changing
  <2>2. \A w : t \notin Changing(w) BY DEF Changing, Changes
  <2>3. \A w : w # v => Changing(w)' = Changing(w)
    <3> SUFFICES ASSUME NEW w, w # v PROVE Changing(w)' = Changing(w) OBVIOUS
    <3>1. ASSUME NEW u \in Threads PROVE u \in Changing(w)' <=> u \in Changing(w)
      <4>1. CASE u = t BY <1>2, <1>4, <2>2, <4>1 DEF Changing
      <4>2. CASE u # t BY <1>2, <4>2 DEF Changing
      <4> QED BY <4>1, <4>2
    <3> QED BY <3>1 DEF Changing
  <2>4. ASSUME NEW w \in 1..Len(cvars), w \notin mixed' PROVE Follows(w)'
    <3>1. CASE w # v
      <4>1. Follows(w) BY <2>4 DEF IInv, FollowOK
      <4>2. \A u \in Changing(w) : at'[u] = at[u] BY <1>2, <2>2 DEF Changing
      <4> QED BY <2>3, <3>1, <4>1, <4>2 DEF Follows
    <3>2. CASE w = v
      <4>1. Changing(v)' = {t} BY <2>1, <2>4, <3>2
      <4>2. cvars'[v].m_cbs = cbs /\ at'[t].todo = cbs /\ at'[t].pc = "notify" BY <1>2, <1>3, <1>4
      <4>3. /\ \A x, u \in Changing(v)' : x = u
            /\ Changing(v)' # {}
            /\ \A x \in Changing(v)' : at'[x].pc # "assign" /\ at'[x].todo = cbs
        BY <4>1, <4>2
      <4> QED BY <3>2, <4>2, <4>3 DEF Follows
    <3> QED BY <3>1, <3>2
  <2> QED BY <2>4 DEF FollowOK
<1> QED BY <1>7, <1>8, <1>9, <1>10 DEF IInv

LEMMA CompareOK ==
  ASSUME IInv, NEW t \in Threads, ~Changes(t), NEW v \in 1..Len(cvars), NEW val, NEW rest,
         Compare(t, v, val, rest), UNCHANGED <<handle, s_datas, cvars, told, retyped>>
  PROVE  IInv'
<1>1. mixed' = IF Changing(v) # {} THEN mixed \cup {v} ELSE mixed BY DEF Compare
<1>2. CASE cvars[v].m_val = val
  <2>1. PICK r : r = Rest(rest) OBVIOUS
  <2>2. at' = [at EXCEPT ![t] = r] BY <1>2, <2>1 DEF Compare
  <2> QED BY <1>1, <2>1, <2>2, RestQuiet, QuietStep
<1>3. CASE cvars[v].m_val # val
  <2>1. PICK r : r = [pc |-> "notify", var |-> v, val |-> val, todo |-> cvars[v].m_cbs, rest |-> rest] OBVIOUS
  <2>2. at' = [at EXCEPT ![t] = r] BY <1>3, <2>1 DEF Compare
  <2> QED BY <1>1, <2>1, <2>2, ChangeBegins
<1> QED BY <1>2, <1>3

LEMMA SetValueOK == ASSUME IInv, NEW t \in Threads, SetValue(t) PROVE IInv'
<1>1. PICK v \in 1..Len(cvars) : v = This(t) BY ThisKnown DEF SetValue
<1>2. PICK val, rest : val = Args(t).val /\ rest = <<>> OBVIOUS
<1>3. Compare(t, v, val, rest) BY <1>1, <1>2 DEF SetValue
<1>4. ~Changes(t) BY CallQuiet DEF SetValue
<1>5. UNCHANGED <<handle, s_datas, cvars, told, retyped>> BY DEF SetValue
<1> QED BY <1>3, <1>4, <1>5, CompareOK

LEMMA LoadFromYamlOK == ASSUME IInv, NEW t \in Threads, LoadFromYaml(t) PROVE IInv'
<1>1. PICK r, nodes : nodes = Members(<<>>, Args(t).root) /\ r = Rest(nodes) OBVIOUS
<1>2. at' = [at EXCEPT ![t] = r] /\ UNCHANGED <<handle, s_datas, cvars, told, mixed, retyped>>
  BY <1>1 DEF LoadFromYaml
<1>3. ~Changes(t) BY CallQuiet DEF LoadFromYaml
<1> QED BY <1>1, <1>2, <1>3, RestQuiet, QuietStep

LEMMA LoadNextOK == ASSUME IInv, NEW t \in Threads, LoadNext(t) PROVE IInv'
<1>1. ~Changes(t) BY DEF LoadNext, Changes
<1>2. UNCHANGED <<handle, s_datas, cvars, told, retyped>> BY DEF LoadNext
<1> DEFINE name == at[t].rest[1].name
           node == at[t].rest[1].node
           rest == Tail(at[t].rest)
           v == s_datas[name]
           cast == Cast(cvars[v].type, node)
<1>3. \/ at' = [at EXCEPT ![t] = Rest(rest)] /\ mixed' = mixed
      \/ at' = [at EXCEPT ![t] = Idle] /\ mixed' = mixed
      \/ name \in DOMAIN s_datas /\ Compare(t, v, cast.val, rest)
  BY DEF LoadNext
<1>4. CASE at' = [at EXCEPT ![t] = Rest(rest)] /\ mixed' = mixed
  <2>1. PICK r, q : q = rest /\ r = Rest(q) OBVIOUS
  <2> QED BY <1>1, <1>2, <1>4, <2>1, RestQuiet, QuietStep
<1>5. CASE at' = [at EXCEPT ![t] = Idle] /\ mixed' = mixed
  <2>1. PICK r : r = Idle OBVIOUS
  <2>2. r.pc \notin {"notify", "assign"} BY <2>1 DEF Idle
  <2> QED BY <1>1, <1>2, <1>5, <2>1, <2>2, QuietStep
<1>6. CASE name \in DOMAIN s_datas /\ Compare(t, v, cast.val, rest)
  <2>1. PICK w \in 1..Len(cvars) : w = v BY <1>6 DEF IInv, NamesOK
  <2>2. PICK val, q : val = cast.val /\ q = rest OBVIOUS
  <2>3. Compare(t, w, val, q) BY <1>6, <2>1, <2>2
  <2> QED BY <1>1, <1>2, <2>3, CompareOK
<1> QED BY <1>3, <1>4, <1>5, <1>6

\* What a thread inside setValue holds.
LEMMA ChangeKnown ==
  ASSUME IInv, NEW t \in Threads, Changes(t), NEW c, c = at[t]
  PROVE  /\ c = [pc |-> c.pc, var |-> c.var, val |-> c.val, todo |-> c.todo, rest |-> c.rest]
         /\ IsSeq(c.todo) /\ c.var \in 1..Len(cvars) /\ Range(c.todo) \subseteq DOMAIN told[c.var]
         /\ t \in Changing(c.var)
         /\ c.var \notin mixed => Follows(c.var) /\ Changing(c.var) = {t}
<1>1. /\ c = [pc |-> c.pc, var |-> c.var, val |-> c.val, todo |-> c.todo, rest |-> c.rest]
      /\ IsSeq(c.todo) /\ c.var \in 1..Len(cvars) /\ Range(c.todo) \subseteq DOMAIN told[c.var]
  BY DEF IInv, ThreadsOK, ChangeRec
<1>2. t \in Changing(c.var) BY DEF Changing, Changes
<1>3. c.var \notin mixed => Follows(c.var) BY <1>1 DEF IInv, FollowOK
<1>4. Follows(c.var) => Changing(c.var) = {t} BY <1>2 DEF Follows
<1> QED BY <1>1, <1>2, <1>3, <1>4

\* A thread inside setValue goes on with the same variable and value.
LEMMA ChangeGoesOn ==
  ASSUME IInv, NEW t \in Threads, Changes(t), NEW c, c = at[t], NEW p \in {"notify", "assign"}, NEW todo, NEW d,
         d = [pc |-> p, var |-> c.var, val |-> c.val, todo |-> todo, rest |-> c.rest],
         DOMAIN at' = Threads, at'[t] = d, \A u \in Threads : u # t => at'[u] = at[u],
         IsSeq(todo), Range(todo) \subseteq Range(c.todo),
         cvars' = cvars, Len(told') = Len(told), IsSeq(told'),
         \A w \in 1..Len(cvars) : DOMAIN told'[w] = DOMAIN told[w] /\ (w # c.var => told'[w] = told[w]),
         c.var \notin mixed =>
           /\ \A cb \in Range(cvars[c.var].m_cbs) : cb \in Range(todo) \/ told'[c.var][cb] = c.val
           /\ p = "assign" => todo = <<>>,
         UNCHANGED <<handle, s_datas, mixed, retyped>>
  PROVE  IInv'
<1>1. /\ c = [pc |-> c.pc, var |-> c.var, val |-> c.val, todo |-> c.todo, rest |-> c.rest]
      /\ c.var \in 1..Len(cvars) /\ Range(c.todo) \subseteq DOMAIN told[c.var]
      /\ c.var \notin mixed => Follows(c.var) /\ Changing(c.var) = {t}
  BY ChangeKnown
<1>3. DOMAIN at' = Threads /\ at'[t] = d /\ \A u \in Threads : u # t => at'[u] = at[u] OBVIOUS
<1>4. d.pc = p /\ d.var = c.var /\ d.val = c.val /\ d.todo = todo /\ d.rest = c.rest OBVIOUS
<1>5. ChangeRec(d) BY <1>4 DEF ChangeRec
<1>6. VarsOK' BY DEF IInv, VarsOK
<1>7. ThreadsOK'
  <2>1. ASSUME NEW u \in Threads, Changes(u)'
        PROVE  (/\ ChangeRec(at[u]) /\ at[u].var \in 1..Len(cvars)
                /\ Range(at[u].todo) \subseteq DOMAIN told[at[u].var])'
    <3>1. CASE u = t BY <1>1, <1>3, <1>4, <1>5, <3>1
    <3>2. CASE u # t
      <4>1. PICK e : e = at[u] /\ e = at'[u] BY <1>3, <3>2
      <4>2. Changes(u) BY <2>1, <4>1 DEF Changes
      <4>3. ChangeRec(e) /\ e.var \in 1..Len(cvars) /\ Range(e.todo) \subseteq DOMAIN told[e.var]
        BY <4>1, <4>2 DEF IInv, ThreadsOK
      <4> QED BY <4>1, <4>3
    <3> QED BY <3>1, <3>2
  <2> QED BY <1>3, <2>1 DEF ThreadsOK
<1>8. NamesOK' /\ HandlesOK' BY NamesSame DEF IInv
<1>9. FollowOK'
  <2>1. \A w : Changing(w)' = Changing(w)
    <3> SUFFICES ASSUME NEW w PROVE Changing(w)' = Changing(w) OBVIOUS
    <3>1. ASSUME NEW u \in Threads PROVE u \in Changing(w)' <=> u \in Changing(w)
      <4>1. CASE u = t BY <1>3, <1>4, <4>1 DEF Changing, Changes
      <4>2. CASE u # t BY <1>3, <4>2 DEF Changing
      <4> QED BY <4>1, <4>2
    <3> QED BY <3>1 DEF Changing
  <2>2. ASSUME NEW w \in 1..Len(cvars), w \notin mixed' PROVE Follows(w)'
    <3>1. Follows(w) BY <2>2 DEF IInv, FollowOK
    <3>2. CASE w # c.var
      <4>1. \A u \in Changing(w) : at'[u] = at[u] BY <1>3, <3>2 DEF Changing
      <4> QED BY <2>1, <3>1, <3>2, <4>1 DEF Follows
    <3>3. CASE w = c.var
      <4>1. Changing(w)' = {t} BY <1>1, <2>1, <2>2, <3>3
      <4>2. at'[t].todo = todo /\ at'[t].val = c.val /\ at'[t].pc = p BY <1>3, <1>4
      <4>3. /\ \A cb \in Range(cvars[w].m_cbs) : cb \in Range(todo) \/ told'[w][cb] = c.val
            /\ p = "assign" => todo = <<>>
        BY <2>2, <3>3
      <4> QED BY <4>1, <4>2, <4>3 DEF Follows
    <3> QED BY <3>2, <3>3
  <2> QED BY <2>2 DEF FollowOK
<1> QED BY <1>6, <1>7, <1>8, <1>9 DEF IInv

LEMMA NotifyOK == ASSUME IInv, NEW t \in Threads, Notify(t) PROVE IInv'
<1>1. PICK c : c = at[t] OBVIOUS
<1>2. Changes(t) /\ c.pc = "notify" /\ c.todo # <<>> BY <1>1 DEF Notify, Changes
<1>3. /\ c = [pc |-> c.pc, var |-> c.var, val |-> c.val, todo |-> c.todo, rest |-> c.rest]
      /\ IsSeq(c.todo) /\ c.var \in 1..Len(cvars) /\ Range(c.todo) \subseteq DOMAIN told[c.var]
      /\ t \in Changing(c.var)
      /\ c.var \notin mixed => Follows(c.var) /\ Changing(c.var) = {t}
  BY <1>1, <1>2, ChangeKnown
<1>4. PICK todo, first : todo = Tail(c.todo) /\ first = c.todo[1] OBVIOUS
<1>5. IsSeq(todo) /\ first \in Range(c.todo) /\ Range(c.todo) = {first} \cup Range(todo)
  BY <1>2, <1>3, <1>4, TailAny
<1>p. PICK p \in {"notify", "assign"} : p = "notify" OBVIOUS
<1>6. PICK d : d = [pc |-> p, var |-> c.var, val |-> c.val, todo |-> todo, rest |-> c.rest] OBVIOUS
<1>7. DOMAIN at' = Threads /\ at'[t] = d /\ \A u \in Threads : u # t => at'[u] = at[u]
  <2>1. d = [c EXCEPT !.todo = todo] BY <1>p, <1>2, <1>3, <1>6
  <2>2. at' = [at EXCEPT ![t] = d] BY <1>1, <1>4, <2>1 DEF Notify
  <2> QED BY <2>2 DEF IInv, ThreadsOK
<1>8. PICK g, h : g = told[c.var] /\ h = [g EXCEPT ![first] = c.val] OBVIOUS
<1>9. told' = [told EXCEPT ![c.var] = h] BY <1>1, <1>4, <1>8 DEF Notify
<1>10. /\ DOMAIN h = DOMAIN g /\ h[first] = c.val /\ \A x \in DOMAIN g : x # first => h[x] = g[x]
  BY <1>3, <1>5, <1>8
<1>11. IsSeq(told) /\ Len(told) = Len(cvars) BY DEF IInv, VarsOK
<1>12. PICK v \in 1..Len(told) : v = c.var BY <1>3, <1>11
<1>13. /\ IsSeq(told') /\ Len(told') = Len(told) /\ told'[v] = h
       /\ \A w \in 1..Len(told) : w # v => told'[w] = told[w]
  BY <1>9, <1>11, <1>12, ToldReplaced
<1>14. \A w \in 1..Len(cvars) : DOMAIN told'[w] = DOMAIN told[w] /\ (w # c.var => told'[w] = told[w])
  BY <1>8, <1>10, <1>11, <1>12, <1>13
<1>15. c.var \notin mixed => \A cb \in Range(cvars[c.var].m_cbs) : cb \in Range(todo) \/ told'[c.var][cb] = c.val
  <2> SUFFICES ASSUME c.var \notin mixed, NEW cb \in Range(cvars[c.var].m_cbs)
               PROVE  cb \in Range(todo) \/ h[cb] = c.val
    BY <1>12, <1>13
  <2>1. cb \in Range(c.todo) \/ g[cb] = c.val BY <1>1, <1>3, <1>8 DEF Follows
  <2>2. cb \in DOMAIN g BY <1>3, <1>8 DEF IInv, VarsOK
  <2> QED BY <1>5, <1>10, <2>1, <2>2
<1>16. UNCHANGED <<handle, s_datas, mixed, retyped, cvars>> BY DEF Notify
<1>17. IsSeq(todo) /\ Range(todo) \subseteq Range(c.todo) BY <1>5
<1>18. c.var \notin mixed =>
         /\ \A cb \in Range(cvars[c.var].m_cbs) : cb \in Range(todo) \/ told'[c.var][cb] = c.val
         /\ p = "assign" => todo = <<>>
  BY <1>15, <1>p
<1>19. IsSeq(told') /\ Len(told') = Len(told) BY <1>13
<1>20. Changes(t) BY <1>2
<1>21. /\ IsSeq(told') /\ Len(told') = Len(told)
       /\ \A w \in 1..Len(cvars) : DOMAIN told'[w] = DOMAIN told[w] /\ (w # c.var => told'[w] = told[w])
  BY <1>14, <1>19
<1> QED BY <1>1, <1>20, <1>6, <1>7, <1>16, <1>17, <1>18, <1>21, ChangeGoesOn

LEMMA UnlockOK == ASSUME IInv, NEW t \in Threads, Unlock(t) PROVE IInv'
<1>1. PICK c : c = at[t] OBVIOUS
<1>2. Changes(t) /\ c.pc = "notify" /\ c.todo = <<>> BY <1>1 DEF Unlock, Changes
<1>3. /\ c = [pc |-> c.pc, var |-> c.var, val |-> c.val, todo |-> c.todo, rest |-> c.rest]
      /\ IsSeq(c.todo) /\ c.var \in 1..Len(cvars) /\ Range(c.todo) \subseteq DOMAIN told[c.var]
      /\ t \in Changing(c.var)
      /\ c.var \notin mixed => Follows(c.var) /\ Changing(c.var) = {t}
  BY <1>1, <1>2, ChangeKnown
<1>p. PICK p \in {"notify", "assign"} : p = "assign" OBVIOUS
<1>4. PICK todo : todo = c.todo OBVIOUS
<1>5. PICK d : d = [pc |-> p, var |-> c.var, val |-> c.val, todo |-> todo, rest |-> c.rest] OBVIOUS
<1>6. DOMAIN at' = Threads /\ at'[t] = d /\ \A u \in Threads : u # t => at'[u] = at[u]
  <2>1. d = [c EXCEPT !.pc = "assign"] BY <1>p, <1>3, <1>4, <1>5
  <2>2. at' = [at EXCEPT ![t] = d] BY <1>1, <2>1 DEF Unlock
  <2> QED BY <2>2 DEF IInv, ThreadsOK
<1>7. UNCHANGED <<handle, s_datas, mixed, retyped, told, cvars>> BY DEF Unlock
<1>8. c.var \notin mixed =>
        /\ \A cb \in Range(cvars[c.var].m_cbs) : cb \in Range(todo) \/ told'[c.var][cb] = c.val
        /\ p = "assign" => todo = <<>>
  BY <1>1, <1>2, <1>3, <1>4, <1>7, <1>p DEF Follows
<1>9. /\ IsSeq(told') /\ Len(told') = Len(told)
      /\ \A w \in 1..Len(cvars) : DOMAIN told'[w] = DOMAIN told[w] /\ (w # c.var => told'[w] = told[w])
  BY <1>7 DEF IInv, VarsOK
<1>10. IsSeq(todo) /\ Range(todo) \subseteq Range(c.todo) BY <1>3, <1>4
<1> QED BY <1>1, <1>2, <1>5, <1>6, <1>7, <1>8, <1>9, <1>10, ChangeGoesOn

LEMMA AssignOK == ASSUME IInv, NEW t \in Threads, Assign(t) PROVE IInv'
<1>1. PICK c : c = at[t] OBVIOUS
<1>2. Changes(t) /\ c.pc = "assign" BY <1>1 DEF Assign, Changes
<1>3. /\ c.var \in 1..Len(cvars)
      /\ t \in Changing(c.var)
      /\ c.var \notin mixed => Follows(c.var) /\ Changing(c.var) = {t}
  BY <1>1, <1>2, ChangeKnown
<1>4. PICK v \in 1..Len(cvars) : v = c.var BY <1>3
<1>5. PICK q, r : q = cvars[v] /\ r = [q EXCEPT !.m_val = c.val] OBVIOUS
<1>6. VarRec(q) /\ Range(q.m_cbs) \subseteq DOMAIN told[v] BY <1>5 DEF IInv, VarsOK
<1>7. r = [type |-> q.type, m_val |-> c.val, m_cbs |-> q.m_cbs] BY <1>5, <1>6 DEF VarRec
<1>8. r.type = q.type /\ r.m_val = c.val /\ r.m_cbs = q.m_cbs BY <1>7
<1>9. VarRec(r) BY <1>6, <1>7, <1>8 DEF VarRec
<1>10. cvars' = [cvars EXCEPT ![v] = r] BY <1>1, <1>4, <1>5 DEF Assign
<1>11. IsSeq(cvars) BY DEF IInv, VarsOK
<1>12. /\ IsSeq(cvars') /\ Len(cvars') = Len(cvars) /\ cvars'[v] = r
       /\ \A w \in 1..Len(cvars) : w # v => cvars'[w] = cvars[w]
  BY <1>10, <1>11, VariableReplaced
<1>13. UNCHANGED <<handle, s_datas, mixed, retyped, told>> BY DEF Assign
<1>14. PICK d : d = Rest(c.rest) OBVIOUS
<1>15. DOMAIN at' = Threads /\ at'[t] = d /\ \A u \in Threads : u # t => at'[u] = at[u]
  BY <1>1, <1>14 DEF Assign, IInv, ThreadsOK
<1>16. d.pc \notin {"notify", "assign"} BY <1>14, RestQuiet
<1>17. VarsOK'
  <2>1. PICK g : g = told[v] OBVIOUS
  <2>2. /\ IsSeq(told') /\ Len(told') = Len(told) /\ told'[v] = g
        /\ \A w \in 1..Len(cvars) : w # v => cvars'[w] = cvars[w] /\ told'[w] = told[w]
    BY <1>12, <1>13, <2>1 DEF IInv, VarsOK
  <2>3. Range(r.m_cbs) \subseteq DOMAIN g BY <1>6, <1>8, <2>1
  <2> QED BY <1>9, <1>12, <2>2, <2>3, OneVariable DEF IInv
<1>18. ThreadsOK'
  <2>1. \A u \in Threads : Changes(u)' => u # t /\ Changes(u) /\ at'[u] = at[u] BY <1>15, <1>16 DEF Changes
  <2>2. told' = told /\ Len(cvars') = Len(cvars) BY <1>12, <1>13
  <2> QED BY <1>15, <2>1, <2>2 DEF IInv, ThreadsOK
<1>19. NamesOK' /\ HandlesOK' BY <1>12, <1>13, NamesSame DEF IInv
<1>20. FollowOK'
  <2>1. \A w : Changing(w)' = Changing(w) \ {t}
    <3> SUFFICES ASSUME NEW w PROVE Changing(w)' = Changing(w) \ {t} OBVIOUS
    <3>1. ASSUME NEW u \in Threads PROVE u \in Changing(w)' <=> u \in Changing(w) \ {t}
      <4>1. CASE u = t BY <1>15, <1>16, <4>1 DEF Changing
      <4>2. CASE u # t BY <1>15, <4>2 DEF Changing
      <4> QED BY <4>1, <4>2
    <3> QED BY <3>1 DEF Changing
  <2>2. ASSUME NEW w \in 1..Len(cvars), w \notin mixed' PROVE Follows(w)'
    <3>1. Follows(w) BY <1>13, <2>2 DEF IInv, FollowOK
    <3>2. CASE w # v
      <4>1. t \notin Changing(w) BY <1>1, <1>4, <3>2 DEF Changing
      <4>2. \A u \in Changing(w) : at'[u] = at[u] BY <1>15, <4>1 DEF Changing
      <4>3. Changing(w)' = Changing(w) BY <2>1, <4>1
      <4> QED BY <1>12, <1>13, <3>1, <3>2, <4>2, <4>3 DEF Follows
    <3>3. CASE w = v
      <4>1. Changing(v) = {t} /\ Follows(v) BY <1>3, <1>4, <1>13, <2>2, <3>3
      <4>2. Changing(v)' = {} BY <2>1, <4>1
      <4>3. c.todo = <<>> BY <1>1, <1>2, <4>1 DEF Follows
      <4>4. Range(c.todo) = {} BY <4>3, NoElements
      <4>5. \A cb \in Range(q.m_cbs) : told[v][cb] = c.val BY <1>1, <1>5, <4>1, <4>4 DEF Follows
      <4>6. \A cb \in Range(cvars'[v].m_cbs) : told'[v][cb] = cvars'[v].m_val BY <1>8, <1>12, <1>13, <4>5
      <4> QED BY <3>3, <4>2, <4>6 DEF Follows
    <3> QED BY <3>2, <3>3
  <2> QED BY <1>12, <2>2 DEF FollowOK
<1> QED BY <1>17, <1>18, <1>19, <1>20 DEF IInv

-----------------------------------------------------------------------------
LEMMA NextInv == ASSUME IInv, [ConfigNext]_configVars PROVE IInv'
<1>1. CASE UNCHANGED configVars
  <2>1. UNCHANGED <<at, handle, s_datas, cvars, told, mixed, retyped>> BY <1>1 DEF configVars, threads
  <2>2. VarsOK' /\ ThreadsOK' /\ FollowOK' BY <2>1, RegistrySame DEF IInv
  <2>3. NamesOK' /\ HandlesOK' BY <2>1, NamesSame DEF IInv
  <2> QED BY <2>2, <2>3 DEF IInv
<1>2. ASSUME NEW t \in Threads, ConfigStep(t) PROVE IInv'
  BY <1>2, LookupOK, FindOK, AddListenerOK, DelListenerOK, ClearListenerOK, SetValueOK, UnlockOK,
     AssignOK, LoadFromYamlOK, LoadNextOK DEF ConfigStep
<1>3. ASSUME NEW t \in Threads, Notify(t) \/ Elsewhere(t) PROVE IInv'
  BY <1>3, NotifyOK, ElsewhereOK
<1> QED BY <1>1, <1>2, <1>3 DEF ConfigNext

LEMMA ConfigInv == ConfigSpec => []IInv
<1>1. ConfigInit => IInv BY InitInv
<1>2. IInv /\ [ConfigNext]_configVars => IInv' BY NextInv
<1> QED BY <1>1, <1>2, PTL DEF ConfigSpec

\* setValue notifies under one lock and assigns under another; still, for any
\* threads, listeners and documents, a change that met no other call on its
\* variable leaves every listener with the value that was assigned.
THEOREM ConfigListenersFollow == ConfigSpec => []ListenersFollow
<1>1. IInv => ListenersFollow
  <2> SUFFICES ASSUME IInv, NEW v \in DOMAIN cvars, v \notin mixed, Changing(v) = {}
               PROVE  \A cb \in Range(cvars[v].m_cbs) : told[v][cb] = cvars[v].m_val
    BY DEF ListenersFollow
  <2>1. v \in 1..Len(cvars) BY SeqDomain DEF IInv, VarsOK
  <2> QED BY <2>1 DEF IInv, FollowOK, Follows
<1> QED BY <1>1, ConfigInv, PTL

\* Whoever has looked a name up holds the variable that loads and all others
\* change, for any threads and names, until the name is looked up with another
\* type (Config::Lookup replaces the variable then).
THEOREM ConfigHandlesAgree == ConfigSpec => []HandlesAgree
<1>1. IInv => HandlesAgree BY DEF IInv, HandlesOK, HandlesAgree
<1> QED BY <1>1, ConfigInv, PTL

-----------------------------------------------------------------------------
(* What a load has done so far.                                              *)

\* One of the first k members of a document gives the variable of the i-th another
\* value; the first k members are in effect.
Overruled(ms, i, k) == \E j \in i + 1..k : Known(ms, j) /\ ms[j].name = ms[i].name /\ Converts(Given(ms, j))
InEffect(ms, k) ==
  \A i \in 1..k : Known(ms, i) /\ Converts(Given(ms, i)) =>
    Overruled(ms, i, k) \/ cvars[s_datas[ms[i].name]].m_val = Given(ms, i).val

\* The call a thread is in or has ended is a load, and nobody else made a call.
LoadsAlone(t) ==
  /\ called[t] > 0 /\ program[t][called[t]].op = "LoadFromYaml"
  /\ \A u \in Threads \ {t} : called[u] = 0
Doc(t) == Members(<<>>, program[t][called[t]].root)

\* `rest` is what follows the first k members.
Left(ms, k, rest) ==
  /\ IsSeq(rest) /\ k \in 0..Len(ms) /\ Len(rest) = Len(ms) - k
  /\ \A j \in 1..Len(rest) : rest[j] = ms[k + j]

\* Between two members the first k are in effect; in setValue the first k - 1 are,
\* and the k-th is the change; at the end all are, or one threw.
LoadBetween(t, ms) ==
  at[t].pc = "load" /\ threw[t] = FALSE
  /\ \E k \in 0..Len(ms) : Left(ms, k, at[t].rest) /\ at[t].rest # <<>> /\ InEffect(ms, k)
LoadSets(t, ms) ==
  at[t].pc \in {"notify", "assign"} /\ threw[t] = FALSE
  /\ \E k \in 1..Len(ms) :
       /\ Left(ms, k, at[t].rest) /\ InEffect(ms, k - 1)
       /\ Known(ms, k) /\ Converts(Given(ms, k))
       /\ at[t].var = s_datas[ms[k].name] /\ at[t].val = Given(ms, k).val
LoadEnds(t, ms) ==
  /\ at[t] = Idle
  /\ \/ threw[t] = TRUE /\ \E i \in 1..Len(ms) : Known(ms, i) /\ Given(ms, i) = THROWN
     \/ threw[t] = FALSE /\ InEffect(ms, Len(ms))

LoadOK ==
  \A t \in Threads : LoadsAlone(t) =>
    LoadBetween(t, Doc(t)) \/ LoadSets(t, Doc(t)) \/ LoadEnds(t, Doc(t))

CallsOK ==
  /\ program \in Programs /\ DOMAIN called = Threads /\ DOMAIN threw = Threads
  /\ \A t \in Threads : called[t] \in 0..Len(program[t]) /\ (called[t] = 0 => at[t] = Idle)

\* No two names have the same variable.
DatasOK == \A x, y \in DOMAIN s_datas : s_datas[x] = s_datas[y] => x = y

LInv == CallsOK /\ DatasOK /\ LoadOK

AnyStep(t) == ConfigStep(t) \/ Notify(t) \/ Elsewhere(t)

LEMMA ProgramsSeq ==
  ASSUME CallsOK, NEW t \in Threads
  PROVE  Len(program[t]) \in Nat /\ DOMAIN program[t] = 1..Len(program[t]) /\ called[t] \in Nat
<1>1. program[t] \in Seq(Range(program[t])) BY ProgramsAssumption DEF CallsOK
<1> QED BY <1>1 DEF CallsOK

\* A step of a thread is a call, or it is inside one.
LEMMA StepShape ==
  ASSUME IInv, CallsOK, NEW t \in Threads, AnyStep(t)
  PROVE  /\ program' = program /\ DOMAIN threw' = Threads
         /\ \A u \in Threads : u # t => at'[u] = at[u] /\ called'[u] = called[u]
         /\ \/ called' = called /\ at[t].pc # "idle" /\ called[t] > 0
            \/ /\ at[t] = Idle /\ called[t] < Len(program[t]) /\ called'[t] = called[t] + 1
               /\ DOMAIN called' = Threads
<1>1. DOMAIN at = Threads /\ DOMAIN threw = Threads /\ DOMAIN called = Threads BY DEF IInv, ThreadsOK, CallsOK
<1>2. program' = program BY DEF AnyStep, ConfigStep, Lookup, Find, AddListener, DelListener, ClearListener, Locked,
        SetValue, Unlock, Assign, LoadFromYaml, LoadNext, Notify, Elsewhere
<1>3. DOMAIN threw' = Threads
  BY <1>1 DEF AnyStep, ConfigStep, Lookup, Find, AddListener, DelListener, ClearListener, Locked,
        SetValue, Unlock, Assign, LoadFromYaml, LoadNext, Compare, Notify, Elsewhere
<1>4. \A u \in Threads : u # t => at'[u] = at[u]
  BY <1>1 DEF AnyStep, ConfigStep, Lookup, Find, AddListener, DelListener, ClearListener, Locked,
        SetValue, Unlock, Assign, LoadFromYaml, LoadNext, Compare, Notify, Elsewhere
<1>5. \/ called' = called /\ at[t].pc # "idle"
      \/ \E op : Call(t, op)
  <2>1. CASE Lookup(t) \/ Find(t) \/ SetValue(t) \/ LoadFromYaml(t) \/ Elsewhere(t)
    BY <2>1 DEF Lookup, Find, SetValue, LoadFromYaml, Elsewhere
  <2>2. CASE AddListener(t) \/ DelListener(t) \/ ClearListener(t)
    BY <2>2 DEF AddListener, DelListener, ClearListener, Locked
  <2>3. CASE Unlock(t) \/ Assign(t) \/ LoadNext(t) \/ Notify(t)
    BY <2>3 DEF Unlock, Assign, LoadNext, Notify
  <2> QED BY <2>1, <2>2, <2>3 DEF AnyStep, ConfigStep
<1>6. CASE called' = called /\ at[t].pc # "idle"
  <2>1. at[t] # Idle BY <1>6 DEF Idle
  <2>2. called[t] > 0 BY <2>1, ProgramsSeq DEF CallsOK
  <2> QED BY <1>2, <1>3, <1>4, <1>6, <2>2
<1>7. CASE \E op : Call(t, op) BY <1>1, <1>2, <1>3, <1>4, <1>7 DEF Call
<1> QED BY <1>5, <1>6, <1>7

LEMMA CallsStep == ASSUME IInv, CallsOK, NEW t \in Threads, AnyStep(t) PROVE CallsOK'
<1>1. /\ program' = program /\ DOMAIN threw' = Threads
      /\ \A u \in Threads : u # t => at'[u] = at[u] /\ called'[u] = called[u]
      /\ \/ called' = called /\ at[t].pc # "idle" /\ called[t] > 0
         \/ /\ at[t] = Idle /\ called[t] < Len(program[t]) /\ called'[t] = called[t] + 1
            /\ DOMAIN called' = Threads
  BY StepShape
<1>2. DOMAIN called' = Threads BY <1>1 DEF CallsOK
<1>3. called'[t] \in 0..Len(program[t]) /\ called'[t] # 0 BY <1>1, ProgramsSeq DEF CallsOK
<1> QED BY <1>1, <1>2, <1>3 DEF CallsOK

LEMMA DatasStep == ASSUME IInv, DatasOK, NEW t \in Threads, AnyStep(t) PROVE DatasOK'
<1>1. CASE s_datas' = s_datas BY <1>1 DEF DatasOK
<1>2. CASE s_datas' # s_datas
  <2>1. Lookup(t) BY <1>2 DEF AnyStep, ConfigStep, Find, AddListener, DelListener, ClearListener, Locked,
        SetValue, Unlock, Assign, LoadFromYaml, LoadNext, Notify, Elsewhere
  <2>2. PICK name, val : /\ s_datas' = Set1(s_datas, name, Len(cvars'))
                         /\ cvars' = Append(cvars, val)
    BY <1>2, <2>1 DEF Lookup
  <2>3. Len(cvars') = Len(cvars) + 1 /\ Len(cvars) \in Nat
    BY <2>2, AppendAny, SeqDomain DEF IInv, VarsOK
  <2>4. \A x \in DOMAIN s_datas' :
          \/ x = name /\ s_datas'[x] = Len(cvars) + 1
          \/ x # name /\ x \in DOMAIN s_datas /\ s_datas'[x] = s_datas[x]
    BY <2>2, <2>3 DEF Set1
  <2>5. \A x \in DOMAIN s_datas : s_datas[x] \in 1..Len(cvars) BY DEF IInv, NamesOK
  <2>6. \A x \in DOMAIN s_datas : s_datas[x] # Len(cvars) + 1 BY <2>3, <2>5
  <2> QED BY <2>4, <2>6 DEF DatasOK
<1> QED BY <1>1, <1>2

LEMMA MineOnly ==
  ASSUME IInv, CallsOK, NEW u \in Threads, AnyStep(u), NEW t \in Threads, LoadsAlone(t)'
  PROVE  u = t
<1> SUFFICES ASSUME u # t PROVE FALSE OBVIOUS
<1>1. called'[u] = 0 BY DEF LoadsAlone
<1>2. (called' = called /\ called[u] > 0) \/ called'[u] = called[u] + 1 BY StepShape
<1> QED BY <1>1, <1>2, ProgramsSeq

LEMMA DocSeq ==
  ASSUME CallsOK, NEW t \in Threads, LoadsAlone(t)
  PROVE  IsSeq(Doc(t)) /\ Len(Doc(t)) \in Nat /\ DOMAIN Doc(t) = 1..Len(Doc(t))
<1>1. called[t] \in DOMAIN program[t] BY ProgramsSeq DEF CallsOK, LoadsAlone
<1>2. Doc(t) \in Seq(Range(Doc(t))) BY <1>1, ProgramsAssumption DEF CallsOK, LoadsAlone, Doc
<1>3. IsSeq(Doc(t)) BY <1>2 DEF IsSeq
<1> QED BY <1>3, SeqDomain

LEMMA LeftTail ==
  ASSUME NEW ms, IsSeq(ms), NEW k \in Nat, NEW rest, Left(ms, k, rest), rest # <<>>
  PROVE  k + 1 \in 1..Len(ms) /\ rest[1] = ms[k + 1] /\ Left(ms, k + 1, Tail(rest))
<1>1. PICK S : rest \in Seq(S) BY DEF Left, IsSeq
<1>2. PICK n \in Nat : n = Len(rest) /\ n > 0 BY <1>1
<1>3. Tail(rest) \in Seq(S) /\ Len(Tail(rest)) = n - 1 /\ \A i \in 1..n - 1 : Tail(rest)[i] = rest[i + 1]
  BY <1>1, <1>2
<1>4. IsSeq(Tail(rest)) BY <1>3 DEF IsSeq
<1>5. PICK m \in Nat : m = Len(ms) BY SeqDomain
<1>6. k \in 0..m /\ n = m - k /\ \A j \in 1..n : rest[j] = ms[k + j] BY <1>2, <1>5 DEF Left
<1>7. k + 1 \in 1..m /\ k + 1 \in 0..m /\ n - 1 = m - (k + 1) BY <1>2, <1>6
<1>8. rest[1] = ms[k + 1] BY <1>2, <1>6
<1>9. ASSUME NEW j \in 1..n - 1 PROVE Tail(rest)[j] = ms[(k + 1) + j]
  <2>1. j + 1 \in 1..n /\ k + (j + 1) = (k + 1) + j BY <1>2
  <2> QED BY <1>3, <1>6, <2>1
<1> QED BY <1>3, <1>4, <1>5, <1>7, <1>8, <1>9 DEF Left

\* One more member has taken its effect, or has none.
LEMMA EffectGrows ==
  ASSUME NEW ms, NEW k \in Nat, InEffect(ms, k),
         \/ ~Known(ms, k + 1) \/ ~Converts(Given(ms, k + 1))
         \/ cvars[s_datas[ms[k + 1].name]].m_val = Given(ms, k + 1).val
  PROVE  InEffect(ms, k + 1)
<1> SUFFICES ASSUME NEW i \in 1..k + 1, Known(ms, i), Converts(Given(ms, i))
             PROVE  Overruled(ms, i, k + 1) \/ cvars[s_datas[ms[i].name]].m_val = Given(ms, i).val
  BY DEF InEffect
<1>1. CASE i = k + 1 BY <1>1
<1>2. CASE i # k + 1
  <2>1. i \in 1..k BY <1>2
  <2>2. Overruled(ms, i, k) \/ cvars[s_datas[ms[i].name]].m_val = Given(ms, i).val BY <2>1 DEF InEffect
  <2>3. \A j \in i + 1..k : j \in i + 1..k + 1 OBVIOUS
  <2> QED BY <2>2, <2>3 DEF Overruled
<1> QED BY <1>1, <1>2

LEMMA EffectSame ==
  ASSUME UNCHANGED <<s_datas, cvars>>, NEW ms
  PROVE  \A k : /\ InEffect(ms, k)' <=> InEffect(ms, k)
                /\ Known(ms, k)' <=> Known(ms, k)
                /\ Given(ms, k)' = Given(ms, k)
<1>1. \A k : (Known(ms, k)' <=> Known(ms, k)) /\ Given(ms, k)' = Given(ms, k) BY DEF Known, Given
<1>2. \A i, k : Overruled(ms, i, k)' <=> Overruled(ms, i, k) BY <1>1 DEF Overruled
<1>3. \A k : InEffect(ms, k)' <=> InEffect(ms, k) BY <1>1, <1>2 DEF InEffect
<1> QED BY <1>1, <1>3

\* The load goes on with what is left, or ends.
LEMMA LoadGoesOn ==
  ASSUME NEW t \in Threads, NEW ms, IsSeq(ms), NEW k \in Nat, NEW rest, Left(ms, k, rest), InEffect(ms, k)',
         at'[t] = Rest(rest), threw'[t] = FALSE
  PROVE  LoadBetween(t, ms)' \/ LoadEnds(t, ms)'
<1>1. CASE rest = <<>>
  <2>1. at'[t] = Idle BY <1>1 DEF Rest
  <2>2. k = Len(ms)
    <3>1. Len(rest) = 0 BY <1>1, NoElements
    <3>2. Len(ms) \in Nat BY SeqDomain
    <3> QED BY <3>1, <3>2 DEF Left
  <2> QED BY <2>1, <2>2 DEF LoadEnds
<1>2. CASE rest # <<>>
  <2>1. PICK r : r = at'[t] OBVIOUS
  <2>2. r.pc = "load" /\ r.rest = rest BY <1>2, <2>1 DEF Rest
  <2>3. k \in 0..Len(ms) BY DEF Left
  <2>4. Left(ms, k, rest)' <=> Left(ms, k, rest) BY DEF Left
  <2> QED BY <1>2, <2>1, <2>2, <2>3, <2>4 DEF LoadBetween
<1> QED BY <1>1, <1>2

LEMMA LoadBegins ==
  ASSUME IInv, CallsOK, NEW t \in Threads, AnyStep(t), LoadsAlone(t)', at[t] = Idle, called'[t] = called[t] + 1
  PROVE  LoadBetween(t, Doc(t))' \/ LoadEnds(t, Doc(t))'
<1>1. program' = program BY StepShape
<1>2. Args(t).op = "LoadFromYaml" BY <1>1 DEF LoadsAlone, Args
<1>3. LoadFromYaml(t)
  <2>1. at[t].pc = "idle" BY DEF Idle
  <2> QED BY <1>2, <2>1 DEF AnyStep, ConfigStep, Lookup, Find, AddListener, DelListener, ClearListener, Locked,
        SetValue, Unlock, Assign, LoadFromYaml, LoadNext, Notify, Elsewhere, Call, ConfigCalls
<1>4. PICK ms : ms = Doc(t)' OBVIOUS
<1>5. ms = Members(<<>>, Args(t).root) BY <1>1, <1>4 DEF Doc, Args
<1>6. IsSeq(ms) /\ Len(ms) \in Nat
  <2>1. called[t] + 1 \in DOMAIN program[t] BY <1>3, ProgramsSeq DEF LoadFromYaml, Call
  <2>2. ms \in Seq(Range(ms)) BY <1>2, <1>5, <2>1, ProgramsAssumption DEF CallsOK, Args
  <2>3. IsSeq(ms) BY <2>2 DEF IsSeq
  <2> QED BY <2>3, SeqDomain
<1>7. DOMAIN at = Threads /\ DOMAIN threw = Threads BY DEF IInv, ThreadsOK, CallsOK
<1>8. at'[t] = Rest(ms) /\ threw'[t] = FALSE BY <1>3, <1>5, <1>7 DEF LoadFromYaml
<1>9. Left(ms, 0, ms) BY <1>6 DEF Left
<1>10. InEffect(ms, 0)' BY DEF InEffect
<1>11. LoadBetween(t, ms)' \/ LoadEnds(t, ms)' BY <1>6, <1>8, <1>9, <1>10, LoadGoesOn
<1> QED BY <1>4, <1>11

LEMMA LoadNextGoesOn ==
  ASSUME IInv, CallsOK, NEW t \in Threads, NEW ms, IsSeq(ms), LoadBetween(t, ms), LoadNext(t)
  PROVE  LoadBetween(t, ms)' \/ LoadSets(t, ms)' \/ LoadEnds(t, ms)'
<1>1. PICK c : c = at[t] OBVIOUS
<1>2. PICK k \in 0..Len(ms) : Left(ms, k, c.rest) /\ c.rest # <<>> /\ InEffect(ms, k) /\ threw[t] = FALSE
  BY <1>1 DEF LoadBetween
<1>3. k \in Nat /\ k + 1 \in Nat /\ Len(ms) \in Nat /\ (k + 1) - 1 = k BY SeqDomain
<1>4. PICK next, rest : next = c.rest[1] /\ rest = Tail(c.rest) OBVIOUS
<1>5. k + 1 \in 1..Len(ms) /\ next = ms[k + 1] /\ Left(ms, k + 1, rest) BY <1>2, <1>3, <1>4, LeftTail
<1>6. UNCHANGED <<s_datas, cvars>> BY DEF LoadNext
<1>7. DOMAIN at = Threads /\ DOMAIN threw = Threads BY DEF IInv, ThreadsOK, CallsOK
<1>8. \A i : /\ InEffect(ms, i)' <=> InEffect(ms, i)
             /\ Known(ms, i)' <=> Known(ms, i)
             /\ Given(ms, i)' = Given(ms, i)
  BY <1>6, EffectSame
<1>9. ASSUME InEffect(ms, k + 1), at'[t] = Rest(rest), threw'[t] = FALSE
      PROVE  LoadBetween(t, ms)' \/ LoadEnds(t, ms)'
  BY <1>3, <1>5, <1>8, <1>9, LoadGoesOn
<1>10. CASE ~Known(ms, k + 1)
  <2>1. next.name = <<>> \/ next.name \notin DOMAIN s_datas BY <1>5, <1>10 DEF Known
  <2>2. at' = [at EXCEPT ![t] = Rest(rest)] /\ threw' = threw BY <1>1, <1>4, <2>1 DEF LoadNext
  <2>3. at'[t] = Rest(rest) /\ threw'[t] = FALSE BY <1>2, <1>7, <2>2
  <2>4. InEffect(ms, k + 1) BY <1>2, <1>3, <1>10, EffectGrows
  <2> QED BY <1>9, <2>3, <2>4
<1>11. CASE Known(ms, k + 1)
  <2>1. ~(next.name = <<>> \/ next.name \notin DOMAIN s_datas) BY <1>5, <1>11 DEF Known
  <2>2. PICK v, cast : v = s_datas[next.name] /\ cast = Cast(cvars[v].type, next.node) OBVIOUS
  <2>3. cast = Given(ms, k + 1) /\ v = s_datas[ms[k + 1].name] BY <1>5, <2>2 DEF Given
  <2>4. CASE cast = BAD
    <3>1. cast # THROWN BY <2>4 DEF BAD, THROWN
    <3>2. at' = [at EXCEPT ![t] = Rest(rest)] /\ threw' = threw
      BY <1>1, <1>4, <2>1, <2>2, <2>4, <3>1 DEF LoadNext
    <3>3. at'[t] = Rest(rest) /\ threw'[t] = FALSE BY <1>2, <1>7, <3>2
    <3>4. InEffect(ms, k + 1) BY <1>2, <1>3, <2>3, <2>4, EffectGrows DEF Converts
    <3> QED BY <1>9, <3>3, <3>4
  <2>5. CASE cast = THROWN
    <3>1. cast # BAD BY <2>5 DEF BAD, THROWN
    <3>2. at' = [at EXCEPT ![t] = Idle] /\ threw' = [threw EXCEPT ![t] = TRUE]
      BY <1>1, <1>4, <2>1, <2>2, <2>5, <3>1 DEF LoadNext
    <3>3. at'[t] = Idle /\ threw'[t] = TRUE BY <1>7, <3>2
    <3>4. Known(ms, k + 1)' /\ Given(ms, k + 1)' = THROWN BY <1>8, <1>11, <2>3, <2>5
    <3> QED BY <1>5, <3>3, <3>4 DEF LoadEnds
  <2>6. CASE cast # BAD /\ cast # THROWN
    <3>1. Compare(t, v, cast.val, rest) /\ threw' = threw
      BY <1>1, <1>4, <2>1, <2>2, <2>6 DEF LoadNext
    <3>2. Converts(Given(ms, k + 1)) BY <2>3, <2>6 DEF Converts
    <3>3. threw'[t] = FALSE BY <1>2, <3>1
    <3>4. CASE cvars[v].m_val = cast.val
      <4>1. at' = [at EXCEPT ![t] = Rest(rest)] BY <3>1, <3>4 DEF Compare
      <4>2. at'[t] = Rest(rest) BY <1>7, <4>1
      <4>3. InEffect(ms, k + 1) BY <1>2, <1>3, <2>3, <3>4, EffectGrows
      <4> QED BY <1>9, <3>3, <4>2, <4>3
    <3>5. CASE cvars[v].m_val # cast.val
      <4>1. PICK r : r = [pc |-> "notify", var |-> v, val |-> cast.val, todo |-> cvars[v].m_cbs, rest |-> rest] OBVIOUS
      <4>2. at' = [at EXCEPT ![t] = r] BY <3>1, <3>5, <4>1 DEF Compare
      <4>3. at'[t] = r BY <1>7, <4>2
      <4>4. r.pc = "notify" /\ r.var = v /\ r.val = cast.val /\ r.rest = rest BY <4>1
      <4>5. InEffect(ms, (k + 1) - 1)' /\ Known(ms, k + 1)' /\ Converts(Given(ms, k + 1)')
        BY <1>2, <1>3, <1>8, <1>11, <3>2
      <4>6. v = s_datas'[ms[k + 1].name] /\ cast.val = Given(ms, k + 1)'.val BY <1>6, <1>8, <2>3
      <4>7. /\ Left(ms, k + 1, at'[t].rest) /\ InEffect(ms, (k + 1) - 1)'
            /\ Known(ms, k + 1)' /\ Converts(Given(ms, k + 1)')
            /\ at'[t].var = s_datas'[ms[k + 1].name] /\ at'[t].val = Given(ms, k + 1)'.val
        BY <1>5, <4>3, <4>4, <4>5, <4>6
      <4>8. at'[t].pc \in {"notify", "assign"} BY <4>3, <4>4
      <4> QED BY <1>5, <3>3, <4>7, <4>8 DEF LoadSets
    <3> QED BY <3>4, <3>5
  <2> QED BY <2>4, <2>5, <2>6
<1> QED BY <1>10, <1>11

LEMMA LoadTells ==
  ASSUME IInv, NEW t \in Threads, NEW ms, LoadSets(t, ms), Notify(t) \/ Unlock(t)
  PROVE  LoadSets(t, ms)'
<1>1. DOMAIN at = Threads /\ UNCHANGED <<s_datas, cvars, threw>> BY DEF IInv, ThreadsOK, Notify, Unlock
<1>2. PICK c, d : c = at[t] /\ d = at'[t] OBVIOUS
<1>3. c = [pc |-> c.pc, var |-> c.var, val |-> c.val, todo |-> c.todo, rest |-> c.rest]
  BY <1>2 DEF IInv, ThreadsOK, LoadSets, Changes, ChangeRec
<1>4. d = [c EXCEPT !.todo = Tail(@)] \/ d = [c EXCEPT !.pc = "assign"]
  BY <1>1, <1>2 DEF Notify, Unlock
<1>5. d.pc \in {"notify", "assign"} /\ d.var = c.var /\ d.val = c.val /\ d.rest = c.rest
  BY <1>2, <1>3, <1>4 DEF LoadSets
<1>6. \A i : /\ InEffect(ms, i)' <=> InEffect(ms, i)
             /\ Known(ms, i)' <=> Known(ms, i)
             /\ Given(ms, i)' = Given(ms, i)
  BY <1>1, EffectSame
<1>7. PICK k \in 1..Len(ms) :
       /\ Left(ms, k, c.rest) /\ InEffect(ms, k - 1)
       /\ Known(ms, k) /\ Converts(Given(ms, k))
       /\ c.var = s_datas[ms[k].name] /\ c.val = Given(ms, k).val /\ threw[t] = FALSE
  BY <1>2 DEF LoadSets
<1>8. /\ Left(ms, k, at'[t].rest) /\ InEffect(ms, k - 1)'
      /\ Known(ms, k)' /\ Converts(Given(ms, k)')
      /\ at'[t].var = s_datas'[ms[k].name] /\ at'[t].val = Given(ms, k)'.val
  BY <1>1, <1>2, <1>5, <1>6, <1>7
<1>9. at'[t].pc \in {"notify", "assign"} /\ threw'[t] = FALSE BY <1>1, <1>2, <1>5, <1>7
<1> QED BY <1>8, <1>9 DEF LoadSets

LEMMA LoadAssigns ==
  ASSUME IInv, DatasOK, NEW t \in Threads, NEW ms, IsSeq(ms), LoadSets(t, ms), Assign(t)
  PROVE  LoadBetween(t, ms)' \/ LoadEnds(t, ms)'
<1>1. PICK c : c = at[t] OBVIOUS
<1>2. PICK k \in 1..Len(ms) :
       /\ Left(ms, k, c.rest) /\ InEffect(ms, k - 1)
       /\ Known(ms, k) /\ Converts(Given(ms, k))
       /\ c.var = s_datas[ms[k].name] /\ c.val = Given(ms, k).val /\ threw[t] = FALSE
  BY <1>1 DEF LoadSets
<1>3. Len(ms) \in Nat /\ k \in Nat BY SeqDomain
<1>4. PICK v \in 1..Len(cvars) : v = c.var BY <1>2 DEF Known, IInv, NamesOK
<1>5. PICK q, r : q = cvars[v] /\ r = [q EXCEPT !.m_val = c.val] OBVIOUS
<1>6. VarRec(q) BY <1>5 DEF IInv, VarsOK
<1>7. r = [type |-> q.type, m_val |-> c.val, m_cbs |-> q.m_cbs] BY <1>5, <1>6 DEF VarRec
<1>8. r.type = q.type /\ r.m_val = c.val BY <1>7
<1>9. cvars' = [cvars EXCEPT ![v] = r] BY <1>1, <1>4, <1>5 DEF Assign
<1>10. IsSeq(cvars) BY DEF IInv, VarsOK
<1>11. cvars'[v] = r /\ \A w \in 1..Len(cvars) : w # v => cvars'[w] = cvars[w]
  BY <1>9, <1>10, VariableReplaced
<1>12. UNCHANGED <<s_datas, threw>> /\ DOMAIN at = Threads BY DEF Assign, IInv, ThreadsOK
<1>13. at'[t] = Rest(c.rest) /\ threw'[t] = FALSE BY <1>1, <1>2, <1>12 DEF Assign
<1>14. \A w \in 1..Len(cvars) : cvars'[w].type = cvars[w].type BY <1>5, <1>8, <1>11
<1>15. \A i : Known(ms, i)' <=> Known(ms, i) BY <1>12 DEF Known
<1>16. \A i : Known(ms, i) => s_datas[ms[i].name] \in 1..Len(cvars) BY DEF Known, IInv, NamesOK
<1>17. \A i : Known(ms, i) => Given(ms, i)' = Given(ms, i)
  <2> SUFFICES ASSUME NEW i, Known(ms, i) PROVE Given(ms, i)' = Given(ms, i) OBVIOUS
  <2>1. cvars'[s_datas[ms[i].name]].type = cvars[s_datas[ms[i].name]].type BY <1>14, <1>16
  <2> QED BY <1>12, <2>1 DEF Given
<1>18. InEffect(ms, k)'
  <2> SUFFICES ASSUME NEW i \in 1..k, Known(ms, i)', Converts(Given(ms, i)')
               PROVE  \/ \E j \in i + 1..k : Known(ms, j)' /\ ms[j].name = ms[i].name /\ Converts(Given(ms, j)')
                      \/ cvars'[s_datas'[ms[i].name]].m_val = Given(ms, i)'.val
    BY DEF InEffect, Overruled
  <2>1. Known(ms, i) /\ Converts(Given(ms, i)) /\ Given(ms, i)' = Given(ms, i) BY <1>15, <1>17
  <2>2. Known(ms, k)' /\ Converts(Given(ms, k)') BY <1>2, <1>15, <1>17
  <2>3. CASE i = k
    <3>1. cvars'[s_datas'[ms[i].name]].m_val = c.val BY <1>2, <1>4, <1>8, <1>11, <1>12, <2>3
    <3> QED BY <1>2, <2>1, <2>3, <3>1
  <2>4. CASE i # k /\ s_datas[ms[i].name] = v
    <3>1. ms[i].name = ms[k].name BY <1>2, <1>4, <2>1, <2>4 DEF DatasOK, Known
    <3>2. k \in i + 1..k BY <1>3, <2>4
    <3> QED BY <2>2, <3>1, <3>2
  <2>5. CASE i # k /\ s_datas[ms[i].name] # v
    <3>1. i \in 1..k - 1 BY <1>3, <2>5
    <3>2. Overruled(ms, i, k - 1) \/ cvars[s_datas[ms[i].name]].m_val = Given(ms, i).val
      BY <1>2, <2>1, <3>1 DEF InEffect
    <3>3. CASE Overruled(ms, i, k - 1)
      <4>1. PICK j \in i + 1..k - 1 : Known(ms, j) /\ ms[j].name = ms[i].name /\ Converts(Given(ms, j))
        BY <3>3 DEF Overruled
      <4>2. j \in i + 1..k BY <1>3
      <4> QED BY <1>15, <1>17, <4>1, <4>2
    <3>4. CASE cvars[s_datas[ms[i].name]].m_val = Given(ms, i).val
      <4>1. cvars'[s_datas[ms[i].name]] = cvars[s_datas[ms[i].name]] BY <1>11, <1>16, <2>1, <2>5
      <4> QED BY <1>12, <2>1, <3>4, <4>1
    <3> QED BY <3>2, <3>3, <3>4
  <2> QED BY <2>3, <2>4, <2>5
<1> QED BY <1>2, <1>3, <1>13, <1>18, LoadGoesOn

LEMMA LoadStep == ASSUME IInv, LInv, NEW u \in Threads, AnyStep(u) PROVE LoadOK'
<1> SUFFICES ASSUME NEW t \in Threads, LoadsAlone(t)'
             PROVE  LoadBetween(t, Doc(t))' \/ LoadSets(t, Doc(t))' \/ LoadEnds(t, Doc(t))'
  BY DEF LoadOK
<1>1. u = t /\ AnyStep(t) BY MineOnly DEF LInv
<1>2. /\ program' = program
      /\ \/ called' = called /\ at[t].pc # "idle"
         \/ at[t] = Idle /\ called'[t] = called[t] + 1
  BY <1>1, StepShape DEF LInv
<1>3. CASE at[t] = Idle /\ called'[t] = called[t] + 1 BY <1>1, <1>3, LoadBegins DEF LInv
<1>4. CASE called' = called /\ at[t].pc # "idle"
  <2>1. LoadsAlone(t) BY <1>2, <1>4 DEF LoadsAlone
  <2>2. PICK ms : ms = Doc(t) OBVIOUS
  <2>3. ms = Doc(t)' BY <1>2, <1>4, <2>2 DEF Doc
  <2>4. IsSeq(ms) BY <2>1, <2>2, DocSeq DEF LInv
  <2>5. at[t] # Idle BY <1>4 DEF Idle
  <2>6. LoadBetween(t, ms) \/ LoadSets(t, ms) BY <2>1, <2>2, <2>5 DEF LInv, LoadOK, LoadEnds
  <2>7. LoadNext(t) \/ Notify(t) \/ Unlock(t) \/ Assign(t)
    <3>1. \A op : ~Call(t, op) BY <2>5 DEF Call
    <3> QED BY <1>1, <3>1 DEF AnyStep, ConfigStep, Lookup, Find, AddListener, DelListener, ClearListener, Locked,
          SetValue, LoadFromYaml, Elsewhere
  <2>8. LoadBetween(t, ms)' \/ LoadSets(t, ms)' \/ LoadEnds(t, ms)'
    <3>1. CASE LoadBetween(t, ms)
      <4>1. LoadNext(t) BY <2>7, <3>1 DEF LoadBetween, Notify, Unlock, Assign
      <4> QED BY <2>4, <3>1, <4>1, LoadNextGoesOn DEF LInv
    <3>2. CASE LoadSets(t, ms)
      <4>1. Notify(t) \/ Unlock(t) \/ Assign(t) BY <2>7, <3>2 DEF LoadSets, LoadNext
      <4> QED BY <2>4, <3>2, <4>1, LoadTells, LoadAssigns DEF LInv
    <3> QED BY <2>6, <3>1, <3>2
  <2> QED BY <2>3, <2>8
<1> QED BY <1>2, <1>3, <1>4

LEMMA LoadInit == ASSUME ConfigInit PROVE LInv
<1>1. \A t \in Threads : called[t] = 0 /\ at[t] = Idle BY DEF ConfigInit
<1>2. program \in Programs /\ DOMAIN called = Threads /\ DOMAIN threw = Threads BY DEF ConfigInit
<1>3. CallsOK
  <2>1. \A t \in Threads : Len(program[t]) \in Nat BY <1>2, ProgramsAssumption
  <2>2. \A t \in Threads : called[t] \in 0..Len(program[t]) BY <1>1, <2>1
  <2> QED BY <1>1, <1>2, <2>2 DEF CallsOK
<1>4. DatasOK
  <2> SUFFICES ASSUME NEW x \in DOMAIN s_datas, NEW y \in DOMAIN s_datas, s_datas[x] = s_datas[y] PROVE x = y
    BY DEF DatasOK
  <2>1. \A z \in DOMAIN s_datas : Statics[s_datas[z]].name = z
    <3> SUFFICES ASSUME NEW z \in DOMAIN s_datas PROVE Statics[s_datas[z]].name = z OBVIOUS
    <3>1. /\ z \in {v.name : v \in Range(Statics)}
          /\ s_datas[z] = CHOOSE i \in DOMAIN Statics : Statics[i].name = z
      BY DEF ConfigInit
    <3>2. \E i \in DOMAIN Statics : Statics[i].name = z BY <3>1 DEF Range
    <3> QED BY <3>1, <3>2
  <2> QED BY <2>1
<1>5. LoadOK BY <1>1 DEF LoadOK, LoadsAlone
<1> QED BY <1>3, <1>4, <1>5 DEF LInv

LEMMA LoadNextInv == ASSUME IInv, LInv, [ConfigNext]_configVars PROVE LInv'
<1>1. CASE UNCHANGED configVars
  <2>1. UNCHANGED <<program, called, at, threw, s_datas, cvars>> BY <1>1 DEF configVars, threads
  <2>2. CallsOK' /\ DatasOK' BY <2>1 DEF LInv, CallsOK, DatasOK
  <2>3. ASSUME NEW t \in Threads, LoadsAlone(t)'
        PROVE  LoadBetween(t, Doc(t))' \/ LoadSets(t, Doc(t))' \/ LoadEnds(t, Doc(t))'
    <3>1. LoadsAlone(t) BY <2>1, <2>3 DEF LoadsAlone
    <3>2. PICK ms : ms = Doc(t) /\ ms = Doc(t)' BY <2>1 DEF Doc
    <3>3. LoadBetween(t, ms) \/ LoadSets(t, ms) \/ LoadEnds(t, ms) BY <3>1, <3>2 DEF LInv, LoadOK
    <3>4. \A i : /\ InEffect(ms, i)' <=> InEffect(ms, i)
                 /\ Known(ms, i)' <=> Known(ms, i)
                 /\ Given(ms, i)' = Given(ms, i)
      BY <2>1, EffectSame
    <3>5. LoadBetween(t, ms) => LoadBetween(t, ms)' BY <2>1, <3>4 DEF LoadBetween
    <3>6. LoadSets(t, ms) => LoadSets(t, ms)' BY <2>1, <3>4 DEF LoadSets
    <3>7. LoadEnds(t, ms) => LoadEnds(t, ms)' BY <2>1, <3>4 DEF LoadEnds
    <3> QED BY <3>2, <3>3, <3>5, <3>6, <3>7
  <2> QED BY <2>2, <2>3 DEF LInv, LoadOK
<1>2. ASSUME NEW t \in Threads, AnyStep(t) PROVE LInv'
  BY <1>2, CallsStep, DatasStep, LoadStep DEF LInv
<1> QED BY <1>1, <1>2 DEF ConfigNext, AnyStep

LEMMA ConfigLoadInv == ConfigSpec => [](IInv /\ LInv)
<1>1. ConfigInit => LInv BY LoadInit
<1>2. IInv /\ LInv /\ [ConfigNext]_configVars => LInv' BY LoadNextInv
<1> QED BY <1>1, <1>2, ConfigInv, PTL DEF ConfigSpec

\* A load that meets no other call gives every variable that the document names
\* the value it says - the last one that can be converted, if it names it twice -
\* whatever the other members are and however many of them cannot be converted;
\* it stops early only for an exception that fromString lets out.
THEOREM ConfigLoadTakesEffect == ConfigSpec => []LoadTakesEffect
<1>1. ASSUME LInv PROVE LoadTakesEffect
  <2> SUFFICES ASSUME NEW t \in Threads, JustEnded(t, "LoadFromYaml"), NEW ms, ms = Doc(t)
               PROVE  IF threw[t] THEN \E i \in DOMAIN ms : Known(ms, i) /\ Given(ms, i) = THROWN
                      ELSE \A i \in DOMAIN ms :
                             Known(ms, i) /\ Converts(Given(ms, i)) /\ Final(ms, i) =>
                               cvars[s_datas[ms[i].name]].m_val = Given(ms, i).val
    BY DEF LoadTakesEffect, Doc
  <2>1. LoadsAlone(t) /\ at[t] = Idle BY DEF JustEnded, LoadsAlone
  <2>2. PICK n \in Nat : n = Len(ms) /\ DOMAIN ms = 1..n BY <1>1, <2>1, DocSeq DEF LInv
  <2>4. at[t].pc = "idle" BY <2>1 DEF Idle
  <2>5. LoadEnds(t, ms) BY <1>1, <2>1, <2>4 DEF LInv, LoadOK, LoadBetween, LoadSets
  <2>6. CASE threw[t] = TRUE BY <2>2, <2>5, <2>6 DEF LoadEnds
  <2>7. CASE threw[t] = FALSE /\ InEffect(ms, n)
    <3>1. ASSUME NEW i \in 1..n, Known(ms, i), Converts(Given(ms, i)), Final(ms, i)
          PROVE  cvars[s_datas[ms[i].name]].m_val = Given(ms, i).val
      <4>1. ~Overruled(ms, i, n)
        <5> SUFFICES ASSUME NEW j \in i + 1..n, Known(ms, j), ms[j].name = ms[i].name, Converts(Given(ms, j)) PROVE FALSE
          BY DEF Overruled
        <5>1. j \in 1..n /\ j > i OBVIOUS
        <5> QED BY <2>2, <3>1, <5>1 DEF Final
      <4> QED BY <2>7, <3>1, <4>1 DEF InEffect
    <3> QED BY <2>2, <2>7, <3>1
  <2> QED BY <2>2, <2>5, <2>6, <2>7 DEF LoadEnds
<1> QED BY <1>1, ConfigLoadInv, PTL

-----------------------------------------------------------------------------
(* The variable "logs" and its listener.                                     *)

\* "logs" is the first variable: it keeps its type and the listener, and no other
\* name leads to it.
LogsVar ==
  1 \in 1..Len(cvars) /\ cvars[1].type = LogsType /\ "LogIniter" \in Range(cvars[1].m_cbs)
LogsNames ==
  /\ \A name \in DOMAIN s_datas : s_datas[name] = 1 => name = LOGS
  /\ \A t \in Threads : \A name \in DOMAIN handle[t] : handle[t][name] = 1 => name = LOGS

\* What a thread still has to load, and what it gives "logs".
LogsEntry(e) == e.name = LOGS /\ Converts(Cast(LogsType, e.node)) => OneEach(Cast(LogsType, e.node).val)
Entries(rest) == IsSeq(rest) /\ \A e \in Range(rest) : LogsEntry(e)
LogsChanges ==
  \A t \in Threads :
    /\ at[t].pc \in {"load", "notify", "assign"} => Entries(at[t].rest)
    /\ at[t].pc = "load" => at[t].rest # <<>>
    /\ t \in Changing(1) => OneEach(at[t].val)

\* The listener knows the value of "logs", or the one that is being given to it.
LogsTold ==
  1 \notin mixed => \A t \in Changing(1) : told[1]["LogIniter"] \in {cvars[1].m_val, at[t].val}

GInv == LogsVar /\ LogsNames /\ LogsChanges /\ LogsTold

\* delListener takes no other listener away.
LEMMA RemoveKeeps ==
  ASSUME NEW s, IsSeq(s), NEW x, NEW y \in Range(s), y # x
  PROVE  y \in Range(RemoveFirst(s, x))
<1>1. PICK S : s \in Seq(S) BY DEF IsSeq
<1>2. CASE ~\E i \in 1..Len(s) : s[i] = x BY <1>2 DEF RemoveFirst
<1>3. CASE \E i \in 1..Len(s) : s[i] = x
  <2> DEFINE I == {i \in 1..Len(s) : s[i] = x}
  <2>1. PICK n \in Nat : n = Len(s) BY <1>1
  <2>2. I \subseteq Nat /\ I # {} BY <1>3, <2>1
  <2>3. PICK k \in 1..n : k = Min(I) /\ s[k] = x BY <2>1, <2>2, LeastOfNat
  <2>4. RemoveFirst(s, x) = SubSeq(s, 1, k - 1) \o SubSeq(s, k + 1, n)
    BY <1>3, <2>1, <2>2, <2>3 DEF RemoveFirst, RemoveAt, SelectInSeq
  <2> HIDE DEF I
  <2> DEFINE a == SubSeq(s, 1, k - 1)
             b == SubSeq(s, k + 1, n)
  <2>5. a \in Seq(S) /\ Len(a) = k - 1 /\ \A i \in 1..k - 1 : a[i] = s[i] BY <1>1, <2>1
  <2>6. b \in Seq(S) /\ Len(b) = n - k /\ \A i \in 1..n - k : b[i] = s[k + i] BY <1>1, <2>1
  <2>7. RemoveFirst(s, x) = a \o b BY <2>4
  <2> HIDE DEF a, b
  <2>8. /\ a \o b \in Seq(S) /\ Len(a \o b) = n - 1
        /\ \A i \in 1..k - 1 : (a \o b)[i] = a[i]
        /\ \A i \in 1..n - k : (a \o b)[(k - 1) + i] = b[i]
    <3>1. a \in Seq(S) /\ b \in Seq(S) BY <2>5, <2>6
    <3>2. a \o b \in Seq(S) BY <3>1
    <3>3. Len(a \o b) = Len(a) + Len(b) BY <3>1
    <3>4. \A i \in 1..Len(a) : (a \o b)[i] = a[i] BY <3>1
    <3>5. \A i \in 1..Len(b) : (a \o b)[Len(a) + i] = b[i] BY <3>1
    <3> QED BY <2>1, <2>5, <2>6, <3>2, <3>3, <3>4, <3>5
  <2>9. IsSeq(a \o b) BY <2>8 DEF IsSeq
  <2>10. PICK i \in 1..n : y = s[i] BY <2>1, SeqRange
  <2>11. CASE i < k
    <3>1. i \in 1..k - 1 /\ i \in 1..n - 1 BY <2>11
    <3>2. (a \o b)[i] = y BY <2>5, <2>8, <2>10, <3>1
    <3> QED BY <2>7, <2>8, <2>9, <3>1, <3>2, SeqRange
  <2>12. CASE i > k
    <3>1. i - k \in 1..n - k /\ k + (i - k) = i /\ (k - 1) + (i - k) \in 1..n - 1 BY <2>12
    <3>2. (a \o b)[(k - 1) + (i - k)] = y BY <2>6, <2>8, <2>10, <3>1
    <3> QED BY <2>7, <2>8, <2>9, <3>1, <3>2, SeqRange
  <2> QED BY <2>3, <2>10, <2>11, <2>12
<1> QED BY <1>2, <1>3

LEMMA CallListed ==
  ASSUME CallsOK, NEW t \in Threads, NEW op, Call(t, op)
  PROVE  LogsCall(Args(t)) /\ Args(t).op = op
<1>1. called[t] + 1 \in DOMAIN program[t] BY ProgramsSeq DEF Call
<1> QED BY <1>1, LogAssumption DEF CallsOK, Args, Call

\* A pointer to "logs" is got by its name.
LEMMA ThisLogs ==
  ASSUME LogsNames, NEW t \in Threads, This(t) = 1
  PROVE  Args(t).name = LOGS
BY DEF This, LogsNames, NULL

\* A step changes one variable at most, and of "logs" neither the type nor that it
\* has the listener.
LEMMA LogsVarStep ==
  ASSUME IInv, CallsOK, GInv, NEW t \in Threads, AnyStep(t)
  PROVE  LogsVar'
<1>1. PICK n \in Nat : n = Len(cvars) /\ 1 \in 1..n /\ IsSeq(cvars) BY SeqDomain DEF IInv, VarsOK, GInv, LogsVar
<1>2. CASE cvars' = cvars BY <1>2 DEF GInv, LogsVar
<1>3. ASSUME NEW r, cvars' = Append(cvars, r) PROVE LogsVar'
  <2>1. Len(cvars') = n + 1 /\ cvars'[1] = cvars[1] BY <1>1, <1>3, AppendAny
  <2>2. 1 \in 1..n + 1 BY <1>1
  <2> QED BY <2>1, <2>2 DEF GInv, LogsVar
<1>4. ASSUME NEW v \in 1..n, NEW r, cvars' = [cvars EXCEPT ![v] = r],
             v = 1 => r.type = cvars[1].type /\ "LogIniter" \in Range(r.m_cbs)
      PROVE  LogsVar'
  <2>1. Len(cvars') = n /\ cvars'[v] = r /\ \A w \in 1..n : w # v => cvars'[w] = cvars[w]
    BY <1>1, <1>4, VariableReplaced
  <2>2. CASE v = 1 BY <1>1, <1>4, <2>1, <2>2 DEF GInv, LogsVar
  <2>3. CASE v # 1
    <3>1. cvars'[1] = cvars[1] BY <1>1, <2>1, <2>3
    <3> QED BY <1>1, <2>1, <3>1 DEF GInv, LogsVar
  <2> QED BY <2>2, <2>3
<1>5. ASSUME NEW v \in 1..n, NEW cbs, cvars' = [cvars EXCEPT ![v].m_cbs = cbs], v = 1 => "LogIniter" \in Range(cbs)
      PROVE  LogsVar'
  <2>1. PICK q, r : q = cvars[v] /\ r = [q EXCEPT !.m_cbs = cbs] OBVIOUS
  <2>2. q = [type |-> q.type, m_val |-> q.m_val, m_cbs |-> q.m_cbs] BY <1>1, <2>1 DEF IInv, VarsOK, VarRec
  <2>3. r = [type |-> q.type, m_val |-> q.m_val, m_cbs |-> cbs] BY <2>1, <2>2
  <2>4. r.type = q.type /\ r.m_cbs = cbs BY <2>3
  <2>5. cvars' = [cvars EXCEPT ![v] = r] BY <1>5, <2>1
  <2> QED BY <1>4, <1>5, <2>1, <2>4, <2>5
<1>6. CASE Lookup(t) BY <1>2, <1>3, <1>6 DEF Lookup
<1>7. ASSUME AddListener(t) \/ DelListener(t) \/ ClearListener(t)
      PROVE  /\ This(t) \in 1..n /\ LogsCall(Args(t)) /\ (This(t) = 1 => Args(t).name = LOGS)
             /\ IsSeq(cvars[This(t)].m_cbs)
             /\ AddListener(t) => Args(t).op = "addListener"
             /\ DelListener(t) => Args(t).op = "delListener"
             /\ ClearListener(t) => Args(t).op = "clearListener"
  <2>1. This(t) \in 1..n BY <1>1, <1>7, ThisKnown DEF AddListener, DelListener, ClearListener, Locked
  <2>2. /\ AddListener(t) => Call(t, "addListener")
        /\ DelListener(t) => Call(t, "delListener")
        /\ ClearListener(t) => Call(t, "clearListener")
    BY DEF AddListener, DelListener, ClearListener, Locked
  <2>3. This(t) = 1 => Args(t).name = LOGS BY ThisLogs DEF GInv
  <2>4. IsSeq(cvars[This(t)].m_cbs) BY <1>1, <2>1 DEF IInv, VarsOK, VarRec
  <2> QED BY <1>7, <2>1, <2>2, <2>3, <2>4, CallListed
<1>8. CASE AddListener(t)
  <2>1. PICK cbs : cbs = Append(cvars[This(t)].m_cbs, Args(t).cb) OBVIOUS
  <2>2. cvars' = [cvars EXCEPT ![This(t)].m_cbs = cbs] BY <1>8, <2>1 DEF AddListener
  <2>3. Range(cvars[This(t)].m_cbs) \subseteq Range(cbs) BY <1>7, <1>8, <2>1, AppendAny
  <2> QED BY <1>5, <1>7, <1>8, <2>2, <2>3 DEF GInv, LogsVar
<1>9. CASE DelListener(t)
  <2>1. PICK cbs : cbs = RemoveFirst(cvars[This(t)].m_cbs, Args(t).cb) OBVIOUS
  <2>2. cvars' = [cvars EXCEPT ![This(t)].m_cbs = cbs] BY <1>9, <2>1 DEF DelListener
  <2>3. This(t) = 1 => Args(t).cb # "LogIniter" BY <1>7, <1>9 DEF LogsCall
  <2>4. This(t) = 1 => "LogIniter" \in Range(cbs) BY <1>7, <1>9, <2>1, <2>3, RemoveKeeps DEF GInv, LogsVar
  <2> QED BY <1>5, <1>7, <1>9, <2>2, <2>4
<1>10. CASE ClearListener(t)
  <2>1. cvars' = [cvars EXCEPT ![This(t)].m_cbs = <<>>] BY <1>10 DEF ClearListener
  <2>2. This(t) # 1 BY <1>7, <1>10 DEF LogsCall
  <2> QED BY <1>5, <1>7, <1>10, <2>1, <2>2
<1>11. CASE Assign(t)
  <2>1. PICK v \in 1..n : v = at[t].var
    BY <1>1, <1>11, ChangeKnown DEF Assign, Changes
  <2>2. PICK q, r : q = cvars[v] /\ r = [q EXCEPT !.m_val = at[t].val] OBVIOUS
  <2>3. q = [type |-> q.type, m_val |-> q.m_val, m_cbs |-> q.m_cbs] BY <1>1, <2>2 DEF IInv, VarsOK, VarRec
  <2>4. r = [type |-> q.type, m_val |-> at[t].val, m_cbs |-> q.m_cbs] BY <2>2, <2>3
  <2>5. r.type = q.type /\ r.m_cbs = q.m_cbs BY <2>4
  <2>6. cvars' = [cvars EXCEPT ![v] = r] BY <1>11, <2>1, <2>2 DEF Assign
  <2> QED BY <1>4, <2>2, <2>5, <2>6 DEF GInv, LogsVar
<1>12. CASE Find(t) \/ SetValue(t) \/ Unlock(t) \/ LoadFromYaml(t) \/ LoadNext(t) \/ Notify(t) \/ Elsewhere(t)
  BY <1>2, <1>12 DEF Find, SetValue, Unlock, LoadFromYaml, LoadNext, Notify, Elsewhere
<1> QED BY <1>6, <1>8, <1>9, <1>10, <1>11, <1>12 DEF AnyStep, ConfigStep

LEMMA LogsNamesStep ==
  ASSUME IInv, GInv, NEW t \in Threads, AnyStep(t)
  PROVE  LogsNames'
<1>1. CASE UNCHANGED <<handle, s_datas>> BY <1>1 DEF GInv, LogsNames
<1>2. DOMAIN handle = Threads /\ Len(cvars) \in Nat /\ Len(cvars) >= 1 /\ IsSeq(cvars)
  BY SeqDomain DEF IInv, VarsOK, NamesOK, GInv, LogsVar
<1>3. ASSUME NEW name, NEW p, p = 1 => name = LOGS, handle' = [handle EXCEPT ![t] = Set1(@, name, p)]
      PROVE  \A u \in Threads : \A x \in DOMAIN handle'[u] : handle'[u][x] = 1 => x = LOGS
  <2>1. handle'[t] = Set1(handle[t], name, p) /\ \A u \in Threads : u # t => handle'[u] = handle[u] BY <1>2, <1>3
  <2>2. ASSUME NEW x \in DOMAIN handle'[t], handle'[t][x] = 1 PROVE x = LOGS
    BY <1>3, <2>1, <2>2 DEF Set1, GInv, LogsNames
  <2> QED BY <2>1, <2>2 DEF GInv, LogsNames
<1>4. CASE Find(t)
  <2>1. PICK name, p : name = Args(t).name /\ p = IF name \in DOMAIN s_datas /\ cvars[s_datas[name]].type = Args(t).type
                                                   THEN s_datas[name] ELSE NULL OBVIOUS
  <2>2. handle' = [handle EXCEPT ![t] = Set1(@, name, p)] /\ s_datas' = s_datas BY <1>4, <2>1 DEF Find
  <2>3. p = 1 => name = LOGS BY <2>1 DEF GInv, LogsNames, NULL
  <2>4. \A u \in Threads : \A x \in DOMAIN handle'[u] : handle'[u][x] = 1 => x = LOGS BY <1>3, <2>2, <2>3
  <2> QED BY <2>2, <2>4 DEF GInv, LogsNames
<1>5. CASE Lookup(t)
  <2>1. PICK name : name = Args(t).name OBVIOUS
  <2>2. \/ UNCHANGED <<handle, s_datas>>
        \/ /\ handle' = [handle EXCEPT ![t] = Set1(@, name, s_datas[name])] /\ s_datas' = s_datas /\ name \in DOMAIN s_datas
        \/ \E r : /\ cvars' = Append(cvars, r) /\ s_datas' = Set1(s_datas, name, Len(cvars'))
                  /\ handle' = [handle EXCEPT ![t] = Set1(@, name, Len(cvars'))]
    BY <1>5, <2>1 DEF Lookup
  <2>3. CASE /\ handle' = [handle EXCEPT ![t] = Set1(@, name, s_datas[name])] /\ s_datas' = s_datas
             /\ name \in DOMAIN s_datas
    <3>1. PICK p : p = s_datas[name] OBVIOUS
    <3>2. p = 1 => name = LOGS BY <2>3, <3>1 DEF GInv, LogsNames
    <3>3. handle' = [handle EXCEPT ![t] = Set1(@, name, p)] BY <2>3, <3>1
    <3>4. \A u \in Threads : \A x \in DOMAIN handle'[u] : handle'[u][x] = 1 => x = LOGS BY <1>3, <3>2, <3>3
    <3> QED BY <2>3, <3>4 DEF GInv, LogsNames
  <2>4. ASSUME NEW r, cvars' = Append(cvars, r), s_datas' = Set1(s_datas, name, Len(cvars')),
               handle' = [handle EXCEPT ![t] = Set1(@, name, Len(cvars'))]
        PROVE  LogsNames'
    <3>1. PICK p : p = Len(cvars') OBVIOUS
    <3>2. p # 1 BY <1>2, <2>4, <3>1, AppendAny
    <3>3. handle' = [handle EXCEPT ![t] = Set1(@, name, p)] /\ s_datas' = Set1(s_datas, name, p) BY <2>4, <3>1
    <3>4. \A u \in Threads : \A x \in DOMAIN handle'[u] : handle'[u][x] = 1 => x = LOGS BY <1>3, <3>2, <3>3
    <3>5. \A x \in DOMAIN s_datas' : s_datas'[x] = 1 => x = LOGS BY <3>2, <3>3 DEF Set1, GInv, LogsNames
    <3> QED BY <3>4, <3>5 DEF LogsNames
  <2> QED BY <1>1, <2>2, <2>3, <2>4
<1> QED BY <1>1, <1>4, <1>5 DEF AnyStep, ConfigStep, AddListener, DelListener, ClearListener, Locked, SetValue, Unlock,
      Assign, LoadFromYaml, LoadNext, Notify, Elsewhere

\* What a thread may be at when it goes on with the rest of a document.
AtOK(c) ==
  /\ c.pc \in {"load", "notify", "assign"} => Entries(c.rest)
  /\ c.pc = "load" => c.rest # <<>>
  /\ c.pc \in {"notify", "assign"} /\ c.var = 1 => OneEach(c.val)

LEMMA AtOKIs ==
  LogsChanges <=> \A t \in Threads : AtOK(at[t])
BY DEF LogsChanges, AtOK, Changing

LEMMA RestEntries ==
  ASSUME NEW rest, Entries(rest)
  PROVE  AtOK(Rest(rest))
<1>1. CASE rest = <<>> BY <1>1 DEF Rest, Idle, AtOK
<1>2. CASE rest # <<>>
  <2>1. PICK c : c = Rest(rest) OBVIOUS
  <2>2. c.pc = "load" /\ c.rest = rest BY <1>2, <2>1 DEF Rest
  <2> QED BY <1>2, <2>1, <2>2 DEF AtOK
<1> QED BY <1>1, <1>2

LEMMA CompareEntries ==
  ASSUME NEW t \in Threads, NEW v, NEW val, NEW rest, Entries(rest), v = 1 => OneEach(val),
         DOMAIN at = Threads, Compare(t, v, val, rest)
  PROVE  AtOK(at'[t])
<1>1. at'[t] = Rest(rest)
      \/ at'[t] = [pc |-> "notify", var |-> v, val |-> val, todo |-> cvars[v].m_cbs, rest |-> rest]
  BY DEF Compare
<1>2. CASE at'[t] = Rest(rest) BY <1>2, RestEntries
<1>3. CASE at'[t] = [pc |-> "notify", var |-> v, val |-> val, todo |-> cvars[v].m_cbs, rest |-> rest]
  <2>1. PICK c : c = at'[t] OBVIOUS
  <2>2. c.pc = "notify" /\ c.var = v /\ c.val = val /\ c.rest = rest BY <1>3, <2>1
  <2> QED BY <2>1, <2>2 DEF AtOK
<1> QED BY <1>1, <1>2, <1>3

LEMMA LogsChangesStep ==
  ASSUME IInv, CallsOK, GInv, NEW t \in Threads, AnyStep(t)
  PROVE  LogsChanges'
<1>1. DOMAIN at = Threads /\ \A u \in Threads : u # t => at'[u] = at[u] BY StepShape DEF IInv, ThreadsOK
<1>2. \A u \in Threads : AtOK(at[u]) BY AtOKIs DEF GInv
<1>3. AtOK(at'[t])
  <2>1. CASE at' = at BY <1>2, <2>1
  <2>2. CASE SetValue(t)
    <3>1. LogsCall(Args(t)) /\ Args(t).op = "setValue" BY <2>2, CallListed DEF SetValue
    <3>2. This(t) = 1 => OneEach(Args(t).val) BY <3>1, ThisLogs DEF GInv, LogsCall
    <3>3. Entries(<<>>)
      <4>1. PICK s : s = <<>> OBVIOUS
      <4>2. IsSeq(s) /\ Range(s) = {} BY <4>1, NoElements
      <4> QED BY <4>1, <4>2 DEF Entries
    <3>4. PICK v, val : v = This(t) /\ val = Args(t).val OBVIOUS
    <3>5. Compare(t, v, val, <<>>) BY <2>2, <3>4 DEF SetValue
    <3> QED BY <1>1, <3>2, <3>3, <3>4, <3>5, CompareEntries
  <2>3. CASE LoadFromYaml(t)
    <3>1. LogsCall(Args(t)) /\ Args(t).op = "LoadFromYaml" BY <2>3, CallListed DEF LoadFromYaml
    <3>2. PICK ms : ms = Members(<<>>, Args(t).root) OBVIOUS
    <3>3. \A e \in Range(ms) : LogsEntry(e) BY <3>1, <3>2 DEF LogsCall, LogsEntry
    <3>4. called[t] + 1 \in DOMAIN program[t] BY <2>3, ProgramsSeq DEF LoadFromYaml, Call
    <3>5. ms \in Seq(Range(ms)) BY <3>1, <3>2, <3>4, ProgramsAssumption DEF CallsOK, Args
    <3>6. Entries(ms) BY <3>3, <3>5 DEF Entries, IsSeq
    <3>7. at'[t] = Rest(ms) BY <1>1, <2>3, <3>2 DEF LoadFromYaml
    <3> QED BY <3>6, <3>7, RestEntries
  <2>4. CASE LoadNext(t)
    <3>1. PICK c : c = at[t] OBVIOUS
    <3>2. c.pc = "load" BY <2>4, <3>1 DEF LoadNext
    <3>3. Entries(c.rest) /\ c.rest # <<>> BY <1>2, <3>1, <3>2 DEF AtOK
    <3>4. PICK next, rest : next = c.rest[1] /\ rest = Tail(c.rest) OBVIOUS
    <3>5. IsSeq(rest) /\ next \in Range(c.rest) /\ Range(rest) \subseteq Range(c.rest)
      BY <3>3, <3>4, TailAny DEF Entries
    <3>6. Entries(rest) /\ LogsEntry(next) BY <3>3, <3>5 DEF Entries
    <3>7. PICK v, cast : v = s_datas[next.name] /\ cast = Cast(cvars[v].type, next.node) OBVIOUS
    <3>8. \/ at' = [at EXCEPT ![t] = Rest(rest)] \/ at' = [at EXCEPT ![t] = Idle]
          \/ /\ next.name \in DOMAIN s_datas /\ cast # BAD /\ cast # THROWN
             /\ Compare(t, v, cast.val, rest)
      BY <2>4, <3>1, <3>4, <3>7 DEF LoadNext
    <3>9. CASE at' = [at EXCEPT ![t] = Rest(rest)]
      <4>1. at'[t] = Rest(rest) BY <1>1, <3>9
      <4> QED BY <3>6, <4>1, RestEntries
    <3>10. CASE at' = [at EXCEPT ![t] = Idle]
      <4>1. at'[t] = Idle BY <1>1, <3>10
      <4> QED BY <4>1 DEF AtOK, Idle
    <3>11. CASE /\ next.name \in DOMAIN s_datas /\ cast # BAD /\ cast # THROWN
                /\ Compare(t, v, cast.val, rest)
      <4>1. v = 1 => next.name = LOGS /\ cast = Cast(LogsType, next.node)
        BY <3>7, <3>11 DEF GInv, LogsNames, LogsVar
      <4>2. Converts(cast) BY <3>11 DEF Converts
      <4>3. v = 1 => OneEach(cast.val) BY <3>6, <4>1, <4>2 DEF LogsEntry
      <4>4. PICK val : val = cast.val OBVIOUS
      <4>5. Compare(t, v, val, rest) /\ (v = 1 => OneEach(val)) BY <3>11, <4>3, <4>4
      <4> QED BY <1>1, <3>6, <4>5, CompareEntries
    <3> QED BY <3>8, <3>9, <3>10, <3>11
  <2>5. CASE Notify(t) \/ Unlock(t)
    <3>1. PICK c, d : c = at[t] /\ d = at'[t] OBVIOUS
    <3>2. c.pc = "notify" /\ Changes(t) BY <2>5, <3>1 DEF Notify, Unlock, Changes
    <3>3. c = [pc |-> c.pc, var |-> c.var, val |-> c.val, todo |-> c.todo, rest |-> c.rest]
      BY <3>1, <3>2, ChangeKnown
    <3>4. d = [c EXCEPT !.todo = Tail(@)] \/ d = [c EXCEPT !.pc = "assign"]
      BY <1>1, <2>5, <3>1 DEF Notify, Unlock
    <3>5. d.pc \in {"notify", "assign"} /\ d.var = c.var /\ d.val = c.val /\ d.rest = c.rest
      BY <3>2, <3>3, <3>4
    <3>6. AtOK(c) BY <1>2, <3>1
    <3>7. d.pc # "load" BY <3>5
    <3> QED BY <3>1, <3>2, <3>5, <3>6, <3>7 DEF AtOK
  <2>6. CASE Assign(t)
    <3>1. PICK c : c = at[t] OBVIOUS
    <3>2. c.pc = "assign" /\ at'[t] = Rest(c.rest) BY <1>1, <2>6, <3>1 DEF Assign
    <3>3. Entries(c.rest) BY <1>2, <3>1, <3>2 DEF AtOK
    <3> QED BY <3>2, <3>3, RestEntries
  <2>7. CASE Lookup(t) \/ Find(t) \/ AddListener(t) \/ DelListener(t) \/ ClearListener(t) \/ Elsewhere(t)
    BY <2>1, <2>7 DEF Lookup, Find, AddListener, DelListener, ClearListener, Locked, Elsewhere
  <2> QED BY <2>2, <2>3, <2>4, <2>5, <2>6, <2>7 DEF AnyStep, ConfigStep
<1>4. \A u \in Threads : AtOK(at'[u]) BY <1>1, <1>2, <1>3
<1> QED BY <1>4 DEF LogsChanges, AtOK, Changing

\* Only the end of setValue changes the value of "logs".
LEMMA LogsValSame ==
  ASSUME IInv, GInv, NEW t \in Threads, AnyStep(t), ~(Assign(t) /\ at[t].var = 1)
  PROVE  cvars'[1].m_val = cvars[1].m_val
<1>1. PICK n \in Nat : n = Len(cvars) /\ 1 \in 1..n /\ IsSeq(cvars) BY SeqDomain DEF IInv, VarsOK, GInv, LogsVar
<1>2. ASSUME NEW v \in 1..n, NEW cbs, cvars' = [cvars EXCEPT ![v].m_cbs = cbs]
      PROVE  cvars'[1].m_val = cvars[1].m_val
  <2>1. PICK q, r : q = cvars[v] /\ r = [q EXCEPT !.m_cbs = cbs] OBVIOUS
  <2>2. q = [type |-> q.type, m_val |-> q.m_val, m_cbs |-> q.m_cbs] BY <1>1, <2>1 DEF IInv, VarsOK, VarRec
  <2>3. r.m_val = q.m_val BY <2>1, <2>2
  <2>4. cvars' = [cvars EXCEPT ![v] = r] BY <1>2, <2>1
  <2>5. cvars'[v] = r /\ \A w \in 1..n : w # v => cvars'[w] = cvars[w] BY <1>1, <2>4, VariableReplaced
  <2> QED BY <1>1, <2>1, <2>3, <2>5
<1>3. CASE Lookup(t)
  <2>1. cvars' = cvars \/ \E r : cvars' = Append(cvars, r) BY <1>3 DEF Lookup
  <2> QED BY <1>1, <2>1, AppendAny
<1>4. CASE AddListener(t) \/ DelListener(t) \/ ClearListener(t)
  <2>1. This(t) \in 1..n BY <1>1, <1>4, ThisKnown DEF AddListener, DelListener, ClearListener, Locked
  <2>2. \E cbs : cvars' = [cvars EXCEPT ![This(t)].m_cbs = cbs]
    BY <1>4 DEF AddListener, DelListener, ClearListener
  <2> QED BY <1>2, <2>1, <2>2
<1>5. CASE Assign(t)
  <2>1. PICK v \in 1..n : v = at[t].var BY <1>1, <1>5, ChangeKnown DEF Assign, Changes
  <2>2. PICK r : r = [cvars[v] EXCEPT !.m_val = at[t].val] OBVIOUS
  <2>3. cvars' = [cvars EXCEPT ![v] = r] BY <1>5, <2>1, <2>2 DEF Assign
  <2>4. \A w \in 1..n : w # v => cvars'[w] = cvars[w] BY <1>1, <2>3, VariableReplaced
  <2> QED BY <1>1, <1>5, <2>1, <2>4
<1>6. CASE Find(t) \/ SetValue(t) \/ Unlock(t) \/ LoadFromYaml(t) \/ LoadNext(t) \/ Notify(t) \/ Elsewhere(t)
  BY <1>6 DEF Find, SetValue, Unlock, LoadFromYaml, LoadNext, Notify, Elsewhere
<1> QED BY <1>3, <1>4, <1>5, <1>6 DEF AnyStep, ConfigStep

\* As long as no change met another call, only a notification tells the listener
\* something new.
LEMMA LogsToldSame ==
  ASSUME IInv, GInv, NEW t \in Threads, AnyStep(t), 1 \notin mixed'
  PROVE  /\ 1 \notin mixed
         /\ \/ told'[1]["LogIniter"] = told[1]["LogIniter"]
            \/ Notify(t) /\ at[t].var = 1 /\ at[t].todo[1] = "LogIniter" /\ told'[1]["LogIniter"] = at[t].val
<1>1. /\ IsSeq(told) /\ 1 \in 1..Len(told) /\ "LogIniter" \in DOMAIN told[1] /\ Len(told) = Len(cvars)
      /\ "LogIniter" \in Range(cvars[1].m_cbs) /\ 1 \in 1..Len(cvars)
  BY DEF IInv, VarsOK, GInv, LogsVar
<1>2. 1 \notin mixed
  BY DEF AnyStep, ConfigStep, Lookup, Find, AddListener, DelListener, ClearListener, Locked,
        SetValue, Unlock, Assign, LoadFromYaml, LoadNext, Compare, Notify, Elsewhere
<1>3. CASE told' = told BY <1>2, <1>3
<1>4. CASE Lookup(t)
  <2>1. told' = told \/ \E x : told' = Append(told, x) BY <1>4 DEF Lookup
  <2> QED BY <1>1, <1>2, <2>1, AppendAny
<1>5. CASE AddListener(t)
  <2>1. PICK v \in 1..Len(told) : v = This(t) BY <1>1, <1>5, ThisKnown DEF AddListener, Locked
  <2>2. PICK g : g = Set1(told[v], Args(t).cb, cvars[v].m_val) OBVIOUS
  <2>3. told' = [told EXCEPT ![v] = g] BY <1>5, <2>1, <2>2 DEF AddListener
  <2>4. told'[v] = g /\ \A w \in 1..Len(told) : w # v => told'[w] = told[w] BY <1>1, <2>3, ToldReplaced
  <2>5. CASE v # 1 BY <1>1, <1>2, <2>4, <2>5
  <2>6. CASE v = 1
    <3>1. Changing(1) = {} BY <1>5, <2>1, <2>6 DEF AddListener, Locked
    <3>2. told[1]["LogIniter"] = cvars[1].m_val BY <1>1, <1>2, <3>1 DEF IInv, FollowOK, Follows
    <3>3. g["LogIniter"] = told[1]["LogIniter"] BY <1>1, <2>2, <2>6, <3>2 DEF Set1
    <3> QED BY <1>2, <2>4, <2>6, <3>3
  <2> QED BY <2>5, <2>6
<1>6. CASE Notify(t)
  <2>1. PICK c : c = at[t] OBVIOUS
  <2>2. c.todo # <<>> /\ Changes(t) BY <1>6, <2>1 DEF Notify, Changes
  <2>3. PICK v \in 1..Len(told) : v = c.var BY <1>1, <2>1, <2>2, ChangeKnown
  <2>4. PICK g : g = [told[v] EXCEPT ![c.todo[1]] = c.val] OBVIOUS
  <2>5. told' = [told EXCEPT ![v] = g] BY <1>6, <2>1, <2>3, <2>4 DEF Notify
  <2>6. told'[v] = g /\ \A w \in 1..Len(told) : w # v => told'[w] = told[w] BY <1>1, <2>5, ToldReplaced
  <2>7. CASE v # 1 BY <1>1, <1>2, <2>6, <2>7
  <2>8. CASE v = 1 /\ c.todo[1] # "LogIniter" BY <1>1, <1>2, <2>4, <2>6, <2>8
  <2>9. CASE v = 1 /\ c.todo[1] = "LogIniter" BY <1>1, <1>2, <1>6, <2>1, <2>3, <2>4, <2>6, <2>9
  <2> QED BY <2>7, <2>8, <2>9
<1> QED BY <1>3, <1>4, <1>5, <1>6 DEF AnyStep, ConfigStep, Find, DelListener, ClearListener,
      SetValue, Unlock, Assign, LoadFromYaml, LoadNext, Elsewhere

LEMMA LogsToldStep ==
  ASSUME IInv, CallsOK, GInv, NEW t \in Threads, AnyStep(t)
  PROVE  LogsTold'
<1> SUFFICES ASSUME 1 \notin mixed', NEW u \in Threads, u \in Changing(1)'
             PROVE  told'[1]["LogIniter"] \in {cvars'[1].m_val, at'[u].val}
  BY DEF LogsTold, Changing
<1>1. /\ 1 \notin mixed
      /\ \/ told'[1]["LogIniter"] = told[1]["LogIniter"]
         \/ Notify(t) /\ at[t].var = 1 /\ at[t].todo[1] = "LogIniter" /\ told'[1]["LogIniter"] = at[t].val
  BY LogsToldSame
<1>2. Follows(1) /\ "LogIniter" \in Range(cvars[1].m_cbs) BY <1>1 DEF IInv, FollowOK, GInv, LogsVar
<1>3. DOMAIN at = Threads /\ \A w \in Threads : w # t => at'[w] = at[w] BY StepShape DEF IInv, ThreadsOK
<1>4. \A w \in Changing(1) : told[1]["LogIniter"] \in {cvars[1].m_val, at[w].val} BY <1>1 DEF GInv, LogsTold
<1>5. CASE u # t
  <2>1. u \in Changing(1) /\ at'[u] = at[u] BY <1>3, <1>5 DEF Changing
  <2>2. t \notin Changing(1) BY <1>2, <1>5, <2>1 DEF Follows
  <2>3. ~(Assign(t) /\ at[t].var = 1) /\ ~(Notify(t) /\ at[t].var = 1) BY <2>2 DEF Changing, Assign, Notify
  <2>4. cvars'[1].m_val = cvars[1].m_val BY <2>3, LogsValSame
  <2> QED BY <1>1, <1>4, <2>1, <2>3, <2>4
<1>6. CASE u = t
  <2>1. at'[t].pc \in {"notify", "assign"} /\ at'[t].var = 1 BY <1>6 DEF Changing
  <2>2. ASSUME NEW v, NEW val, NEW rest, Compare(t, v, val, rest), cvars' = cvars, told' = told
        PROVE  told'[1]["LogIniter"] \in {cvars'[1].m_val, at'[u].val}
    <3>1. at'[t] = Rest(rest)
          \/ at'[t] = [pc |-> "notify", var |-> v, val |-> val, todo |-> cvars[v].m_cbs, rest |-> rest]
      BY <1>3, <2>2 DEF Compare
    <3>2. v = 1 BY <2>1, <3>1, RestQuiet
    <3>3. Changing(1) = {} BY <2>2, <3>2 DEF Compare
    <3> QED BY <1>2, <2>2, <3>3 DEF Follows
  <2>3. CASE SetValue(t) BY <2>2, <2>3 DEF SetValue
  <2>4. CASE LoadNext(t)
    <3>1. \/ \E rest : at' = [at EXCEPT ![t] = Rest(rest)]
          \/ at' = [at EXCEPT ![t] = Idle]
          \/ \E v, val, rest : Compare(t, v, val, rest)
      BY <2>4 DEF LoadNext
    <3>2. cvars' = cvars /\ told' = told BY <2>4 DEF LoadNext
    <3>3. Idle.pc \notin {"notify", "assign"} BY DEF Idle
    <3> QED BY <1>3, <2>1, <2>2, <3>1, <3>2, <3>3, RestQuiet
  <2>5. CASE Notify(t) \/ Unlock(t)
    <3>1. PICK c, d : c = at[t] /\ d = at'[t] OBVIOUS
    <3>2. c.pc = "notify" /\ Changes(t) BY <2>5, <3>1 DEF Notify, Unlock, Changes
    <3>3. c = [pc |-> c.pc, var |-> c.var, val |-> c.val, todo |-> c.todo, rest |-> c.rest]
      BY <3>1, <3>2, ChangeKnown
    <3>4. d = [c EXCEPT !.todo = Tail(@)] \/ d = [c EXCEPT !.pc = "assign"]
      BY <1>3, <2>5, <3>1 DEF Notify, Unlock
    <3>5. d.var = c.var /\ d.val = c.val BY <3>3, <3>4
    <3>6. t \in Changing(1) BY <2>1, <3>1, <3>2, <3>5 DEF Changing
    <3>7. cvars' = cvars BY <2>5 DEF Notify, Unlock
    <3> QED BY <1>1, <1>4, <1>6, <3>1, <3>5, <3>6, <3>7
  <2>6. CASE Assign(t)
    <3>1. at'[t] = Rest(at[t].rest) BY <1>3, <2>6 DEF Assign
    <3> QED BY <2>1, <3>1, RestQuiet
  <2>7. CASE LoadFromYaml(t)
    <3>1. \E rest : at' = [at EXCEPT ![t] = Rest(rest)] BY <2>7 DEF LoadFromYaml
    <3> QED BY <1>3, <2>1, <3>1, RestQuiet
  <2>8. CASE Lookup(t) \/ Find(t) \/ AddListener(t) \/ DelListener(t) \/ ClearListener(t) \/ Elsewhere(t)
    <3>1. at' = at /\ \E op : Call(t, op)
      BY <2>8 DEF Lookup, Find, AddListener, DelListener, ClearListener, Locked, Elsewhere
    <3>2. ~Changes(t) BY <3>1, CallQuiet
    <3> QED BY <2>1, <3>1, <3>2 DEF Changes
  <2> QED BY <2>3, <2>4, <2>5, <2>6, <2>7, <2>8 DEF AnyStep, ConfigStep
<1> QED BY <1>5, <1>6

LEMMA LogsInit == ASSUME ConfigInit PROVE GInv
<1>1. PICK n \in Nat : n = Len(Statics) /\ DOMAIN Statics = 1..n /\ n >= 1
  <2>1. Statics \in Seq(Range(Statics)) /\ Statics # <<>> BY StaticsAssumption, LogAssumption
  <2> QED BY <2>1
<1>2. PICK s : s = Statics[1] OBVIOUS
<1>3. s.name = LOGS /\ s.type = LogsType /\ s.cbs = <<"LogIniter">> BY <1>2, LogAssumption DEF LogStatics
<1>4. Len(cvars) = n
  <2>1. cvars = [i \in 1..n |-> cvars[i]] BY <1>1 DEF ConfigInit
  <2> QED BY <2>1, FunAny
<1>5. cvars[1].type = s.type /\ cvars[1].m_cbs = s.cbs BY <1>1, <1>2 DEF ConfigInit
<1>6. "LogIniter" \in Range(s.cbs)
  <2>1. s.cbs[1] = "LogIniter" /\ 1 \in DOMAIN s.cbs BY <1>3
  <2> QED BY <2>1 DEF Range
<1>7. LogsVar BY <1>1, <1>3, <1>4, <1>5, <1>6 DEF LogsVar
<1>8. ASSUME NEW z \in DOMAIN s_datas, s_datas[z] = 1 PROVE z = LOGS
  <2>1. /\ z \in {v.name : v \in Range(Statics)}
        /\ s_datas[z] = CHOOSE i \in DOMAIN Statics : Statics[i].name = z
    BY DEF ConfigInit
  <2>2. \E i \in DOMAIN Statics : Statics[i].name = z BY <2>1 DEF Range
  <2>3. Statics[s_datas[z]].name = z BY <2>1, <2>2
  <2> QED BY <1>2, <1>3, <1>8, <2>3
<1>9. \A t \in Threads : DOMAIN handle[t] = {} /\ at[t].pc = "idle" BY DEF ConfigInit, Idle
<1>10. LogsNames BY <1>8, <1>9 DEF LogsNames
<1>11. LogsChanges /\ LogsTold BY <1>9 DEF LogsChanges, LogsTold, Changing
<1> QED BY <1>7, <1>10, <1>11 DEF GInv

-----------------------------------------------------------------------------
(* The loggers.                                                              *)

\* The composition with the loggers is the configuration with listeners that do
\* something: every step is one of Config's or leaves it alone.
THEOREM LogImplementsConfig == Spec => ConfigSpec
<1>1. Init => ConfigInit BY DEF Init
<1>2. ASSUME [Next]_vars PROVE [ConfigNext]_configVars
  <2>1. CASE UNCHANGED vars BY <2>1 DEF vars
  <2>2. CASE Done BY <2>2 DEF Done, vars
  <2>3. ASSUME NEW t \in Threads, ConfigStep(t) PROVE ConfigNext BY <2>3 DEF ConfigNext
  <2>4. ASSUME NEW t \in Threads, Tell(t) PROVE ConfigNext BY <2>4 DEF ConfigNext, Tell
  <2>5. ASSUME NEW t \in Threads, SetFormatter(t) \/ SetLevel(t) \/ AddLogAppender(t) \/ DelLogAppender(t)
        PROVE  ConfigNext
    BY <2>5 DEF ConfigNext, SetFormatter, SetLevel, AddLogAppender, DelLogAppender, OnLogger
  <2> QED BY <1>2, <2>1, <2>2, <2>3, <2>4, <2>5 DEF Next
<1> QED BY <1>1, <1>2, PTL DEF Spec, ConfigSpec

LogRec(l) == l = [m_level |-> l.m_level, m_formatter |-> l.m_formatter, m_appenders |-> l.m_appenders]
LogRecs == \A name \in DOMAIN m_loggers : LogRec(m_loggers[name])

\* The loggers are what `val` says of them.
Agree(val) ==
  /\ \A d \in val : d.name \in DOMAIN m_loggers /\ (d.name \notin touched => AsDefined(m_loggers[d.name], d))
  /\ \A name \in DOMAIN m_loggers \ (touched \cup {d.name : d \in val} \cup {ROOT}) :
       m_loggers[name].m_level = UNKNOWM /\ m_loggers[name].m_appenders = <<>>

\* The listener's own invariant: the loggers are what it was told last.
HInv == LogRecs /\ (1 \notin mixed => Agree(told[1]["LogIniter"]))

LEMMA FormatterRec ==
  ASSUME NEW l, LogRec(l), NEW pattern
  PROVE  /\ LogRec(WithFormatter(l, pattern))
         /\ ~LogFormatter(pattern).m_error => WithFormatter(l, pattern).m_formatter = LogFormatter(pattern)
<1>1. PICK f : f = LogFormatter(pattern) OBVIOUS
<1>2. CASE f.m_error BY <1>1, <1>2 DEF WithFormatter
<1>3. CASE ~f.m_error
  <2>1. PICK as : as = [i \in DOMAIN l.m_appenders |-> [l.m_appenders[i] EXCEPT !.m_formatter = f]] OBVIOUS
  <2>2. PICK r : r = WithFormatter(l, pattern) OBVIOUS
  <2>3. r = [m_level |-> l.m_level, m_formatter |-> f, m_appenders |-> as]
    BY <1>1, <1>3, <2>1, <2>2 DEF WithFormatter, LogRec
  <2>4. r.m_level = l.m_level /\ r.m_formatter = f /\ r.m_appenders = as BY <2>3
  <2>5. LogRec(r) BY <2>3, <2>4 DEF LogRec
  <2> QED BY <1>1, <2>2, <2>4, <2>5
<1> QED BY <1>2, <1>3

\* An appender of a definition, added to a logger.
LEMMA AppenderAs ==
  ASSUME NEW l, NEW a, NEW own, own = Appender(a).m_formatter, NEW x, x = Formatted(l, Appender(a))
  PROVE  /\ x.type = a.type /\ x.file = a.file
         /\ x.m_formatter = IF own = NoFormatter THEN l.m_formatter ELSE own
<1>1. PICK b : b = Appender(a) OBVIOUS
<1>2. PICK f : f = IF a.formatter # <<>> /\ ~LogFormatter(a.formatter).m_error THEN LogFormatter(a.formatter) ELSE NoFormatter
  OBVIOUS
<1>3. b = [type |-> a.type, file |-> a.file, m_level |-> a.level, m_formatter |-> f] BY <1>1, <1>2 DEF Appender
<1>4. b.m_formatter = own /\ b.type = a.type /\ b.file = a.file /\ f = own BY <1>1, <1>3
<1>5. CASE own = NoFormatter
  <2>1. x = [b EXCEPT !.m_formatter = l.m_formatter] BY <1>1, <1>4, <1>5 DEF Formatted
  <2>2. x = [type |-> a.type, file |-> a.file, m_level |-> a.level, m_formatter |-> l.m_formatter] BY <1>3, <2>1
  <2>3. x.type = a.type /\ x.file = a.file /\ x.m_formatter = l.m_formatter BY <2>2
  <2> QED BY <1>5, <2>3
<1>6. CASE own # NoFormatter
  <2>1. x = b BY <1>1, <1>4, <1>6 DEF Formatted
  <2> QED BY <1>4, <1>6, <2>1
<1> QED BY <1>5, <1>6

\* A logger that is given a definition has what the definition says, whatever it
\* was before.
LEMMA DefinedAs ==
  ASSUME NEW l, LogRec(l), NEW d
  PROVE  LogRec(Defined(l, d)) /\ AsDefined(Defined(l, d), d)
<1>1. PICK base : base = IF d.formatter = <<>> THEN l ELSE WithFormatter(l, d.formatter) OBVIOUS
<1>2. LogRec(base) BY <1>1, FormatterRec
<1>3. d.formatter # <<>> /\ ~LogFormatter(d.formatter).m_error => base.m_formatter = LogFormatter(d.formatter)
  BY <1>1, FormatterRec
<1>4. PICK as : as = [i \in DOMAIN d.appenders |-> Formatted(base, Appender(d.appenders[i]))] OBVIOUS
<1>5. PICK r : r = Defined(l, d) OBVIOUS
<1>6. r = [m_level |-> d.level, m_formatter |-> base.m_formatter, m_appenders |-> as]
  BY <1>1, <1>2, <1>4, <1>5 DEF Defined, LogRec
<1>7. r.m_level = d.level /\ r.m_formatter = base.m_formatter /\ r.m_appenders = as BY <1>6
<1>8. LogRec(r) BY <1>6, <1>7 DEF LogRec
<1>9. DOMAIN as = DOMAIN d.appenders BY <1>4
<1>10. ASSUME NEW i \in DOMAIN d.appenders, NEW own, own = Appender(d.appenders[i]).m_formatter
       PROVE  /\ as[i].type = d.appenders[i].type /\ as[i].file = d.appenders[i].file
              /\ as[i].m_formatter = IF own = NoFormatter THEN base.m_formatter ELSE own
  <2>1. PICK a, x : a = d.appenders[i] /\ x = as[i] OBVIOUS
  <2>2. x = Formatted(base, Appender(a)) BY <1>4, <2>1
  <2>3. own = Appender(a).m_formatter BY <1>10, <2>1
  <2>4. /\ x.type = a.type /\ x.file = a.file
        /\ x.m_formatter = IF own = NoFormatter THEN base.m_formatter ELSE own
    BY <2>2, <2>3, AppenderAs
  <2> QED BY <2>1, <2>4
<1>11. AsDefined(r, d) BY <1>3, <1>7, <1>9, <1>10 DEF AsDefined
<1> QED BY <1>5, <1>8, <1>11

LEMMA NewLogRec == LogRec(NewLogger)
<1>1. PICK l : l = NewLogger OBVIOUS
<1>2. l = [m_level |-> DEBUG, m_formatter |-> DefaultFormatter, m_appenders |-> <<>>] BY <1>1 DEF NewLogger
<1>3. l.m_level = DEBUG /\ l.m_formatter = DefaultFormatter /\ l.m_appenders = <<>> BY <1>2
<1> QED BY <1>1, <1>2, <1>3 DEF LogRec

LEMMA GetRec == ASSUME LogRecs, NEW name PROVE LogRec(getLogger(m_loggers, name))
BY NewLogRec DEF LogRecs, getLogger

\* The names that a change from `old` to `new` gives another definition, and those
\* it leaves without one.
NewNames(old, new) == {d.name : d \in new \ old}
GoneNames(old, new) == {d.name : d \in old} \ {d.name : d \in new}

\* What LogIniter's listener does of a change from `old` to `new`: it gives the
\* loggers of `names` their definitions, and takes everything from the `gone`.
LEMMA IniterDoes ==
  ASSUME LogRecs, NEW old, NEW new, OneEach(new), m_loggers' = LogIniter(m_loggers, old, new)
  PROVE  /\ DOMAIN m_loggers' = DOMAIN m_loggers \cup NewNames(old, new) \cup GoneNames(old, new)
         /\ LogRecs'
         /\ \A d \in new : d.name \in NewNames(old, new) => AsDefined(m_loggers'[d.name], d)
         /\ \A name \in GoneNames(old, new) : name \notin NewNames(old, new) =>
              m_loggers'[name].m_level = UNKNOWM /\ m_loggers'[name].m_appenders = <<>>
         /\ \A name \in DOMAIN m_loggers' : name \notin NewNames(old, new) /\ name \notin GoneNames(old, new) =>
              name \in DOMAIN m_loggers /\ m_loggers'[name] = m_loggers[name]
<1>1. PICK names, gone : names = NewNames(old, new) /\ gone = GoneNames(old, new) OBVIOUS
<1>2. PICK dom : dom = DOMAIN m_loggers \cup names \cup gone OBVIOUS
<1>3. /\ DOMAIN m_loggers' = dom
      /\ \A name \in dom : m_loggers'[name] =
           IF name \in names THEN Defined(getLogger(m_loggers, name), CHOOSE d \in new : d.name = name)
           ELSE IF name \in gone THEN [getLogger(m_loggers, name) EXCEPT !.m_level = UNKNOWM, !.m_appenders = <<>>]
           ELSE m_loggers[name]
  <2> DEFINE Names == {d.name : d \in new \ old}
             Gone == {d.name : d \in old} \ {d.name : d \in new}
             To(name) == IF name \in Names THEN Defined(getLogger(m_loggers, name), CHOOSE d \in new : d.name = name)
                         ELSE IF name \in Gone THEN [getLogger(m_loggers, name) EXCEPT !.m_level = UNKNOWM, !.m_appenders = <<>>]
                         ELSE m_loggers[name]
  <2>1. LogIniter(m_loggers, old, new) = [name \in DOMAIN m_loggers \cup Names \cup Gone |-> To(name)]
    BY DEF LogIniter
  <2>2. names = Names /\ gone = Gone BY <1>1 DEF NewNames, GoneNames
  <2>3. \A name : To(name) =
           IF name \in names THEN Defined(getLogger(m_loggers, name), CHOOSE d \in new : d.name = name)
           ELSE IF name \in gone THEN [getLogger(m_loggers, name) EXCEPT !.m_level = UNKNOWM, !.m_appenders = <<>>]
           ELSE m_loggers[name]
    BY <2>2
  <2> HIDE DEF Names, Gone, To
  <2>4. m_loggers' = [name \in dom |-> To(name)] BY <1>2, <2>1, <2>2
  <2>5. DOMAIN m_loggers' = dom /\ \A name \in dom : m_loggers'[name] = To(name) BY <2>4
  <2> QED BY <2>3, <2>5
<1>4. ASSUME NEW name \in names
      PROVE  LogRec(m_loggers'[name]) /\ \A d \in new : d.name = name => AsDefined(m_loggers'[name], d)
  <2>1. PICK d \in new : d.name = name BY <1>1 DEF NewNames
  <2>2. (CHOOSE e \in new : e.name = name) = d BY <2>1 DEF OneEach
  <2>3. m_loggers'[name] = Defined(getLogger(m_loggers, name), d) BY <1>2, <1>3, <2>2
  <2>4. LogRec(m_loggers'[name]) /\ AsDefined(m_loggers'[name], d) BY <2>3, GetRec, DefinedAs
  <2> QED BY <2>1, <2>4 DEF OneEach
<1>5. ASSUME NEW name \in gone, name \notin names
      PROVE  /\ LogRec(m_loggers'[name])
             /\ m_loggers'[name].m_level = UNKNOWM /\ m_loggers'[name].m_appenders = <<>>
  <2>1. PICK l, r : l = getLogger(m_loggers, name) /\ r = m_loggers'[name] OBVIOUS
  <2>2. LogRec(l) BY <2>1, GetRec
  <2>3. r = [l EXCEPT !.m_level = UNKNOWM, !.m_appenders = <<>>] BY <1>2, <1>3, <1>5, <2>1
  <2>4. r = [m_level |-> UNKNOWM, m_formatter |-> l.m_formatter, m_appenders |-> <<>>] BY <2>2, <2>3 DEF LogRec
  <2>5. r.m_level = UNKNOWM /\ r.m_formatter = l.m_formatter /\ r.m_appenders = <<>> BY <2>4
  <2> QED BY <2>1, <2>4, <2>5 DEF LogRec
<1>6. ASSUME NEW name \in dom, name \notin names, name \notin gone
      PROVE  name \in DOMAIN m_loggers /\ m_loggers'[name] = m_loggers[name]
  BY <1>2, <1>3, <1>6
<1>7. LogRecs'
  <2>1. ASSUME NEW name \in dom PROVE LogRec(m_loggers'[name])
    BY <1>4, <1>5, <1>6 DEF LogRecs
  <2> QED BY <1>3, <2>1 DEF LogRecs
<1>8. \A d \in new : d.name \in names => AsDefined(m_loggers'[d.name], d) BY <1>4
<1>9. DOMAIN m_loggers' = dom BY <1>3
<1> QED BY <1>1, <1>2, <1>5, <1>6, <1>7, <1>8, <1>9

\* If the loggers were what one of the two says, they now are what `new` says.
LEMMA IniterAgrees ==
  ASSUME LogRecs, NEW old, NEW new, OneEach(new), Agree(old) \/ Agree(new),
         m_loggers' = LogIniter(m_loggers, old, new), touched' = touched
  PROVE  Agree(new)'
<1>1. PICK names, gone : names = NewNames(old, new) /\ gone = GoneNames(old, new) OBVIOUS
<1>2. PICK dom : dom = DOMAIN m_loggers \cup names \cup gone OBVIOUS
<1>3. /\ DOMAIN m_loggers' = dom /\ LogRecs'
      /\ \A d \in new : d.name \in names => AsDefined(m_loggers'[d.name], d)
      /\ \A name \in gone : name \notin names =>
           m_loggers'[name].m_level = UNKNOWM /\ m_loggers'[name].m_appenders = <<>>
      /\ \A name \in dom : name \notin names /\ name \notin gone =>
           name \in DOMAIN m_loggers /\ m_loggers'[name] = m_loggers[name]
  <2>1. /\ DOMAIN m_loggers' = DOMAIN m_loggers \cup NewNames(old, new) \cup GoneNames(old, new)
        /\ LogRecs'
        /\ \A d \in new : d.name \in NewNames(old, new) => AsDefined(m_loggers'[d.name], d)
        /\ \A name \in GoneNames(old, new) : name \notin NewNames(old, new) =>
             m_loggers'[name].m_level = UNKNOWM /\ m_loggers'[name].m_appenders = <<>>
        /\ \A name \in DOMAIN m_loggers' : name \notin NewNames(old, new) /\ name \notin GoneNames(old, new) =>
             name \in DOMAIN m_loggers /\ m_loggers'[name] = m_loggers[name]
    BY IniterDoes, Zenon
  <2>2. DOMAIN m_loggers' = dom BY <1>1, <1>2, <2>1
  <2> QED BY <1>1, <2>1, <2>2
<1>8. ASSUME NEW d \in new
      PROVE  d.name \in dom /\ (d.name \notin touched => AsDefined(m_loggers'[d.name], d))
  <2>1. CASE d.name \in names BY <1>2, <1>3, <2>1
  <2>2. CASE d.name \notin names
    <3>1. d \in old BY <1>1, <2>2 DEF NewNames
    <3>2. d.name \notin gone BY <1>1 DEF GoneNames
    <3>3. d.name \in DOMAIN m_loggers /\ (d.name \notin touched => AsDefined(m_loggers[d.name], d))
      BY <3>1 DEF Agree
    <3>4. d.name \in dom BY <1>2, <3>3
    <3> QED BY <1>3, <2>2, <3>2, <3>3, <3>4
  <2> QED BY <2>1, <2>2
<1>9. ASSUME NEW name \in dom \ (touched \cup {d.name : d \in new} \cup {ROOT})
      PROVE  m_loggers'[name].m_level = UNKNOWM /\ m_loggers'[name].m_appenders = <<>>
  <2>1. name \notin names BY <1>1 DEF NewNames
  <2>2. CASE name \in gone BY <1>3, <2>1, <2>2
  <2>3. CASE name \notin gone
    <3>1. name \in DOMAIN m_loggers /\ m_loggers'[name] = m_loggers[name] BY <1>3, <2>1, <2>3
    <3>2. name \notin {d.name : d \in old} BY <1>1, <2>3 DEF GoneNames
    <3>3. m_loggers[name].m_level = UNKNOWM /\ m_loggers[name].m_appenders = <<>> BY <3>1, <3>2 DEF Agree
    <3> QED BY <3>1, <3>3
  <2> QED BY <2>2, <2>3
<1>10. Agree(new)' BY <1>3, <1>8, <1>9 DEF Agree
<1> QED BY <1>10

LEMMA TouchStep ==
  ASSUME HInv, NEW t \in Threads, NEW l, LogRec(l), Touch(t, l), UNCHANGED <<told, mixed>>
  PROVE  HInv'
<1>1. PICK name : name = Args(t).logger OBVIOUS
<1>2. m_loggers' = Set1(m_loggers, name, l) /\ touched' = touched \cup {name} BY <1>1 DEF Touch
<1>3. /\ DOMAIN m_loggers' = DOMAIN m_loggers \cup {name} /\ m_loggers'[name] = l
      /\ \A x \in DOMAIN m_loggers : x # name => m_loggers'[x] = m_loggers[x]
  BY <1>2 DEF Set1
<1>4. LogRecs' BY <1>3 DEF HInv, LogRecs
<1>5. ASSUME NEW val, Agree(val) PROVE Agree(val)'
  <2>1. ASSUME NEW d \in val PROVE d.name \in DOMAIN m_loggers' /\ (d.name \notin touched' => AsDefined(m_loggers'[d.name], d))
    <3>1. d.name \in DOMAIN m_loggers /\ (d.name \notin touched => AsDefined(m_loggers[d.name], d)) BY <1>5 DEF Agree
    <3>2. CASE d.name = name BY <1>2, <1>3, <3>2
    <3>3. CASE d.name # name BY <1>2, <1>3, <3>1, <3>3
    <3> QED BY <3>2, <3>3
  <2>2. ASSUME NEW x \in DOMAIN m_loggers' \ (touched' \cup {d.name : d \in val} \cup {ROOT})
        PROVE  m_loggers'[x].m_level = UNKNOWM /\ m_loggers'[x].m_appenders = <<>>
    <3>1. x \in DOMAIN m_loggers \ (touched \cup {d.name : d \in val} \cup {ROOT}) /\ x # name BY <1>2, <1>3
    <3>2. m_loggers'[x] = m_loggers[x] BY <1>3, <3>1
    <3> QED BY <1>5, <3>1, <3>2 DEF Agree
  <2> QED BY <2>1, <2>2 DEF Agree
<1>6. PICK val : val = told[1]["LogIniter"] /\ val = told'[1]["LogIniter"] OBVIOUS
<1> QED BY <1>4, <1>5, <1>6 DEF HInv

LEMMA AppenderRec == ASSUME NEW l, LogRec(l), NEW a PROVE LogRec(WithAppender(l, a))
<1>1. PICK as, r : as = Append(l.m_appenders, Formatted(l, a)) /\ r = WithAppender(l, a) OBVIOUS
<1>2. r = [m_level |-> l.m_level, m_formatter |-> l.m_formatter, m_appenders |-> as]
  BY <1>1 DEF WithAppender, LogRec
<1>3. r.m_level = l.m_level /\ r.m_formatter = l.m_formatter /\ r.m_appenders = as BY <1>2
<1> QED BY <1>1, <1>2, <1>3 DEF LogRec

LEMMA OnLoggerOK ==
  ASSUME HInv, NEW t \in Threads, SetFormatter(t) \/ SetLevel(t) \/ AddLogAppender(t) \/ DelLogAppender(t)
  PROVE  HInv'
<1>1. PICK l : l = Target(t) /\ LogRec(l) BY GetRec DEF HInv, Target
<1>2. l = [m_level |-> l.m_level, m_formatter |-> l.m_formatter, m_appenders |-> l.m_appenders] BY <1>1 DEF LogRec
<1>3. UNCHANGED <<told, mixed>>
  BY DEF SetFormatter, SetLevel, AddLogAppender, DelLogAppender, OnLogger, Elsewhere
<1>4. ASSUME NEW r, LogRec(r), Touch(t, r) PROVE HInv' BY <1>3, <1>4, TouchStep
<1>5. CASE SetFormatter(t)
  <2>1. PICK r : r = WithFormatter(l, Args(t).pattern) OBVIOUS
  <2>2. LogRec(r) BY <1>1, <2>1, FormatterRec
  <2> QED BY <1>1, <1>4, <1>5, <2>1, <2>2 DEF SetFormatter
<1>6. CASE SetLevel(t)
  <2>1. PICK r : r = [l EXCEPT !.m_level = Args(t).level] OBVIOUS
  <2>2. r = [m_level |-> Args(t).level, m_formatter |-> l.m_formatter, m_appenders |-> l.m_appenders] BY <1>2, <2>1
  <2>3. r.m_level = Args(t).level /\ r.m_formatter = l.m_formatter /\ r.m_appenders = l.m_appenders BY <2>2
  <2>4. LogRec(r) BY <2>2, <2>3 DEF LogRec
  <2> QED BY <1>1, <1>4, <1>6, <2>1, <2>4 DEF SetLevel
<1>7. CASE AddLogAppender(t)
  <2>1. PICK r : r = WithAppender(l, Args(t).appender) OBVIOUS
  <2>2. LogRec(r) BY <1>1, <2>1, AppenderRec
  <2> QED BY <1>1, <1>4, <1>7, <2>1, <2>2 DEF AddLogAppender
<1>8. CASE DelLogAppender(t)
  <2>1. PICK r : r = [l EXCEPT !.m_appenders = IF @ = <<>> THEN @ ELSE Tail(@)] OBVIOUS
  <2>2. PICK as : as = IF l.m_appenders = <<>> THEN l.m_appenders ELSE Tail(l.m_appenders) OBVIOUS
  <2>3. r = [m_level |-> l.m_level, m_formatter |-> l.m_formatter, m_appenders |-> as] BY <1>2, <2>1, <2>2
  <2>4. r.m_level = l.m_level /\ r.m_formatter = l.m_formatter /\ r.m_appenders = as BY <2>3
  <2>5. LogRec(r) BY <2>3, <2>4 DEF LogRec
  <2> QED BY <1>1, <1>4, <1>8, <2>1, <2>5 DEF DelLogAppender
<1> QED BY <1>5, <1>6, <1>7, <1>8

LEMMA LoggersSame ==
  ASSUME HInv, UNCHANGED <<m_loggers, touched>>, 1 \notin mixed' => 1 \notin mixed /\ told'[1]["LogIniter"] = told[1]["LogIniter"]
  PROVE  HInv'
<1>1. LogRecs' BY DEF HInv, LogRecs
<1>2. \A val : Agree(val) => Agree(val)' BY DEF Agree
<1>3. ASSUME 1 \notin mixed' PROVE Agree(told[1]["LogIniter"])'
  <2>1. PICK val : val = told[1]["LogIniter"] /\ val = told'[1]["LogIniter"] BY <1>3
  <2> QED BY <1>2, <1>3, <2>1 DEF HInv
<1> QED BY <1>1, <1>3 DEF HInv

\* The steps without listeners tell none.
LEMMA LogsToldConfig ==
  ASSUME IInv, GInv, NEW t \in Threads, ConfigStep(t), 1 \notin mixed'
  PROVE  1 \notin mixed /\ told'[1]["LogIniter"] = told[1]["LogIniter"]
<1>1. AnyStep(t) BY DEF AnyStep
<1>2. CASE ~Notify(t) BY <1>1, <1>2, LogsToldSame
<1>3. CASE Notify(t)
  <2>1. at[t].pc = "notify" /\ at[t].todo # <<>> BY <1>3 DEF Notify
  <2>2. at[t] # Idle BY <2>1 DEF Idle
  <2>3. \A op : ~Call(t, op) BY <2>2 DEF Call
  <2> QED BY <2>1, <2>3 DEF ConfigStep, Lookup, Find, AddListener, DelListener, ClearListener, Locked, SetValue,
        Unlock, Assign, LoadFromYaml, LoadNext
<1> QED BY <1>2, <1>3

LEMMA TellOK == ASSUME IInv, GInv, HInv, NEW t \in Threads, Tell(t) PROVE HInv'
<1>1. AnyStep(t) /\ Notify(t) /\ mixed' = mixed /\ touched' = touched BY DEF Tell, AnyStep, Notify
<1>2. CASE ~(at[t].var = 1 /\ at[t].todo[1] = "LogIniter")
  <2>1. m_loggers' = m_loggers BY <1>2 DEF Tell
  <2>2. 1 \notin mixed' => 1 \notin mixed /\ told'[1]["LogIniter"] = told[1]["LogIniter"]
    BY <1>1, <1>2, LogsToldSame
  <2> QED BY <1>1, <2>1, <2>2, LoggersSame
<1>3. CASE at[t].var = 1 /\ at[t].todo[1] = "LogIniter"
  <2>1. PICK old, new : old = cvars[1].m_val /\ new = at[t].val OBVIOUS
  <2>2. m_loggers' = LogIniter(m_loggers, old, new) BY <1>3, <2>1 DEF Tell
  <2>3. t \in Changing(1) BY <1>1, <1>3 DEF Notify, Changing
  <2>4. OneEach(new) BY <2>1, <2>3 DEF GInv, LogsChanges
  <2>r. LogRecs' BY <2>2, <2>4, IniterDoes DEF HInv
  <2>5. CASE 1 \notin mixed
    <3>1. Agree(old) \/ Agree(new) BY <2>1, <2>3, <2>5 DEF GInv, LogsTold, HInv
    <3>2. Agree(new)' BY <1>1, <2>2, <2>4, <3>1, IniterAgrees DEF HInv
    <3>3. told'[1]["LogIniter"] = new
      <4>1. IsSeq(told) /\ 1 \in 1..Len(told) /\ "LogIniter" \in DOMAIN told[1]
        BY DEF IInv, VarsOK, GInv, LogsVar
      <4>2. PICK g : g = [told[1] EXCEPT !["LogIniter"] = new] OBVIOUS
      <4>3. told' = [told EXCEPT ![1] = g] BY <1>1, <1>3, <2>1, <4>2 DEF Notify
      <4>4. told'[1] = g BY <4>1, <4>3, ToldReplaced
      <4> QED BY <4>1, <4>2, <4>4
    <3> QED BY <2>r, <3>2, <3>3 DEF HInv
  <2>6. CASE 1 \in mixed BY <1>1, <2>r, <2>6 DEF HInv
  <2> QED BY <2>5, <2>6
<1> QED BY <1>2, <1>3

LEMMA LogsInv == ConfigSpec => [](IInv /\ LInv /\ GInv)
<1>1. ConfigInit => GInv BY LogsInit
<1>2. ASSUME IInv, LInv, GInv, [ConfigNext]_configVars PROVE GInv'
  <2>1. CASE UNCHANGED configVars
    <3>1. UNCHANGED <<at, handle, s_datas, cvars, told, mixed>> BY <2>1 DEF configVars, threads
    <3>2. LogsVar' /\ LogsNames' BY <1>2, <3>1 DEF GInv, LogsVar, LogsNames
    <3>3. LogsChanges' BY <1>2, <3>1 DEF GInv, LogsChanges, Changing
    <3>4. LogsTold' BY <1>2, <3>1 DEF GInv, LogsTold, Changing
    <3> QED BY <3>2, <3>3, <3>4 DEF GInv
  <2>2. ASSUME NEW t \in Threads, AnyStep(t) PROVE GInv'
    <3>1. LogsVar' BY <1>2, <2>2, LogsVarStep DEF LInv
    <3>2. LogsNames' BY <1>2, <2>2, LogsNamesStep
    <3>3. LogsChanges' BY <1>2, <2>2, LogsChangesStep DEF LInv
    <3>4. LogsTold' BY <1>2, <2>2, LogsToldStep DEF LInv
    <3> QED BY <3>1, <3>2, <3>3, <3>4 DEF GInv
  <2> QED BY <1>2, <2>1, <2>2 DEF ConfigNext, AnyStep
<1> QED BY <1>1, <1>2, ConfigLoadInv, PTL DEF ConfigSpec

LEMMA LoggersInit == ASSUME Init PROVE HInv
<1>1. PICK l : l = WithAppender(NewLogger,
        [type |-> "StdoutLogAppender", file |-> "", m_level |-> DEBUG, m_formatter |-> NoFormatter]) OBVIOUS
<1>2. LogRec(l) BY <1>1, NewLogRec, AppenderRec
<1>3. DOMAIN m_loggers = {ROOT} /\ m_loggers[ROOT] = l BY <1>1 DEF Init
<1>4. LogRecs BY <1>2, <1>3 DEF LogRecs
<1>5. told[1]["LogIniter"] = {}
  <2>1. PICK s : s = Statics[1] OBVIOUS
  <2>2. s.cbs = <<"LogIniter">> /\ s.val = {} BY <2>1, LogAssumption DEF LogStatics
  <2>3. 1 \in DOMAIN Statics
    <3>1. Statics \in Seq(Range(Statics)) /\ Statics # <<>> BY StaticsAssumption, LogAssumption
    <3> QED BY <3>1
  <2>4. "LogIniter" \in Range(s.cbs)
    <3>1. s.cbs[1] = "LogIniter" /\ 1 \in DOMAIN s.cbs BY <2>2
    <3> QED BY <3>1 DEF Range
  <2>5. told[1] = [cb \in Range(s.cbs) |-> s.val] BY <2>1, <2>3 DEF Init, ConfigInit
  <2> QED BY <2>2, <2>4, <2>5
<1>6. Agree({}) BY <1>3 DEF Agree
<1> QED BY <1>4, <1>5, <1>6 DEF HInv

\* After any number of loads and settings of "logs", by any threads, the loggers
\* that nobody changes directly are what their definitions say - those that are
\* defined no more have neither level nor appenders - unless a change of "logs"
\* met another call.  The inductive invariant: the loggers agree with what the
\* listener was told last, and that is the old value or the one about to be
\* assigned.
THEOREM LogLoggersAgree == Spec => []LoggersAgree
<1>1. Init => HInv BY LoggersInit
<1>2. ASSUME IInv, LInv, GInv, HInv, [Next]_vars PROVE HInv'
  <2>1. CASE UNCHANGED vars
    <3>1. UNCHANGED <<m_loggers, touched, told, mixed>> BY <2>1 DEF vars, configVars
    <3> QED BY <1>2, <3>1, LoggersSame
  <2>2. CASE Done
    <3>1. UNCHANGED <<m_loggers, touched, told, mixed>> BY <2>2 DEF Done, vars, configVars
    <3> QED BY <1>2, <3>1, LoggersSame
  <2>3. ASSUME NEW t \in Threads, ConfigStep(t), UNCHANGED <<m_loggers, touched>> PROVE HInv'
    <3>3. 1 \notin mixed' => 1 \notin mixed /\ told'[1]["LogIniter"] = told[1]["LogIniter"]
      BY <1>2, <2>3, LogsToldConfig
    <3> QED BY <1>2, <2>3, <3>3, LoggersSame
  <2>4. ASSUME NEW t \in Threads, Tell(t) PROVE HInv' BY <1>2, <2>4, TellOK
  <2>5. ASSUME NEW t \in Threads, SetFormatter(t) \/ SetLevel(t) \/ AddLogAppender(t) \/ DelLogAppender(t)
        PROVE  HInv'
    BY <1>2, <2>5, OnLoggerOK
  <2> QED BY <1>2, <2>1, <2>2, <2>3, <2>4, <2>5 DEF Next
<1>3. ASSUME IInv, GInv, HInv PROVE LoggersAgree
  <2> SUFFICES ASSUME 1 \notin mixed, Changing(1) = {} PROVE Agree(cvars[1].m_val)
    BY DEF LoggersAgree, Agree
  <2>1. told[1]["LogIniter"] = cvars[1].m_val BY <1>3 DEF IInv, FollowOK, Follows, GInv, LogsVar
  <2> QED BY <1>3, <2>1 DEF HInv
<1> QED BY <1>1, <1>2, <1>3, LogsInv, LogImplementsConfig, PTL DEF Spec

\* The conversion of a text to "logs" is what LogAssumption takes it for, whatever
\* the results of the elements are: an exception, or a set with one definition of a
\* name (std::set<LogDefine> keeps the first).
THEOREM LogSetHasOneEach ==
  ASSUME NEW keys, NEW results, IsSeq(results),
         \A i \in 1..Len(results) : results[i] \in {BAD, THROWN} \/ results[i].is = "value",
         NEW r, r = Container(LogsType, keys, results), Converts(r)
  PROVE  OneEach(r.val)
<1> DEFINE I == {i \in 1..Len(results) : results[i].is # "value"}
<1>1. PICK n \in Nat : n = Len(results) /\ DOMAIN results = 1..n BY SeqDomain
<1>2. LogsType.is = "set" /\ LogsType.of.is = "LogDefine" BY DEF LogsType, Of, Type
<1>3. PICK vals : vals = [i \in 1..n |-> results[i].val] OBVIOUS
<1>4. PICK fresh : fresh = {i \in 1..n : \A j \in 1..i - 1 : ~SameKey(LogsType.of, vals[i], vals[j])} OBVIOUS
<1>5. PICK bad : bad = SelectInSeq(results, LAMBDA x : x.is # "value") OBVIOUS
<1>6. r = IF bad > 0 THEN results[bad] ELSE Value({vals[i] : i \in fresh})
  <2>1. DOMAIN vals = 1..n BY <1>3
  <2> QED BY <1>1, <1>2, <1>3, <1>4, <1>5, <2>1 DEF Container
<1>7. CASE bad > 0
  <2>1. I # {} /\ bad = Min(I) BY <1>5, <1>7 DEF SelectInSeq
  <2>2. bad \in I
    <3>1. I \subseteq Nat BY <1>1
    <3> HIDE DEF I
    <3> QED BY <2>1, <3>1, LeastOfNat
  <2>3. results[bad] \in {BAD, THROWN} BY <2>2
  <2> QED BY <1>6, <1>7, <2>3 DEF Converts
<1>8. CASE ~(bad > 0)
  <2>1. r.val = {vals[i] : i \in fresh} BY <1>6, <1>8 DEF Value
  <2>2. ASSUME NEW i \in fresh, NEW j \in fresh, vals[i].name = vals[j].name PROVE i = j
    <3>1. i \in 1..n /\ j \in 1..n BY <1>4
    <3>2. SameKey(LogsType.of, vals[i], vals[j]) /\ SameKey(LogsType.of, vals[j], vals[i])
      BY <1>2, <2>2 DEF SameKey
    <3>3. ~(i < j)
      <4>1. i < j => i \in 1..j - 1 BY <3>1
      <4> QED BY <1>4, <3>2, <4>1
    <3>4. ~(j < i)
      <4>1. j < i => j \in 1..i - 1 BY <3>1
      <4> QED BY <1>4, <3>2, <4>1
    <3> QED BY <3>1, <3>3, <3>4
  <2> QED BY <2>1, <2>2 DEF OneEach
<1> QED BY <1>7, <1>8
=============================================================================
