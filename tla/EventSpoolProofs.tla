-------------------------- MODULE EventSpoolProofs --------------------------
(***************************************************************************)
(* Proofs about EventSpool, for any number of events, size of the queue,   *)
(* tokens, failing statements and restarts.                                *)
(***************************************************************************)
EXTENDS EventSpool, FiniteSetTheorems, SequenceTheorems, TLAPS

-----------------------------------------------------------------------------
(* Queue entries.                                                          *)

\* The image of a finite set under a function is finite and no larger.
LEMMA ImageBound ==
  ASSUME NEW S, IsFiniteSet(S), NEW f, f = [x \in S |-> f[x]]
  PROVE  /\ IsFiniteSet({f[x] : x \in S})
         /\ Cardinality({f[x] : x \in S}) <= Cardinality(S)
<1> DEFINE T == {f[x] : x \in S}
<1>1. f \in Surjection(S, T)
  BY DEF Surjection
<1> QED BY <1>1, FS_Surjection

\* Cutting from the front takes entries of the queue.
LEMMA FrontsInside ==
  ASSUME NEW S, NEW k, NEW P \in Fronts(S, k)
  PROVE  P \subseteq S
BY DEF Fronts

\* Removing entries leaves a queue; joining two queues gives a queue.
LEMMA BatchesClosed ==
  ASSUME NEW Ev, NEW S \in Batches(Ev), NEW T \in Batches(Ev), NEW U
  PROVE  S \ U \in Batches(Ev) /\ S \cup T \in Batches(Ev)
<1>1. IsFiniteSet(S \ U)
  BY FS_Difference, FS_Subset DEF Batches
<1>2. IsFiniteSet(S \cup T)
  BY FS_Union DEF Batches
<1> QED BY <1>1, <1>2 DEF Batches

\* push_back of a batch keeps its events and its size.
LEMMA RepositionedFacts ==
  ASSUME NEW Ev, NEW B \in Batches(Ev), NEW base \in Nat
  PROVE  /\ Repositioned(B, base) \in Batches(Ev)
         /\ Ids(Repositioned(B, base)) = Ids(B)
         /\ Cardinality(Repositioned(B, base)) <= Cardinality(B)
<1> DEFINE pos(q) == base + Cardinality({r \in B : r.n < q.n})
           f == [q \in B |-> [n |-> pos(q), e |-> q.e]]
<1>1. IsFiniteSet(B) /\ B \subseteq Entry(Ev)
  BY DEF Batches
<1>2. Repositioned(B, base) = {f[q] : q \in B}
  BY DEF Repositioned
<1>3. IsFiniteSet({f[q] : q \in B}) /\ Cardinality({f[q] : q \in B}) <= Cardinality(B)
  <2> HIDE DEF pos
  <2>1. f = [q \in B |-> f[q]]
    OBVIOUS
  <2> HIDE DEF f
  <2> QED BY <1>1, <2>1, ImageBound
<1>4. \A q \in B : pos(q) \in Nat
  <2> TAKE q \in B
  <2>1. {r \in B : r.n < q.n} \in SUBSET B
    OBVIOUS
  <2>2. Cardinality({r \in B : r.n < q.n}) \in Nat
    BY <1>1, <2>1, FS_Subset, FS_CardinalityType
  <2> QED BY <2>2
<1>5. Repositioned(B, base) \subseteq Entry(Ev)
  <2> HIDE DEF pos
  <2> QED BY <1>1, <1>2, <1>4 DEF Entry
<1>6. Ids(Repositioned(B, base)) = Ids(B)
  <2> HIDE DEF pos
  <2>1. \A q \in B : f[q].e = q.e
    OBVIOUS
  <2> HIDE DEF f
  <2> QED BY <1>2, <2>1 DEF Ids
<1> HIDE DEF pos, f
<1> QED BY <1>2, <1>3, <1>5, <1>6 DEF Batches

\* Reading rows back, or taking a collector's events, makes a queue of them.
LEMMA InTimeOrderFacts ==
  ASSUME NEW Ev \in SUBSET Nat, NEW E \in SUBSET Ev, IsFiniteSet(E)
  PROVE  /\ InTimeOrder(E) \in Batches(Ev)
         /\ Ids(InTimeOrder(E)) = E
         /\ Cardinality(InTimeOrder(E)) <= Cardinality(E)
<1> DEFINE f == [x \in E |-> [n |-> x, e |-> x]]
<1>1. InTimeOrder(E) = {f[x] : x \in E}
  BY DEF InTimeOrder
<1>2. f = [x \in E |-> f[x]]
  OBVIOUS
<1>3. \A x \in E : f[x].e = x /\ f[x] \in Entry(Ev)
  BY DEF Entry
<1> HIDE DEF f
<1>4. IsFiniteSet({f[x] : x \in E}) /\ Cardinality({f[x] : x \in E}) <= Cardinality(E)
  BY <1>2, ImageBound
<1>5. Ids(InTimeOrder(E)) = E
  <2>1. \A x \in E : f[x] \in InTimeOrder(E)
    BY <1>1
  <2>2. E \subseteq Ids(InTimeOrder(E))
    BY <1>3, <2>1 DEF Ids
  <2>3. Ids(InTimeOrder(E)) \subseteq E
    BY <1>1, <1>3 DEF Ids
  <2> QED BY <2>2, <2>3
<1>6. InTimeOrder(E) \subseteq Entry(Ev)
  BY <1>1, <1>3
<1> QED BY <1>1, <1>4, <1>5, <1>6 DEF Batches

-----------------------------------------------------------------------------
(* What the statements of a script will do.                                *)

Stmts(t)       == {t[i] : i \in 1..Len(t)}
Has(t, op)     == \E x \in Stmts(t) : x.op = op
Deletes(t, e)  == \E x \in Stmts(t) : x.op = "delete" /\ e \in x.ids
Inserts(t, e)  == \E x \in Stmts(t) : x.op = "insert" /\ e \in x.ids

\* Nothing is deleted once something was inserted.
Ordered(t) == \A i, j \in 1..Len(t) : i < j /\ t[i].op = "insert" => t[j].op # "delete"

\* The last statement refreshes the pending count.
CountsLast(t) == t # <<>> => t[Len(t)].op = "meta"

\* Only deletions go row by row.
Plain(t) == \A x \in Stmts(t) : x.each => x.op = "delete"

\* The statements of an operation, or the rest of them.
Script(t) == t \in Seq(Stmt) /\ Ordered(t) /\ CountsLast(t) /\ Plain(t)

\* Event ids are finitely many natural numbers.
LEMMA IdsFinite ==
  /\ AllIds \in SUBSET Nat /\ Events \in SUBSET AllIds /\ Alarms \in SUBSET AllIds
  /\ \A E \in SUBSET AllIds : IsFiniteSet(E) /\ Cardinality(E) \in Nat
<1>1. AllIds \in SUBSET Nat /\ Events \in SUBSET AllIds /\ Alarms \in SUBSET AllIds
  BY SpoolAssumption DEF AllIds, Events, Alarms
<1>2. IsFiniteSet(Events) /\ IsFiniteSet(Alarms)
  BY SpoolAssumption, FS_Interval DEF Events, Alarms
<1>3. IsFiniteSet(AllIds)
  BY <1>2, FS_Union DEF AllIds
<1>4. \A E \in SUBSET AllIds : IsFiniteSet(E)
  BY <1>3, FS_Subset
<1> QED BY <1>1, <1>4, FS_CardinalityType

\* The statements of the operations are statements.
LEMMA StmtTypes ==
  /\ \A ids \in SUBSET AllIds : Delete(ids) \in Stmt /\ DeleteEach(ids) \in Stmt
                                  /\ Insert(ids) \in Stmt
  /\ DeleteAll \in Stmt /\ UpdateMeta \in Stmt /\ RequireMeta \in Stmt
BY DEF Stmt, Delete, DeleteEach, Insert, DeleteAll, UpdateMeta, RequireMeta

\* The empty script.
LEMMA EmptyScript ==
  /\ Script(<<>>)
  /\ \A op : ~Has(<<>>, op)
  /\ \A e : ~Deletes(<<>>, e) /\ ~Inserts(<<>>, e)
<1>1. <<>> \in Seq(Stmt) /\ Len(<<>>) = 0
  BY EmptySeq
<1>2. Stmts(<<>>) = {}
  BY <1>1 DEF Stmts
<1> QED BY <1>1, <1>2 DEF Script, Ordered, CountsLast, Plain, Has, Deletes, Inserts

\* A script of one statement.
LEMMA OneScript ==
  ASSUME NEW s \in Stmt
  PROVE  /\ <<s>> \in Seq(Stmt) /\ Len(<<s>>) = 1 /\ <<s>> # <<>> /\ Ordered(<<s>>)
         /\ CountsLast(<<s>>) <=> s.op = "meta"
         /\ Plain(<<s>>) <=> (s.each => s.op = "delete")
         /\ \A op : Has(<<s>>, op) <=> s.op = op
         /\ \A e : Deletes(<<s>>, e) <=> s.op = "delete" /\ e \in s.ids
         /\ \A e : Inserts(<<s>>, e) <=> s.op = "insert" /\ e \in s.ids
<1>1. <<s>> \in Seq(Stmt) /\ Len(<<s>>) = 1 /\ <<s>>[1] = s /\ <<s>> # <<>>
  OBVIOUS
<1>2. \A i : i \in 1..Len(<<s>>) <=> i = 1
  BY <1>1
<1>3. Stmts(<<s>>) = {s}
  BY <1>1, <1>2 DEF Stmts
<1> QED BY <1>1, <1>2, <1>3 DEF Ordered, CountsLast, Plain, Has, Deletes, Inserts

\* One script after the other.
LEMMA JoinScripts ==
  ASSUME NEW s \in Seq(Stmt), NEW t \in Seq(Stmt)
  PROVE  /\ s \o t \in Seq(Stmt)
         /\ t # <<>> => s \o t # <<>>
         /\ t # <<>> => (CountsLast(s \o t) <=> CountsLast(t))
         /\ Plain(s \o t) <=> Plain(s) /\ Plain(t)
         /\ \A op : Has(s \o t, op) <=> Has(s, op) \/ Has(t, op)
         /\ \A e : Deletes(s \o t, e) <=> Deletes(s, e) \/ Deletes(t, e)
         /\ \A e : Inserts(s \o t, e) <=> Inserts(s, e) \/ Inserts(t, e)
         /\ Ordered(s \o t) <=> /\ Ordered(s) /\ Ordered(t)
                                /\ ~(Has(s, "insert") /\ Has(t, "delete"))
<1> DEFINE u == s \o t
           m == Len(s)
           k == Len(t)
<1>1. u \in Seq(Stmt) /\ Len(u) = m + k
      /\ \A i \in 1..m + k : u[i] = IF i <= m THEN s[i] ELSE t[i - m]
  BY ConcatProperties
<1>2. m \in Nat /\ k \in Nat /\ (t # <<>> => k # 0)
  BY LenProperties, EmptySeq
<1> HIDE DEF u, m, k
<1>3. \A i \in 1..m : i \in 1..Len(u) /\ u[i] = s[i]
  BY <1>1, <1>2
<1>4. \A i \in 1..k : m + i \in 1..Len(u) /\ u[m + i] = t[i]
  <2> TAKE i \in 1..k
  <2>1. m + i \in 1..m + k /\ ~(m + i <= m) /\ (m + i) - m = i
    BY <1>2
  <2> QED BY <1>1, <2>1
<1>5. \A i \in 1..Len(u) : i \in 1..m \/ \E j \in 1..k : i = m + j
  <2> TAKE i \in 1..Len(u)
  <2>1. i \in Nat /\ i <= m + k /\ i >= 1
    BY <1>1, <1>2
  <2>2. CASE i <= m BY <2>1, <2>2
  <2>3. CASE ~(i <= m)
    <3>1. i - m \in 1..k /\ i = m + (i - m)
      BY <1>2, <2>1, <2>3
    <3> QED BY <3>1
  <2> QED BY <2>2, <2>3
<1>a. Stmts(u) = Stmts(s) \cup Stmts(t)
  <2>1. \A i \in 1..Len(u) : u[i] \in Stmts(s) \cup Stmts(t)
    BY <1>3, <1>4, <1>5 DEF Stmts, m, k
  <2>2. \A i \in 1..m : s[i] \in Stmts(u)
    BY <1>3 DEF Stmts
  <2>3. \A i \in 1..k : t[i] \in Stmts(u)
    BY <1>4 DEF Stmts
  <2> QED BY <2>1, <2>2, <2>3 DEF Stmts, m, k
<1>p. Plain(u) <=> Plain(s) /\ Plain(t)
  BY <1>a DEF Plain
<1>6. \A op : Has(u, op) <=> Has(s, op) \/ Has(t, op)
  BY <1>a DEF Has
<1>7. \A e : Deletes(u, e) <=> Deletes(s, e) \/ Deletes(t, e)
  BY <1>a DEF Deletes
<1>8. \A e : Inserts(u, e) <=> Inserts(s, e) \/ Inserts(t, e)
  BY <1>a DEF Inserts
<1>9. ASSUME t # <<>> PROVE u # <<>> /\ (CountsLast(u) <=> CountsLast(t))
  <2>1. k \in 1..k /\ Len(u) = m + k /\ Len(u) # 0
    BY <1>1, <1>2, <1>9
  <2>2. u # <<>>
    BY <2>1, EmptySeq
  <2> QED BY <1>4, <1>9, <2>1, <2>2 DEF CountsLast, k
<1>10. ASSUME Ordered(u) PROVE Ordered(s) /\ Ordered(t) /\ ~(Has(s, "insert") /\ Has(t, "delete"))
  <2>1. Ordered(s)
    BY <1>3, <1>10 DEF Ordered, m
  <2>2. \A i, j \in 1..k : i < j => m + i < m + j
    BY <1>2
  <2>3. Ordered(t)
    BY <1>4, <1>10, <2>2 DEF Ordered, k
  <2>4. \A i \in 1..m, j \in 1..k : i < m + j
    BY <1>2
  <2>5. ~(Has(s, "insert") /\ Has(t, "delete"))
    <3> SUFFICES ASSUME NEW i \in 1..m, s[i].op = "insert", NEW j \in 1..k, t[j].op = "delete"
                 PROVE  FALSE
      BY DEF Has, Stmts, m, k
    <3>1. i \in 1..Len(u) /\ m + j \in 1..Len(u) /\ u[i] = s[i] /\ u[m + j] = t[j]
      BY <1>3, <1>4
    <3> QED BY <1>10, <2>4, <3>1 DEF Ordered
  <2> QED BY <2>1, <2>3, <2>5
<1>11. ASSUME Ordered(s), Ordered(t), ~(Has(s, "insert") /\ Has(t, "delete")) PROVE Ordered(u)
  <2> SUFFICES ASSUME NEW i \in 1..Len(u), NEW j \in 1..Len(u), i < j, u[i].op = "insert"
               PROVE  u[j].op # "delete"
    BY DEF Ordered
  <2>1. CASE i \in 1..m /\ j \in 1..m
    BY <1>3, <1>11, <2>1 DEF Ordered, m
  <2>2. CASE i \in 1..m /\ ~(j \in 1..m)
    <3>1. PICK b \in 1..k : j = m + b
      BY <1>5, <2>2
    <3>2. s[i] \in Stmts(s) /\ t[b] \in Stmts(t) /\ u[i] = s[i] /\ u[j] = t[b]
      BY <1>3, <1>4, <2>2, <3>1 DEF Stmts, m, k
    <3> QED BY <1>11, <3>2 DEF Has
  <2>3. CASE ~(i \in 1..m)
    <3>1. PICK a \in 1..k : i = m + a
      BY <1>5, <2>3
    <3>2. ~(j \in 1..m)
      BY <1>2, <3>1
    <3>3. PICK b \in 1..k : j = m + b
      BY <1>5, <3>2
    <3>4. a < b
      BY <1>2, <3>1, <3>3
    <3> QED BY <1>4, <1>11, <3>1, <3>3, <3>4 DEF Ordered, k
  <2> QED BY <2>1, <2>2, <2>3
<1> QED BY <1>1, <1>p, <1>6, <1>7, <1>8, <1>9, <1>10, <1>11 DEF u

\* A script is its first statement and the rest.
LEMMA SplitScript ==
  ASSUME NEW t \in Seq(Stmt), t # <<>>
  PROVE  Head(t) \in Stmt /\ Tail(t) \in Seq(Stmt) /\ t = <<Head(t)>> \o Tail(t)
<1>1. Head(t) \in Stmt /\ Tail(t) \in Seq(Stmt) /\ Len(Tail(t)) = Len(t) - 1
      /\ \A i \in 1..Len(Tail(t)) : Tail(t)[i] = t[i + 1]
  BY HeadTailProperties
<1>2. Len(t) \in Nat \ {0} /\ Head(t) = t[1]
  BY EmptySeq
<1> DEFINE h == Head(t)
           r == Tail(t)
           u == <<h>> \o r
<1>3. <<h>> \in Seq(Stmt) /\ Len(<<h>>) = 1 /\ <<h>>[1] = h
  BY <1>1
<1>4. u \in Seq(Stmt) /\ Len(u) = 1 + Len(r)
      /\ \A i \in 1..(1 + Len(r)) : u[i] = IF i <= 1 THEN <<h>>[i] ELSE r[i - 1]
  <2> HIDE DEF h, r
  <2>1. r \in Seq(Stmt)
    BY <1>1 DEF r
  <2> QED BY <1>3, <2>1, ConcatProperties
<1> HIDE DEF h, r, u
<1>5. Len(u) = Len(t)
  BY <1>1, <1>2, <1>4 DEF r
<1>6. \A i \in 1..Len(u) : u[i] = t[i]
  <2> TAKE i \in 1..Len(u)
  <2>1. CASE i = 1
    BY <1>2, <1>3, <1>4, <1>5, <2>1 DEF h
  <2>2. CASE i # 1
    <3>1. i - 1 \in 1..Len(r) /\ ~(i <= 1) /\ (i - 1) + 1 = i
      BY <1>1, <1>2, <1>5, <2>2 DEF r
    <3>2. r[i - 1] = t[i]
      BY <1>1, <3>1 DEF r
    <3> QED BY <1>4, <3>1, <3>2
  <2> QED BY <2>1, <2>2
<1>7. u = t
  BY <1>4, <1>5, <1>6, SeqEqual
<1> QED BY <1>1, <1>7 DEF h, r, u

\* A conditional statement.
LEMMA WhenScript ==
  ASSUME NEW c \in BOOLEAN, NEW s \in Stmt, s.each => s.op = "delete"
  PROVE  /\ When(c, s) \in Seq(Stmt) /\ Ordered(When(c, s)) /\ Plain(When(c, s))
         /\ s.op = "meta" => CountsLast(When(c, s))
         /\ \A op : Has(When(c, s), op) <=> c /\ s.op = op
         /\ \A e : Deletes(When(c, s), e) <=> c /\ s.op = "delete" /\ e \in s.ids
         /\ \A e : Inserts(When(c, s), e) <=> c /\ s.op = "insert" /\ e \in s.ids
<1>1. CASE c
  <2>1. When(c, s) = <<s>>
    BY <1>1 DEF When
  <2> QED BY <1>1, <2>1, OneScript
<1>2. CASE ~c
  <2>1. When(c, s) = <<>>
    BY <1>2 DEF When
  <2> QED BY <1>2, <2>1, EmptyScript DEF Script
<1> QED BY <1>1, <1>2

\* What is left when the first statement was executed or failed.
LEMMA RestScript ==
  ASSUME NEW t, Script(t), t # <<>>
  PROVE  /\ Script(Tail(t)) /\ Head(t) \in Stmt /\ (Head(t).each => Head(t).op = "delete")
         /\ Tail(t) = <<>> => Head(t).op = "meta"
         /\ \A op : Has(t, op) <=> Head(t).op = op \/ Has(Tail(t), op)
         /\ \A e : Deletes(t, e) <=> (Head(t).op = "delete" /\ e \in Head(t).ids) \/ Deletes(Tail(t), e)
         /\ \A e : Inserts(t, e) <=> (Head(t).op = "insert" /\ e \in Head(t).ids) \/ Inserts(Tail(t), e)
         /\ Head(t).op = "insert" => ~Has(Tail(t), "delete")
<1>1. Head(t) \in Stmt /\ Tail(t) \in Seq(Stmt) /\ t = <<Head(t)>> \o Tail(t)
  BY SplitScript DEF Script
<1> DEFINE h == Head(t)
           r == Tail(t)
<1> HIDE DEF h, r
<1>2. h \in Stmt /\ r \in Seq(Stmt) /\ t = <<h>> \o r
  BY <1>1 DEF h, r
<1>3. /\ <<h>> \in Seq(Stmt) /\ Ordered(<<h>>)
      /\ CountsLast(<<h>>) <=> h.op = "meta"
      /\ Plain(<<h>>) <=> (h.each => h.op = "delete")
      /\ \A op : Has(<<h>>, op) <=> h.op = op
      /\ \A e : Deletes(<<h>>, e) <=> h.op = "delete" /\ e \in h.ids
      /\ \A e : Inserts(<<h>>, e) <=> h.op = "insert" /\ e \in h.ids
  BY <1>2, OneScript
<1>4. /\ r # <<>> => (CountsLast(t) <=> CountsLast(r))
      /\ Plain(t) <=> Plain(<<h>>) /\ Plain(r)
      /\ \A op : Has(t, op) <=> Has(<<h>>, op) \/ Has(r, op)
      /\ \A e : Deletes(t, e) <=> Deletes(<<h>>, e) \/ Deletes(r, e)
      /\ \A e : Inserts(t, e) <=> Inserts(<<h>>, e) \/ Inserts(r, e)
      /\ Ordered(t) <=> Ordered(<<h>>) /\ Ordered(r) /\ ~(Has(<<h>>, "insert") /\ Has(r, "delete"))
  BY <1>2, <1>3, JoinScripts
<1>5. CountsLast(r)
  BY <1>4 DEF Script, CountsLast
<1>6. r = <<>> => h.op = "meta"
  <2>1. ASSUME r = <<>> PROVE t = <<h>>
    BY <1>2, <1>3, <2>1, ConcatEmptySeq
  <2> QED BY <1>3, <2>1 DEF Script
<1> QED BY <1>2, <1>3, <1>4, <1>5, <1>6 DEF Script, h, r

\* A script that ends with a counting one.
LEMMA CountingScript ==
  ASSUME NEW s \in Seq(Stmt), Ordered(s), Plain(s), NEW t, Script(t), t # <<>>,
         ~(Has(s, "insert") /\ Has(t, "delete"))
  PROVE  /\ Script(s \o t) /\ s \o t # <<>>
         /\ \A op : Has(s \o t, op) <=> Has(s, op) \/ Has(t, op)
         /\ \A e : Deletes(s \o t, e) <=> Deletes(s, e) \/ Deletes(t, e)
         /\ \A e : Inserts(s \o t, e) <=> Inserts(s, e) \/ Inserts(t, e)
<1>1. t \in Seq(Stmt) /\ Ordered(t) /\ CountsLast(t) /\ Plain(t)
  BY DEF Script
<1> QED BY <1>1, JoinScripts DEF Script

\* What is left when a row-by-row deletion has dealt with one row.
LEMMA EachScript ==
  ASSUME NEW t, Script(t), t # <<>>, Head(t).op = "delete", NEW e,
         NEW d \in Stmt, d.op = "delete", d.ids = Head(t).ids \ {e},
         NEW w, (w = <<>> /\ Head(t).ids = {e}) \/ w = <<d>>
  PROVE  LET u == w \o Tail(t)
         IN /\ Script(u) /\ u # <<>>
            /\ \A x : Deletes(u, x) => Deletes(t, x)
            /\ \A x : Deletes(t, x) => x = e \/ Deletes(u, x)
            /\ \A x : Inserts(u, x) <=> Inserts(t, x)
            /\ \A op : Has(u, op) => Has(t, op)
<1> DEFINE h == Head(t)
           r == Tail(t)
<1>1. /\ Script(r) /\ h \in Stmt /\ r # <<>> /\ h.op = "delete"
      /\ \A op : Has(t, op) <=> h.op = op \/ Has(r, op)
      /\ \A x : Deletes(t, x) <=> (h.op = "delete" /\ x \in h.ids) \/ Deletes(r, x)
      /\ \A x : Inserts(t, x) <=> (h.op = "insert" /\ x \in h.ids) \/ Inserts(r, x)
  BY RestScript
<1>2. d \in Stmt /\ d.op = "delete" /\ d.ids = h.ids \ {e}
  OBVIOUS
<1>3. /\ w \in Seq(Stmt) /\ Ordered(w) /\ Plain(w)
      /\ \A op : Has(w, op) => op = "delete"
      /\ \A x : Deletes(w, x) => x \in h.ids
      /\ \A x \in h.ids : x = e \/ Deletes(w, x)
      /\ \A x : ~Inserts(w, x)
  <2>1. CASE w = <<>> /\ Head(t).ids = {e}
    BY <2>1, EmptyScript DEF Script
  <2>2. CASE w = <<d>>
    <3> HIDE DEF h
    <3>1. /\ <<d>> \in Seq(Stmt) /\ Ordered(<<d>>) /\ Plain(<<d>>)
          /\ \A op : Has(<<d>>, op) <=> op = "delete"
          /\ \A x : Deletes(<<d>>, x) <=> x \in d.ids
          /\ \A x : ~Inserts(<<d>>, x)
      BY <1>2, OneScript
    <3> QED BY <1>2, <2>2, <3>1
  <2> QED BY <2>1, <2>2
<1> HIDE DEF h, r
<1>4. /\ Script(w \o r) /\ w \o r # <<>>
      /\ \A op : Has(w \o r, op) <=> Has(w, op) \/ Has(r, op)
      /\ \A x : Deletes(w \o r, x) <=> Deletes(w, x) \/ Deletes(r, x)
      /\ \A x : Inserts(w \o r, x) <=> Inserts(w, x) \/ Inserts(r, x)
  BY <1>1, <1>3, CountingScript
<1>5. /\ Script(w \o r) /\ w \o r # <<>>
      /\ \A x : Deletes(w \o r, x) => Deletes(t, x)
      /\ \A x : Deletes(t, x) => x = e \/ Deletes(w \o r, x)
      /\ \A x : Inserts(w \o r, x) <=> Inserts(t, x)
      /\ \A op : Has(w \o r, op) => Has(t, op)
  BY <1>1, <1>3, <1>4
<1> QED BY <1>5 DEF r

\* A statement, then the count.
LEMMA PairScript ==
  ASSUME NEW s \in Stmt, s.each => s.op = "delete",
         NEW c \in Stmt, c.op = "meta", ~c.each
  PROVE  /\ Script(<<s, c>>) /\ <<s, c>> # <<>>
         /\ \A op : Has(<<s, c>>, op) <=> s.op = op \/ op = "meta"
         /\ \A e : Deletes(<<s, c>>, e) <=> s.op = "delete" /\ e \in s.ids
         /\ \A e : Inserts(<<s, c>>, e) <=> s.op = "insert" /\ e \in s.ids
<1>1. <<s, c>> = <<s>> \o <<c>>
  OBVIOUS
<1>2. /\ <<s>> \in Seq(Stmt) /\ Ordered(<<s>>) /\ Plain(<<s>>)
      /\ \A op : Has(<<s>>, op) <=> s.op = op
      /\ \A e : Deletes(<<s>>, e) <=> s.op = "delete" /\ e \in s.ids
      /\ \A e : Inserts(<<s>>, e) <=> s.op = "insert" /\ e \in s.ids
  BY OneScript
<1>3. /\ Script(<<c>>) /\ <<c>> # <<>>
      /\ \A op : Has(<<c>>, op) <=> c.op = op
      /\ \A e : ~Deletes(<<c>>, e) /\ ~Inserts(<<c>>, e)
  BY OneScript DEF Script
<1> DEFINE w == <<s>>
           t == <<c>>
<1>4. w \in Seq(Stmt) /\ Ordered(w) /\ Plain(w) /\ Script(t) /\ t # <<>>
      /\ ~(Has(w, "insert") /\ Has(t, "delete"))
  BY <1>2, <1>3
<1>5. <<s, c>> = w \o t
  BY <1>1
<1> HIDE DEF w, t
<1>6. /\ Script(w \o t) /\ w \o t # <<>>
      /\ \A op : Has(w \o t, op) <=> Has(w, op) \/ Has(t, op)
      /\ \A e : Deletes(w \o t, e) <=> Deletes(w, e) \/ Deletes(t, e)
      /\ \A e : Inserts(w \o t, e) <=> Inserts(w, e) \/ Inserts(t, e)
  BY <1>4, CountingScript
<1> QED BY <1>2, <1>3, <1>5, <1>6 DEF w, t

\* The count alone, if anything.
LEMMA MetaScript ==
  ASSUME NEW c \in BOOLEAN, NEW s \in {UpdateMeta, RequireMeta}
  PROVE  /\ Script(When(c, s)) /\ Script(<<s>>) /\ <<s>> # <<>>
         /\ ~c => When(c, s) = <<>>
         /\ c => When(c, s) # <<>>
         /\ \A op \in {"insert", "delete"} : ~Has(When(c, s), op) /\ ~Has(<<s>>, op)
         /\ \A e : ~Deletes(When(c, s), e) /\ ~Inserts(When(c, s), e)
         /\ \A e : ~Deletes(<<s>>, e) /\ ~Inserts(<<s>>, e)
<1>1. s \in Stmt /\ s.op = "meta" /\ ~s.each
  <2>1. s \in Stmt
    BY StmtTypes
  <2>2. s.op = "meta" /\ ~s.each
    BY DEF UpdateMeta, RequireMeta
  <2> QED BY <2>1, <2>2
<1>2. /\ When(c, s) \in Seq(Stmt) /\ Ordered(When(c, s)) /\ Plain(When(c, s))
      /\ s.op = "meta" => CountsLast(When(c, s))
      /\ \A op : Has(When(c, s), op) <=> c /\ s.op = op
      /\ \A e : Deletes(When(c, s), e) <=> c /\ s.op = "delete" /\ e \in s.ids
      /\ \A e : Inserts(When(c, s), e) <=> c /\ s.op = "insert" /\ e \in s.ids
  BY <1>1, WhenScript
<1>3. /\ <<s>> \in Seq(Stmt) /\ <<s>> # <<>> /\ Ordered(<<s>>)
      /\ CountsLast(<<s>>) <=> s.op = "meta"
      /\ Plain(<<s>>) <=> (s.each => s.op = "delete")
      /\ \A op : Has(<<s>>, op) <=> s.op = op
      /\ \A e : Deletes(<<s>>, e) <=> s.op = "delete" /\ e \in s.ids
      /\ \A e : Inserts(<<s>>, e) <=> s.op = "insert" /\ e \in s.ids
  BY <1>1, OneScript
<1>4. (~c => When(c, s) = <<>>) /\ (c => When(c, s) = <<s>>)
  BY DEF When
<1> QED BY <1>1, <1>2, <1>3, <1>4 DEF Script

\* The script of push_batch, and of push after a merge.
LEMMA PushScript ==
  ASSUME NEW D \in SUBSET AllIds, NEW E \in SUBSET AllIds,
         NEW w, (w = <<>> /\ D = {}) \/ w = <<Delete(D)>>
  PROVE  LET u == w \o <<Insert(E), UpdateMeta>>
         IN /\ Script(u) /\ u # <<>>
            /\ \A e : Deletes(u, e) <=> e \in D
            /\ \A e : Inserts(u, e) <=> e \in E
<1> DEFINE t == <<Insert(E), UpdateMeta>>
<1>1. /\ Delete(D) \in Stmt /\ Delete(D).op = "delete" /\ Delete(D).ids = D /\ ~Delete(D).each
      /\ Insert(E) \in Stmt /\ Insert(E).op = "insert" /\ Insert(E).ids = E /\ ~Insert(E).each
      /\ UpdateMeta \in Stmt /\ UpdateMeta.op = "meta" /\ ~UpdateMeta.each
  BY StmtTypes DEF Delete, Insert, UpdateMeta
<1>2. /\ w \in Seq(Stmt) /\ Ordered(w) /\ Plain(w) /\ ~Has(w, "insert")
      /\ \A e : Deletes(w, e) <=> e \in D
      /\ \A e : ~Inserts(w, e)
  <2>1. CASE w = <<>> /\ D = {}
    BY <2>1, EmptyScript DEF Script
  <2>2. CASE w = <<Delete(D)>>
    BY <1>1, <2>2, OneScript
  <2> QED BY <2>1, <2>2
<1>3. /\ Script(t) /\ t # <<>>
      /\ \A e : ~Deletes(t, e)
      /\ \A e : Inserts(t, e) <=> e \in E
  BY <1>1, PairScript
<1> HIDE DEF t
<1>4. /\ Script(w \o t) /\ w \o t # <<>>
      /\ \A e : Deletes(w \o t, e) <=> Deletes(w, e) \/ Deletes(t, e)
      /\ \A e : Inserts(w \o t, e) <=> Inserts(w, e) \/ Inserts(t, e)
  BY <1>2, <1>3, CountingScript
<1>5. /\ Script(w \o t) /\ w \o t # <<>>
      /\ \A e : Deletes(w \o t, e) <=> e \in D
      /\ \A e : Inserts(w \o t, e) <=> e \in E
  BY <1>2, <1>3, <1>4
<1> QED BY <1>5 DEF t

\* The script of a confirmation.
LEMMA RemoveScript ==
  ASSUME NEW c \in BOOLEAN, NEW D \in SUBSET AllIds,
         NEW u, u = When(c, DeleteEach(D)) \o <<UpdateMeta>>
  PROVE  /\ Script(u) /\ \A e : (Deletes(u, e) <=> c /\ e \in D) /\ ~Inserts(u, e)
<1> DEFINE w == When(c, DeleteEach(D))
           t == <<UpdateMeta>>
<1>1. /\ DeleteEach(D) \in Stmt /\ DeleteEach(D).op = "delete" /\ DeleteEach(D).ids = D
  BY StmtTypes DEF DeleteEach
<1>2. /\ w \in Seq(Stmt) /\ Ordered(w) /\ Plain(w)
      /\ \A op : Has(w, op) <=> c /\ op = "delete"
      /\ \A e : Deletes(w, e) <=> c /\ e \in D
      /\ \A e : ~Inserts(w, e)
  BY <1>1, WhenScript
<1>3. /\ Script(t) /\ t # <<>> /\ \A e : ~Deletes(t, e) /\ ~Inserts(t, e)
  BY MetaScript
<1> HIDE DEF w, t
<1>4. /\ Script(w \o t)
      /\ \A e : Deletes(w \o t, e) <=> Deletes(w, e) \/ Deletes(t, e)
      /\ \A e : Inserts(w \o t, e) <=> Inserts(w, e) \/ Inserts(t, e)
  BY <1>2, <1>3, CountingScript
<1>5. u = w \o t
  BY DEF w, t
<1> QED BY <1>2, <1>3, <1>4, <1>5

-----------------------------------------------------------------------------
(* The inductive invariant.                                                *)

\* Memory holds what this process has read from the disk.
Loaded == next \notin {"boot", "load"}

\* What comes before something else only counts.
Quiet == next # "none" => ~Has(todo, "insert") /\ ~Has(todo, "delete")

\* What is about to be inserted is in memory.
Known == \A e : Inserts(todo, e) => e \in Ids(queue)

\* Until a start has failed to load the rows or had another key, what is owed
\* is on disk, in memory, and spared by the statements to come.
Kept ==
    ~blind => /\ owed \subseteq Stored
              /\ \A r \in rows : r.key = key
              /\ Loaded => owed \subseteq Ids(queue)
              /\ \A e \in owed : ~Deletes(todo, e)

\* A row that memory does not know is about to be deleted.
Doomed == ~failed /\ Loaded => \A e \in Stored : e \in Ids(queue) \/ Deletes(todo, e)

\* After the last statement the count is right.
Counted == ~failed /\ todo = <<>> /\ next # "boot" => meta = [n |-> Cardinality(rows), key |-> key]

IInv ==
    /\ TypeOK /\ IsFiniteSet(rows) /\ Script(todo)
    /\ Quiet /\ Known /\ Kept /\ Doomed /\ Counted

LEMMA InitIInv == Init => IInv
<1> SUFFICES ASSUME Init PROVE IInv
  OBVIOUS
<1>1. /\ Script(<<RequireMeta>>) /\ <<RequireMeta>> # <<>>
      /\ ~Has(<<RequireMeta>>, "insert") /\ ~Has(<<RequireMeta>>, "delete")
      /\ \A e : ~Deletes(<<RequireMeta>>, e) /\ ~Inserts(<<RequireMeta>>, e)
  BY MetaScript
<1>2. IsFiniteSet({}) /\ {} \in Batches(AllIds)
  BY FS_EmptySet DEF Batches
<1>3. TypeOK
  <2>1. todo \in Seq(Stmt)
    BY <1>1 DEF Init, Script
  <2> QED BY <1>2, <2>1 DEF Init, TypeOK
<1>4. rows = {} /\ todo = <<RequireMeta>> /\ next = "boot" /\ owed = {} /\ Stored = {}
  BY DEF Init, Stored
<1>5. Quiet /\ Known /\ Counted
  BY <1>1, <1>4 DEF Quiet, Known, Counted
<1>6. Kept /\ Doomed
  BY <1>1, <1>4 DEF Kept, Doomed, Loaded
<1> QED BY <1>1, <1>2, <1>3, <1>4, <1>5, <1>6 DEF IInv

\* An operation begins, or a merge ends: memory changes, and a script is left.
LEMMA OperationIInv ==
  ASSUME IInv, todo = <<>>, Loaded, next' = "none",
         UNCHANGED <<rows, meta, key, token, alarms, stops, blind, failed>>,
         queue' \in Batches(AllIds), tail' \in Nat,
         Script(todo'), \A e : Inserts(todo', e) => e \in Ids(queue'),
         owed' \subseteq owed,
         \A e \in owed' : ~blind /\ e \in Ids(queue) => e \in Ids(queue') /\ ~Deletes(todo', e),
         \A e \in Stored : e \in Ids(queue) => e \in Ids(queue') \/ Deletes(todo', e)
  PROVE  IInv'
<1>1. Stored' = Stored /\ IsFiniteSet(rows)'
  BY DEF Stored, IInv
<1>2. TypeOK'
  <2>1. todo' \in Seq(Stmt)
    BY DEF Script
  <2> QED BY <2>1 DEF IInv, TypeOK
<1>3. Quiet' /\ Known' /\ Loaded'
  BY DEF Quiet, Known, Loaded
<1>4. Kept'
  BY <1>1, <1>3 DEF IInv, Kept
<1>5. Doomed'
  <2>1. \A e : ~Deletes(<<>>, e)
    BY EmptyScript
  <2> QED BY <1>1, <2>1 DEF IInv, Doomed
<1>6. Counted'
  BY DEF IInv, Counted, Loaded
<1> QED BY <1>1, <1>2, <1>3, <1>4, <1>5, <1>6 DEF IInv

\* Removing entries removes no other events.
LEMMA IdsSplit ==
  ASSUME NEW S, NEW G
  PROVE  /\ \A e \in Ids(S) : e \in Ids(S \ G) \/ e \in Ids(G \cap S)
         /\ Ids(G \cap S) \subseteq Ids(G) /\ Ids(G \cap S) \subseteq Ids(S)
BY DEF Ids

LEMMA IdsUnion == ASSUME NEW S, NEW T PROVE Ids(S \cup T) = Ids(S) \cup Ids(T)
BY DEF Ids

LEMMA IdsType == ASSUME NEW S \in Batches(AllIds) PROVE Ids(S) \in SUBSET AllIds
BY DEF Ids, Batches, Entry

LEMMA PushBatchIInv ==
  ASSUME IInv, NEW B \in SUBSET Events, PushBatch(B)
  PROVE  IInv'
<1> DEFINE new == Repositioned(InTimeOrder(B), tail)
           both == queue \cup new
<1>1. B \in SUBSET AllIds /\ IsFiniteSet(B) /\ AllIds \in SUBSET Nat /\ Cardinality(B) \in Nat
  BY IdsFinite
<1>2. queue \in Batches(AllIds) /\ tail \in Nat
  BY DEF IInv, TypeOK
<1>3. InTimeOrder(B) \in Batches(AllIds)
  BY <1>1, InTimeOrderFacts
<1>4. new \in Batches(AllIds)
  BY <1>2, <1>3, RepositionedFacts
<1> HIDE DEF new
<1>5. PICK gone :
        /\ queue' = both \ gone
        /\ owed' = owed \ Ids(gone)
        /\ todo' = When(Ids(gone \cap queue) # {}, Delete(Ids(gone \cap queue)))
                     \o <<Insert(Ids(new \ gone)), UpdateMeta>>
  BY DEF PushBatch, new
<1>6. both \in Batches(AllIds) /\ queue' \in Batches(AllIds) /\ new \ gone \in Batches(AllIds)
  BY <1>2, <1>4, <1>5, BatchesClosed
<1>7. Ids(gone \cap queue) \in SUBSET AllIds /\ Ids(new \ gone) \in SUBSET AllIds
  BY <1>2, <1>6, IdsSplit, IdsType
<1>8. /\ Script(todo')
      /\ \A e : Deletes(todo', e) <=> e \in Ids(gone \cap queue)
      /\ \A e : Inserts(todo', e) <=> e \in Ids(new \ gone)
  <2> DEFINE D == Ids(gone \cap queue)
             E == Ids(new \ gone)
             w == When(D # {}, Delete(D))
  <2>1. D \in SUBSET AllIds /\ E \in SUBSET AllIds
        /\ todo' = w \o <<Insert(E), UpdateMeta>>
    BY <1>5, <1>7
  <2>2. (w = <<>> /\ D = {}) \/ w = <<Delete(D)>>
    BY DEF When
  <2> HIDE DEF D, E, w
  <2>3. /\ Script(todo')
        /\ \A e : Deletes(todo', e) <=> e \in D
        /\ \A e : Inserts(todo', e) <=> e \in E
    BY <2>1, <2>2, PushScript
  <2> QED BY <2>3 DEF D, E
<1>9. Ids(queue \ gone) \subseteq Ids(queue') /\ Ids(new \ gone) \subseteq Ids(queue')
  BY <1>5 DEF Ids
<1>10. /\ todo = <<>> /\ Loaded /\ next' = "none" /\ tail' \in Nat
       /\ UNCHANGED <<rows, meta, key, token, alarms, stops, blind, failed>>
  BY <1>1, <1>2 DEF PushBatch, Idle, Loaded
<1>11. \A e \in Ids(queue) : e \in Ids(queue') \/ Deletes(todo', e)
  BY <1>8, <1>9, IdsSplit
<1>12. \A e \in owed' : ~Deletes(todo', e)
  BY <1>5, <1>8, IdsSplit
<1>13. owed' \subseteq owed
  BY <1>5
<1> HIDE DEF both
<1> QED BY <1>6, <1>8, <1>9, <1>10, <1>11, <1>12, <1>13, OperationIInv

LEMMA RemoveIInv == ASSUME IInv, NEW done, Remove(done) PROVE IInv'
<1>1. queue \in Batches(AllIds) /\ tail \in Nat /\ done \in SUBSET queue
  BY DEF IInv, TypeOK, Remove
<1>2. /\ queue' = queue \ done /\ owed' = owed \ Ids(done)
      /\ todo' = When(done # {}, DeleteEach(Ids(done))) \o <<UpdateMeta>>
      /\ todo = <<>> /\ Loaded /\ next' = "none" /\ tail' \in Nat
      /\ UNCHANGED <<rows, meta, key, token, alarms, stops, blind, failed>>
  BY <1>1 DEF Remove, Idle, Loaded
<1>3. queue' \in Batches(AllIds)
  BY <1>1, <1>2, BatchesClosed
<1>4. Ids(done) \in SUBSET AllIds
  <2>1. Ids(done) \subseteq Ids(queue)
    BY <1>1 DEF Ids
  <2> QED BY <1>1, <2>1, IdsType
<1>5. Script(todo') /\ \A e : (Deletes(todo', e) <=> done # {} /\ e \in Ids(done)) /\ ~Inserts(todo', e)
  BY <1>2, <1>4, RemoveScript
<1>6. \A e \in Ids(queue) : e \in Ids(queue') \/ Deletes(todo', e)
  BY <1>2, <1>5 DEF Ids
<1>7. \A e \in owed' : ~Deletes(todo', e)
  BY <1>2, <1>5
<1>8. owed' \subseteq owed
  BY <1>2
<1> QED BY <1>2, <1>3, <1>5, <1>6, <1>7, <1>8, OperationIInv

LEMMA ExpireIInv == ASSUME IInv, NEW cutoff \in Events, ExpireOldEvents(cutoff) PROVE IInv'
<1> DEFINE old == {q \in queue : q.e < cutoff}
           D == {e \in AllIds : e < cutoff}
<1>1. queue \in Batches(AllIds) /\ tail \in Nat /\ cutoff \in Nat /\ AllIds \in SUBSET Nat
      /\ owed \in SUBSET AllIds
  BY IdsFinite DEF IInv, TypeOK, Events
<1>2. /\ queue' = queue \ old
      /\ todo = <<>> /\ Loaded /\ next' = "none" /\ tail' \in Nat
      /\ UNCHANGED <<rows, meta, key, token, alarms, stops, blind, failed>>
  BY <1>1 DEF ExpireOldEvents, Idle, Loaded
<1>3. queue' \in Batches(AllIds)
  BY <1>1, <1>2, BatchesClosed
<1>4. CASE old = {}
  <2>1. queue' = queue /\ owed' = owed /\ todo' = <<>>
    BY <1>2, <1>4 DEF ExpireOldEvents
  <2>2. Script(todo') /\ \A e : ~Deletes(todo', e) /\ ~Inserts(todo', e)
    BY <2>1, EmptyScript
  <2> QED BY <1>2, <1>3, <2>1, <2>2, OperationIInv
<1>5. CASE old # {}
  <2>1. owed' = {e \in owed : e >= cutoff} /\ todo' = <<Delete(D), UpdateMeta>>
    BY <1>5 DEF ExpireOldEvents
  <2>2. /\ Delete(D) \in Stmt /\ Delete(D).op = "delete" /\ Delete(D).ids = D /\ ~Delete(D).each
    BY StmtTypes DEF Delete
  <2>3. UpdateMeta \in Stmt /\ UpdateMeta.op = "meta" /\ ~UpdateMeta.each
    BY StmtTypes DEF UpdateMeta
  <2>4. /\ Script(todo') /\ \A e : (Deletes(todo', e) <=> e \in D) /\ ~Inserts(todo', e)
    BY <2>1, <2>2, <2>3, PairScript
  <2>5. \A e \in Ids(queue) : e \in Ids(queue') \/ e \in D
    BY <1>1, <1>2, IdsType DEF Ids
  <2>6. \A e \in owed' : e \notin D
    BY <1>1, <2>1
  <2>7. owed' \subseteq owed
    BY <2>1
  <2> HIDE DEF D, old
  <2> QED BY <1>2, <1>3, <2>4, <2>5, <2>6, <2>7, OperationIInv
<1> QED BY <1>4, <1>5

LEMMA ClearIInv == ASSUME IInv, ClearPersistedFile PROVE IInv'
<1>1. /\ queue = {} /\ queue' = {} /\ todo' = <<DeleteAll, RequireMeta>> /\ owed' = owed
      /\ todo = <<>> /\ Loaded /\ next' = "none" /\ tail' \in Nat /\ queue' \in Batches(AllIds)
      /\ UNCHANGED <<rows, meta, key, token, alarms, stops, blind, failed>>
  BY DEF IInv, TypeOK, ClearPersistedFile, Idle, Loaded
<1>2. DeleteAll \in Stmt /\ DeleteAll.op = "delete" /\ ~DeleteAll.each
  BY StmtTypes DEF DeleteAll
<1>3. RequireMeta \in Stmt /\ RequireMeta.op = "meta" /\ ~RequireMeta.each
  BY StmtTypes DEF RequireMeta
<1>4. Script(todo') /\ \A e : ~Inserts(todo', e)
  BY <1>1, <1>2, <1>3, PairScript
<1>5. Ids(queue) = {}
  BY <1>1 DEF Ids
<1> QED BY <1>1, <1>4, <1>5, OperationIInv

\* Rows that do not verify are deleted first.
LEMMA ForgetScript ==
  ASSUME NEW T \in SUBSET AllIds
  PROVE  LET u == <<DeleteEach(T), UpdateMeta>>
         IN /\ Script(u) /\ u # <<>> /\ ~Has(u, "insert")
            /\ \A e : (Deletes(u, e) <=> e \in T) /\ ~Inserts(u, e)
<1>1. /\ DeleteEach(T) \in Stmt /\ DeleteEach(T).op = "delete" /\ DeleteEach(T).ids = T
      /\ UpdateMeta \in Stmt /\ UpdateMeta.op = "meta" /\ ~UpdateMeta.each
  BY StmtTypes DEF DeleteEach, UpdateMeta
<1> QED BY <1>1, PairScript

LEMMA JoinAssociative ==
  ASSUME NEW s \in Seq(Stmt), NEW t \in Seq(Stmt), NEW u \in Seq(Stmt)
  PROVE  (s \o t) \o u = s \o (t \o u)
BY SMTT(60)

LEMMA MergeScript ==
  ASSUME NEW T \in SUBSET AllIds, NEW D \in SUBSET AllIds, NEW E \in SUBSET AllIds,
         NEW w, (w = <<>> /\ D = {}) \/ w = <<Delete(D)>>
  PROVE  LET u == <<DeleteEach(T), UpdateMeta>> \o w \o <<Insert(E), UpdateMeta>>
         IN /\ Script(u)
            /\ \A e : Deletes(u, e) <=> e \in T \/ e \in D
            /\ \A e : Inserts(u, e) <=> e \in E
<1> DEFINE u == <<DeleteEach(T), UpdateMeta>> \o w \o <<Insert(E), UpdateMeta>>
           f == <<DeleteEach(T), UpdateMeta>>
           t == <<Insert(E), UpdateMeta>>
           p == w \o t
<1>1. /\ Script(f) /\ ~Has(f, "insert")
      /\ \A e : (Deletes(f, e) <=> e \in T) /\ ~Inserts(f, e)
  BY ForgetScript
<1>2. /\ Script(p) /\ p # <<>>
      /\ \A e : Deletes(p, e) <=> e \in D
      /\ \A e : Inserts(p, e) <=> e \in E
  BY PushScript
<1>3. f \in Seq(Stmt) /\ w \in Seq(Stmt) /\ t \in Seq(Stmt)
  <2>1. f \in Seq(Stmt)
    BY <1>1 DEF Script
  <2>2. Delete(D) \in Stmt /\ Insert(E) \in Stmt /\ UpdateMeta \in Stmt
    BY StmtTypes
  <2>3. t \in Seq(Stmt)
    BY <2>2
  <2>4. w \in Seq(Stmt)
    <3>1. <<>> \in Seq(Stmt) /\ <<Delete(D)>> \in Seq(Stmt)
      BY <2>2
    <3> QED BY <3>1
  <2> QED BY <2>1, <2>3, <2>4
<1>4. u = f \o p
  <2>1. u = (f \o w) \o t
    OBVIOUS
  <2> HIDE DEF f, t
  <2>2. (f \o w) \o t = f \o (w \o t)
    BY <1>3, JoinAssociative
  <2> QED BY <2>1, <2>2
<1> HIDE DEF u, f, t, p
<1>5. /\ Script(f \o p)
      /\ \A e : Deletes(f \o p, e) <=> Deletes(f, e) \/ Deletes(p, e)
      /\ \A e : Inserts(f \o p, e) <=> Inserts(f, e) \/ Inserts(p, e)
  BY <1>1, <1>2, CountingScript DEF Script
<1>6. /\ Script(u)
      /\ \A e : Deletes(u, e) <=> e \in T \/ e \in D
      /\ \A e : Inserts(u, e) <=> e \in E
  BY <1>1, <1>2, <1>4, <1>5
<1> QED BY <1>6 DEF u

\* Rows, those that verify and the others.
LEMMA RowFacts ==
  ASSUME IInv
  PROVE  /\ Stored \in SUBSET AllIds /\ Verified \in SUBSET AllIds /\ Tampered \in SUBSET AllIds
         /\ Stored = Verified \cup Tampered
         /\ ~blind => Tampered = {}
<1>1. rows \in SUBSET Row
  BY DEF IInv, TypeOK
<1> QED BY <1>1 DEF IInv, Kept, Stored, Verified, Tampered, Row

LEMMA MergeRowsIInv == ASSUME IInv, NEW a, MergeRows(a) PROVE IInv'
<1> DEFINE V == Verified \ Ids(queue)
           new == Repositioned(InTimeOrder(V), tail)
           merged == queue \cup new
           end == tail + Cardinality(V)
<1>1. V \in SUBSET AllIds /\ IsFiniteSet(V) /\ AllIds \in SUBSET Nat /\ Cardinality(V) \in Nat
  BY RowFacts, IdsFinite
<1>2. queue \in Batches(AllIds) /\ tail \in Nat
  BY DEF IInv, TypeOK
<1> HIDE DEF V
<1>3. new \in Batches(AllIds) /\ end \in Nat
  <2>1. InTimeOrder(V) \in Batches(AllIds)
    BY <1>1, InTimeOrderFacts
  <2> QED BY <1>1, <1>2, <2>1, RepositionedFacts
<1> HIDE DEF new
<1>4. merged \in Batches(AllIds) /\ Ids(queue) \subseteq Ids(merged)
  <2>1. merged \in Batches(AllIds)
    BY <1>2, <1>3, BatchesClosed
  <2>2. Ids(queue) \subseteq Ids(merged)
    BY IdsUnion
  <2> QED BY <2>1, <2>2
<1>5. /\ todo = <<>> /\ Loaded /\ next' = "none"
      /\ UNCHANGED <<rows, meta, key, token, alarms, stops, blind, failed>>
  BY DEF MergeRows, Loaded
<1>6. CASE Tampered = {}
  <2>1. queue' = merged /\ tail' = end /\ todo' = <<>> /\ owed' = owed
    BY <1>6 DEF MergeRows, V, new
  <2>2. Script(todo') /\ \A e : ~Deletes(todo', e) /\ ~Inserts(todo', e)
    BY <2>1, EmptyScript
  <2> HIDE DEF merged, end
  <2> QED BY <1>3, <1>4, <1>5, <2>1, <2>2, OperationIInv
<1>7. CASE Tampered # {}
  <2> DEFINE alarm == [n |-> end, e |-> a]
  <2>1. Fresh(a) /\ tail' = end + 1
    BY <1>7 DEF MergeRows, V
  <2>2. PICK gone \in SUBSET merged :
          /\ queue' = (merged \ gone) \cup {alarm}
          /\ owed' = owed \ Ids(gone)
          /\ todo' = ForgetTampered \o When(gone # {}, Delete(Ids(gone))) \o <<Insert({a}), UpdateMeta>>
    BY <1>7, FrontsInside DEF MergeRows, V, new
  <2>3. a \in AllIds /\ alarm.e = a /\ alarm \in Entry(AllIds)
    <3>1. a \in AllIds
      BY <2>1, IdsFinite DEF Fresh
    <3> QED BY <1>3, <3>1 DEF Entry
  <2> HIDE DEF merged, end, alarm
  <2>4. {alarm} \in Batches(AllIds)
    <3>1. IsFiniteSet({alarm})
      BY FS_Singleton
    <3> QED BY <2>3, <3>1 DEF Batches
  <2>5. merged \ gone \in Batches(AllIds)
    BY <1>4, BatchesClosed
  <2>6. queue' \in Batches(AllIds) /\ tail' \in Nat
    <3> DEFINE rest == merged \ gone
               last == {alarm}
    <3>1. rest \in Batches(AllIds) /\ last \in Batches(AllIds) /\ queue' = rest \cup last
      BY <2>2, <2>4, <2>5
    <3> HIDE DEF rest, last
    <3>2. queue' \in Batches(AllIds)
      BY <3>1, BatchesClosed
    <3> QED BY <1>3, <2>1, <3>2
  <2>7. Ids(gone) \in SUBSET AllIds
    <3>1. Ids(gone) \subseteq Ids(merged)
      BY DEF Ids
    <3> QED BY <1>4, <3>1, IdsType
  <2>8. /\ Script(todo')
        /\ \A e : Deletes(todo', e) <=> e \in Tampered \/ e \in Ids(gone)
        /\ \A e : Inserts(todo', e) <=> e = a
    <3> DEFINE D == Ids(gone)
               w == When(gone # {}, Delete(D))
               T == Tampered
               E == {a}
    <3>1. (w = <<>> /\ D = {}) \/ w = <<Delete(D)>>
      BY DEF When, Ids
    <3>2. T \in SUBSET AllIds /\ D \in SUBSET AllIds /\ E \in SUBSET AllIds
      BY <2>3, <2>7, RowFacts
    <3>3. todo' = <<DeleteEach(T), UpdateMeta>> \o w \o <<Insert(E), UpdateMeta>>
      BY <1>7, <2>2 DEF ForgetTampered
    <3>4. \A e : e \in E <=> e = a
      OBVIOUS
    <3> HIDE DEF D, w, T, E
    <3>5. /\ Script(todo')
          /\ \A e : Deletes(todo', e) <=> e \in T \/ e \in D
          /\ \A e : Inserts(todo', e) <=> e \in E
      BY ZenonT(60), <3>1, <3>2, <3>3, MergeScript
    <3> QED BY <3>4, <3>5 DEF T, D
  <2>9. a \in Ids(queue') /\ Ids(merged \ gone) \subseteq Ids(queue')
    BY <2>2, <2>3 DEF Ids
  <2>10. \A e \in Ids(queue) : e \in Ids(queue') \/ Deletes(todo', e)
    BY <1>4, <2>8, <2>9, IdsSplit
  <2>11. blind
    BY <1>7, RowFacts
  <2>12. owed' \subseteq owed
    BY <2>2
  <2> QED BY <1>5, <2>6, <2>8, <2>9, <2>10, <2>11, <2>12, OperationIInv
<1> QED BY <1>6, <1>7

\* Rows are deleted: those of G, which the script named.
LEMMA DeletionIInv ==
  ASSUME IInv, NEW G, rows' = {r \in rows : r.e \notin G},
         Script(todo'), todo' # <<>>,
         \A op : Has(todo', op) => Has(todo, op),
         \A x : Deletes(todo', x) => Deletes(todo, x),
         \A x : Deletes(todo, x) => x \in G \/ Deletes(todo', x),
         \A x : Inserts(todo', x) => Inserts(todo, x),
         \A x \in G : Deletes(todo, x),
         UNCHANGED <<queue, tail, meta, next, key, token, alarms, stops, owed, blind, failed>>
  PROVE  IInv'
<1>1. rows' \subseteq rows /\ IsFiniteSet(rows)'
  <2>1. rows' \subseteq rows /\ IsFiniteSet(rows)
    BY DEF IInv
  <2> QED BY <2>1, FS_Subset
<1>2. Stored' = Stored \ G
  BY DEF Stored
<1>3. TypeOK'
  <2>1. todo' \in Seq(Stmt)
    BY DEF Script
  <2> QED BY <1>1, <2>1 DEF IInv, TypeOK
<1>4. Quiet' /\ Known'
  BY DEF IInv, Quiet, Known
<1>5. Kept'
  <2>1. ASSUME ~blind PROVE owed \subseteq Stored' /\ \A e \in owed : ~Deletes(todo', e)
    BY <1>2, <2>1 DEF IInv, Kept
  <2>2. ASSUME ~blind PROVE \A r \in rows' : r.key = key
    BY <1>1, <2>2 DEF IInv, Kept
  <2> QED BY <2>1, <2>2 DEF IInv, Kept, Loaded
<1>6. Doomed'
  BY <1>2 DEF IInv, Doomed, Loaded
<1>7. Counted'
  BY DEF Counted
<1> QED BY <1>1, <1>3, <1>4, <1>5, <1>6, <1>7 DEF IInv

\* The rows of inserted events.
Inserted(E, k) == {[e |-> x, key |-> k] : x \in E}

LEMMA InsertedRows ==
  ASSUME NEW E \in SUBSET AllIds, NEW k \in Keys
  PROVE  /\ IsFiniteSet(Inserted(E, k)) /\ Inserted(E, k) \subseteq Row
         /\ \A y \in Inserted(E, k) : y.key = k
         /\ {y.e : y \in Inserted(E, k)} = E
<1> DEFINE f == [x \in E |-> [e |-> x, key |-> k]]
           new == {f[x] : x \in E}
<1>1. f = [x \in E |-> f[x]] /\ Inserted(E, k) = new
  BY DEF Inserted
<1>2. \A x \in E : f[x] \in Row /\ f[x].key = k /\ f[x].e = x
  BY DEF Row
<1>3. IsFiniteSet(E)
  BY IdsFinite
<1> HIDE DEF f
<1>4. IsFiniteSet(new)
  BY <1>1, <1>3, ImageBound
<1>5. new \subseteq Row /\ \A y \in new : y.key = k
  BY <1>2
<1>6. {y.e : y \in new} = E
  BY <1>2
<1> HIDE DEF new
<1> QED BY <1>1, <1>4, <1>5, <1>6

\* A statement commits.
LEMMA ExecIInv == ASSUME IInv, Exec PROVE IInv'
<1> DEFINE h == Head(todo)
           r == Tail(todo)
<1>1. Script(todo) /\ todo # <<>>
  BY DEF IInv, Exec
<1>2. /\ Script(r) /\ h \in Stmt /\ (h.each => h.op = "delete")
      /\ r = <<>> => h.op = "meta"
      /\ \A op : Has(todo, op) <=> h.op = op \/ Has(r, op)
      /\ \A e : Deletes(todo, e) <=> (h.op = "delete" /\ e \in h.ids) \/ Deletes(r, e)
      /\ \A e : Inserts(todo, e) <=> (h.op = "insert" /\ e \in h.ids) \/ Inserts(r, e)
      /\ h.op = "insert" => ~Has(r, "delete")
  BY <1>1, RestScript
<1>3. UNCHANGED <<queue, tail, next, key, token, alarms, stops, blind, failed>>
  BY DEF Exec
<1>4. TypeOK /\ IsFiniteSet(rows) /\ r \in Seq(Stmt) /\ h.ids \in SUBSET AllIds
  BY <1>2 DEF IInv, Script, Stmt
<1>5. CASE h.op = "delete" /\ ~h.each
  <2>1. rows' = {x \in rows : x.e \notin h.ids} /\ todo' = r /\ UNCHANGED <<meta, owed>>
    BY <1>5 DEF Exec
  <2> DEFINE G == h.ids
  <2>2. /\ rows' = {x \in rows : x.e \notin G}
        /\ Script(todo') /\ todo' # <<>>
        /\ \A op : Has(todo', op) => Has(todo, op)
        /\ \A x : Deletes(todo', x) => Deletes(todo, x)
        /\ \A x : Deletes(todo, x) => x \in G \/ Deletes(todo', x)
        /\ \A x : Inserts(todo', x) => Inserts(todo, x)
        /\ \A x \in G : Deletes(todo, x)
    BY <1>2, <1>5, <2>1
  <2> HIDE DEF G
  <2> QED BY <1>3, <2>1, <2>2, DeletionIInv
<1>6. CASE h.op = "delete" /\ h.each
  <2>1. PICK e \in h.ids :
          /\ rows' = {x \in rows : x.e # e}
          /\ todo' = When(h.ids # {e}, [h EXCEPT !.ids = @ \ {e}]) \o r
    BY <1>6 DEF Exec
  <2>2. UNCHANGED <<meta, owed>>
    BY <1>6 DEF Exec
  <2>3. /\ Script(todo') /\ todo' # <<>>
        /\ \A x : Deletes(todo', x) => Deletes(todo, x)
        /\ \A x : Deletes(todo, x) => x = e \/ Deletes(todo', x)
        /\ \A x : Inserts(todo', x) <=> Inserts(todo, x)
        /\ \A op : Has(todo', op) => Has(todo, op)
    <3> DEFINE d == [h EXCEPT !.ids = h.ids \ {e}]
               w == When(h.ids # {e}, d)
    <3>1. /\ d \in Stmt /\ d.op = "delete" /\ d.ids = Head(todo).ids \ {e}
          /\ Head(todo).op = "delete"
      BY <1>2, <1>6 DEF Stmt
    <3>2. (w = <<>> /\ Head(todo).ids = {e}) \/ w = <<d>>
      BY DEF When
    <3>3. todo' = w \o Tail(todo)
      BY <2>1
    <3> HIDE DEF d, w
    <3> QED BY <1>1, <3>1, <3>2, <3>3, EachScript
  <2> DEFINE G == {e}
  <2>4. /\ rows' = {x \in rows : x.e \notin G}
        /\ \A x : Deletes(todo, x) => x \in G \/ Deletes(todo', x)
        /\ \A x \in G : Deletes(todo, x)
    BY <1>2, <1>6, <2>1, <2>3
  <2> HIDE DEF G
  <2> QED BY <1>3, <2>2, <2>3, <2>4, DeletionIInv
<1>7. CASE h.op = "insert"
  <2> DEFINE new == {[e |-> e, key |-> key] : e \in h.ids}
             old == {x \in rows : x.e \notin h.ids}
  <2>1. rows' = old \cup new /\ owed' = owed \cup h.ids /\ todo' = r /\ meta' = meta
    BY <1>7 DEF Exec
  <2>2. new \subseteq Row /\ (\A x \in new : x.key = key) /\ {x.e : x \in new} = h.ids
        /\ IsFiniteSet(new)
    <3> DEFINE E == h.ids
    <3>1. E \in SUBSET AllIds /\ key \in Keys
      BY <1>4 DEF TypeOK
    <3>2. new = Inserted(E, key)
      BY DEF Inserted
    <3> HIDE DEF new, E
    <3>3. /\ IsFiniteSet(new) /\ new \subseteq Row /\ \A y \in new : y.key = key
          /\ {y.e : y \in new} = E
      BY <3>1, <3>2, InsertedRows
    <3> QED BY <3>3 DEF E
  <2>3. IsFiniteSet(rows)'
    <3>3. IsFiniteSet(new)
      BY <2>2
    <3>4. IsFiniteSet(old)
      BY <1>4, FS_Subset
    <3> HIDE DEF new, old
    <3> QED BY <2>1, <3>3, <3>4, FS_Union
  <2>4. Stored' = Stored \cup h.ids
    BY <2>1, <2>2 DEF Stored
  <2>5. TypeOK'
    <3>1. rows' \subseteq Row
      BY <1>4, <2>1, <2>2 DEF TypeOK
    <3> HIDE DEF new, old
    <3> QED BY <1>3, <1>4, <2>1, <3>1 DEF TypeOK
  <2>6. Script(todo') /\ todo' # <<>>
    BY <1>2, <1>7, <2>1
  <2>7. next = "none" /\ Loaded
    BY <1>2, <1>7 DEF IInv, Quiet, Loaded
  <2>8. h.ids \subseteq Ids(queue)
    BY <1>2, <1>7 DEF IInv, Known
  <2>9. \A e : ~Deletes(r, e)
    BY <1>2, <1>7 DEF Has, Deletes
  <2>10. Quiet' /\ Known'
    BY <1>2, <1>3, <2>1, <2>7 DEF IInv, Quiet, Known
  <2>11. Kept'
    <3>1. ASSUME ~blind PROVE \A x \in rows' : x.key = key
      BY <2>1, <2>2, <3>1 DEF IInv, Kept
    <3>2. ASSUME ~blind PROVE owed' \subseteq Stored' /\ owed' \subseteq Ids(queue)
      BY <2>1, <2>4, <2>7, <2>8, <3>2 DEF IInv, Kept
    <3> QED BY <1>3, <2>1, <2>9, <3>1, <3>2 DEF Kept
  <2>12. Doomed'
    BY <1>2, <1>3, <1>7, <2>1, <2>4, <2>7, <2>8 DEF IInv, Doomed, Loaded
  <2>13. Counted'
    BY <2>6 DEF Counted
  <2> QED BY <2>3, <2>5, <2>6, <2>10, <2>11, <2>12, <2>13 DEF IInv
<1>8. CASE h.op = "meta"
  <2>1. meta' = [n |-> Cardinality(rows), key |-> key] /\ todo' = r /\ rows' = rows /\ owed' = owed
    BY <1>8 DEF Exec
  <2>2. Stored' = Stored /\ IsFiniteSet(rows)' /\ Script(todo')
    BY <1>2, <1>4, <2>1 DEF Stored
  <2>3. meta' \in [n : Nat, key : Keys]
    BY <1>4, <2>1, FS_CardinalityType DEF TypeOK
  <2>4. TypeOK'
    BY <1>3, <1>4, <2>1, <2>3 DEF TypeOK
  <2>5. Quiet' /\ Known'
    BY <1>2, <1>3, <2>1 DEF IInv, Quiet, Known
  <2>6. Kept'
    BY <1>2, <1>3, <2>1, <2>2 DEF IInv, Kept, Loaded
  <2>7. Doomed'
    BY <1>2, <1>3, <1>8, <2>1, <2>2 DEF IInv, Doomed, Loaded
  <2>8. Counted'
    BY <1>3, <2>1 DEF Counted
  <2> QED BY <2>2, <2>4, <2>5, <2>6, <2>7, <2>8 DEF IInv
<1>9. h.op \in {"delete", "insert", "meta"} /\ h.each \in BOOLEAN
  BY <1>2 DEF Stmt
<1> QED BY <1>5, <1>6, <1>7, <1>8, <1>9

\* A statement or a query fails: the counts of memory and disk are no longer
\* promised, what is owed still is.
LEMMA FailIInv == ASSUME IInv, NEW a, Fail(a) PROVE IInv'
<1> DEFINE h == Head(todo)
           r == Tail(todo)
<1>1. /\ failed' = TRUE /\ UNCHANGED <<queue, tail, rows, meta, key, token, stops, owed>>
      /\ Stored' = Stored /\ IsFiniteSet(rows)' /\ TypeOK
  BY DEF Fail, IInv, Stored
<1>2. Doomed' /\ Counted'
  BY <1>1 DEF Doomed, Counted
<1>4. ASSUME Script(todo'), alarms' \subseteq Alarms, UNCHANGED <<next, blind>>,
             \A op : Has(todo', op) => Has(todo, op),
             \A x : Deletes(todo', x) => Deletes(todo, x),
             \A x : Inserts(todo', x) => Inserts(todo, x)
      PROVE  IInv'
  <2>1. TypeOK'
    BY <1>1, <1>4 DEF TypeOK, Script
  <2>2. Quiet' /\ Known'
    BY <1>1, <1>4 DEF IInv, Quiet, Known
  <2>3. Kept'
    BY <1>1, <1>4 DEF IInv, Kept, Loaded
  <2> QED BY <1>1, <1>2, <1>4, <2>1, <2>2, <2>3 DEF IInv
<1>5. CASE GiveUp(a)
  <2>1. todo' = <<>> /\ next' = "none" /\ blind' = (blind \/ ~Loaded)
    BY <1>5 DEF GiveUp, Loaded
  <2>2. alarms' \subseteq Alarms
    BY <1>1, <1>5 DEF GiveUp, Record, Fresh, TypeOK
  <2>3. Script(todo') /\ \A e : ~Deletes(todo', e) /\ ~Inserts(todo', e)
    BY <2>1, EmptyScript
  <2>4. TypeOK'
    <3>1. todo' \in Seq(Stmt) /\ next' = "none" /\ blind' \in BOOLEAN
      BY <2>1, <2>3 DEF Script
    <3> QED BY <1>1, <2>2, <3>1 DEF TypeOK
  <2>5. Quiet' /\ Known'
    BY <2>1, <2>3 DEF Quiet, Known
  <2>6. Kept'
    BY <1>1, <2>1, <2>3 DEF IInv, Kept
  <2> QED BY <1>1, <1>2, <2>3, <2>4, <2>5, <2>6 DEF IInv
<1>6. CASE /\ todo # <<>> /\ UNCHANGED <<next, blind>>
           /\ \/ todo' = r /\ Record(h.op = "insert", a)
              \/ /\ h.each /\ alarms' = alarms
                 /\ \E e \in h.ids :
                      todo' = When(h.ids # {e}, [h EXCEPT !.ids = @ \ {e}]) \o r
  <2>1. Script(todo) /\ todo # <<>>
    BY <1>6 DEF IInv
  <2>2. /\ Script(r) /\ h \in Stmt /\ (h.each => h.op = "delete")
        /\ \A op : Has(todo, op) <=> h.op = op \/ Has(r, op)
        /\ \A e : Deletes(todo, e) <=> (h.op = "delete" /\ e \in h.ids) \/ Deletes(r, e)
        /\ \A e : Inserts(todo, e) <=> (h.op = "insert" /\ e \in h.ids) \/ Inserts(r, e)
    BY <2>1, RestScript
  <2>3. CASE todo' = r /\ Record(h.op = "insert", a)
    <3>1. alarms' \subseteq Alarms
      BY <1>1, <2>3 DEF Record, Fresh, TypeOK
    <3> QED BY <1>4, <1>6, <2>2, <2>3, <3>1
  <2>4. ASSUME h.each, alarms' = alarms, NEW e \in h.ids,
               todo' = When(h.ids # {e}, [h EXCEPT !.ids = @ \ {e}]) \o r
        PROVE  IInv'
    <3> DEFINE d == [h EXCEPT !.ids = h.ids \ {e}]
               w == When(h.ids # {e}, d)
    <3>1. /\ d \in Stmt /\ d.op = "delete" /\ d.ids = Head(todo).ids \ {e}
          /\ Head(todo).op = "delete"
      BY <2>2, <2>4 DEF Stmt
    <3>2. (w = <<>> /\ Head(todo).ids = {e}) \/ w = <<d>>
      BY DEF When
    <3>3. todo' = w \o Tail(todo)
      BY <2>4
    <3> HIDE DEF d, w
    <3>4. /\ Script(todo')
          /\ \A x : Deletes(todo', x) => Deletes(todo, x)
          /\ \A x : Inserts(todo', x) <=> Inserts(todo, x)
          /\ \A op : Has(todo', op) => Has(todo, op)
      BY <2>1, <3>1, <3>2, <3>3, EachScript
    <3>5. alarms' \subseteq Alarms
      BY <1>1, <2>4 DEF TypeOK
    <3> QED BY <1>4, <1>6, <3>4, <3>5
  <2> QED BY <1>6, <2>3, <2>4
<1> QED BY <1>5, <1>6 DEF Fail

\* verify_spool_metadata leaves at most the count to be written.
LEMMA VerifyIInv == ASSUME IInv, NEW a, VerifySpoolMetadata(a) PROVE IInv'
<1> DEFINE matches == meta = [n |-> Cardinality(rows), key |-> key]
<1>1. /\ UNCHANGED <<queue, tail, rows, meta, key, token, stops, owed, blind, failed>>
      /\ Stored' = Stored /\ IsFiniteSet(rows)' /\ TypeOK
      /\ todo = <<>> /\ next \in {"boot", "merge"}
      /\ next' = IF next = "boot" THEN "load" ELSE "fold"
      /\ todo' = When(~matches, RequireMeta)
  BY DEF VerifySpoolMetadata, IInv, Stored
<1>2. alarms' \subseteq Alarms
  BY <1>1 DEF VerifySpoolMetadata, Record, Fresh, TypeOK
<1>3. (todo' = <<>> /\ matches) \/ (todo' = <<RequireMeta>> /\ ~matches)
  BY <1>1 DEF When
<1>4. /\ Script(<<RequireMeta>>) /\ <<RequireMeta>> # <<>>
      /\ ~Has(<<RequireMeta>>, "insert") /\ ~Has(<<RequireMeta>>, "delete")
      /\ \A e : ~Deletes(<<RequireMeta>>, e) /\ ~Inserts(<<RequireMeta>>, e)
  BY MetaScript
<1>5. /\ Script(todo') /\ ~Has(todo', "insert") /\ ~Has(todo', "delete")
      /\ \A e : ~Deletes(todo', e) /\ ~Inserts(todo', e)
      /\ todo' = <<>> => matches
  BY <1>3, <1>4, EmptyScript
<1> HIDE DEF matches
<1>6. Loaded' <=> Loaded
  BY <1>1 DEF Loaded
<1>7. TypeOK'
  <2>1. todo' \in Seq(Stmt) /\ next' \in {"load", "fold"}
    BY <1>1, <1>5 DEF Script
  <2> QED BY <1>1, <1>2, <2>1 DEF TypeOK
<1>8. Quiet' /\ Known'
  BY <1>5 DEF Quiet, Known
<1>9. Kept'
  BY <1>1, <1>5, <1>6 DEF IInv, Kept
<1>10. Doomed'
  <2>1. \A e : ~Deletes(<<>>, e)
    BY EmptyScript
  <2> QED BY <1>1, <1>6, <2>1 DEF IInv, Doomed
<1>11. Counted'
  BY <1>1, <1>5 DEF Counted, matches
<1> QED BY <1>1, <1>5, <1>7, <1>8, <1>9, <1>10, <1>11 DEF IInv

\* load_from_disk puts every row that verifies into memory, and the others
\* into the script.
LEMMA LoadIInv == ASSUME IInv, NEW a, LoadFromDisk(a) PROVE IInv'
<1> DEFINE recorded == IF Tampered = {} THEN alarms ELSE alarms \cup {a}
           new == Repositioned(InTimeOrder(recorded), N + A + 1)
           read == InTimeOrder(Verified)
<1>1. /\ UNCHANGED <<rows, meta, key, token, stops, owed, blind, failed>>
      /\ Stored' = Stored /\ IsFiniteSet(rows)' /\ TypeOK
      /\ todo = <<>> /\ next = "load" /\ next' = "none" /\ alarms' = {}
      /\ todo' = ForgetTampered
      /\ queue' = read \cup new /\ tail' = N + A + 1 + Cardinality(recorded)
  BY DEF LoadFromDisk, IInv, Stored
<1>2. recorded \in SUBSET AllIds
  <2>1. recorded \in SUBSET Alarms
    BY <1>1 DEF LoadFromDisk, Fresh, TypeOK
  <2> QED BY <2>1, IdsFinite
<1>3. IsFiniteSet(recorded) /\ Cardinality(recorded) \in Nat /\ AllIds \in SUBSET Nat
      /\ Verified \in SUBSET AllIds /\ IsFiniteSet(Verified)
  BY <1>2, IdsFinite, RowFacts
<1> HIDE DEF recorded
<1>4. InTimeOrder(recorded) \in Batches(AllIds) /\ read \in Batches(AllIds) /\ Ids(read) = Verified
  BY <1>2, <1>3, InTimeOrderFacts
<1>5. N + A + 1 \in Nat
  BY SpoolAssumption
<1>6. new \in Batches(AllIds)
  BY <1>4, <1>5, RepositionedFacts
<1> HIDE DEF read, new
<1>7. queue' \in Batches(AllIds) /\ tail' \in Nat
  <2>1. read \cup new \in Batches(AllIds)
    BY <1>4, <1>6, BatchesClosed
  <2>2. N + A + 1 + Cardinality(recorded) \in Nat
    BY <1>3, <1>5
  <2> QED BY <1>1, <2>1, <2>2
<1>8. Verified \subseteq Ids(queue')
  BY <1>1, <1>4, IdsUnion
<1>9. /\ Script(todo') /\ \A e : (Deletes(todo', e) <=> e \in Tampered) /\ ~Inserts(todo', e)
  <2>1. CASE Tampered = {}
    BY <1>1, <2>1, EmptyScript DEF ForgetTampered
  <2>2. CASE Tampered # {}
    <3> DEFINE T == Tampered
    <3>1. T \in SUBSET AllIds /\ todo' = <<DeleteEach(T), UpdateMeta>>
      BY <1>1, <2>2, RowFacts DEF ForgetTampered
    <3> HIDE DEF T
    <3>2. Script(todo') /\ \A e : (Deletes(todo', e) <=> e \in T) /\ ~Inserts(todo', e)
      BY <3>1, ForgetScript
    <3> QED BY <3>2 DEF T
  <2> QED BY <2>1, <2>2
<1>10. TypeOK'
  <2>1. todo' \in Seq(Stmt)
    BY <1>9 DEF Script
  <2> QED BY <1>1, <1>7, <2>1 DEF TypeOK
<1>11. Quiet' /\ Known'
  BY <1>1, <1>9 DEF Quiet, Known
<1>12. Kept'
  <2>1. ASSUME ~blind PROVE Stored = Verified /\ Tampered = {}
    BY <2>1, RowFacts
  <2> QED BY <1>1, <1>8, <1>9, <2>1 DEF IInv, Kept
<1>13. Doomed'
  BY <1>1, <1>8, <1>9, RowFacts DEF Doomed
<1>14. Counted'
  BY <1>1 DEF IInv, Counted
<1> QED BY <1>1, <1>9, <1>10, <1>11, <1>12, <1>13, <1>14 DEF IInv

LEMMA MergeBeginIInv == ASSUME IInv, MergeBegin PROVE IInv'
<1>1. /\ UNCHANGED <<queue, tail, rows, meta, todo, key, token, alarms, stops, owed, blind, failed>>
      /\ Stored' = Stored /\ todo = <<>> /\ next = "none" /\ next' = "merge"
  BY DEF MergeBegin, Idle, Stored
<1>2. ~Has(<<>>, "insert") /\ ~Has(<<>>, "delete")
  BY EmptyScript
<1>3. TypeOK' /\ IsFiniteSet(rows)' /\ Script(todo)'
  BY <1>1 DEF IInv, TypeOK
<1>4. Quiet' /\ Known'
  BY <1>1, <1>2 DEF IInv, Quiet, Known
<1>5. Kept' /\ Doomed' /\ Counted'
  BY <1>1 DEF IInv, Kept, Doomed, Counted, Loaded
<1> QED BY <1>3, <1>4, <1>5 DEF IInv

LEMMA RotateIInv == ASSUME IInv, NEW t \in Keys, RotateToken(t) PROVE IInv'
<1>1. /\ UNCHANGED <<queue, tail, rows, meta, todo, next, key, alarms, stops, owed, blind, failed>>
      /\ token' = t /\ Stored' = Stored
  BY DEF RotateToken, Stored
<1>2. TypeOK' /\ IsFiniteSet(rows)' /\ Script(todo)'
  BY <1>1 DEF IInv, TypeOK
<1> QED BY <1>1, <1>2 DEF IInv, Quiet, Known, Kept, Doomed, Counted, Loaded

\* The next process has read nothing yet; under the same key it will find
\* everything that is owed.
LEMMA StopIInv == ASSUME IInv, Stop PROVE IInv'
<1>1. /\ UNCHANGED <<rows, meta, token, owed, failed>> /\ Stored' = Stored
      /\ queue' = {} /\ tail' = 0 /\ alarms' = {} /\ stops' = stops + 1
      /\ key' = token /\ blind' = (blind \/ token # key) /\ next' = "boot"
      /\ todo' = When(meta = NoMeta, RequireMeta)
      /\ TypeOK /\ IsFiniteSet(rows)'
  BY DEF Stop, Stored, IInv
<1>2. todo' = <<>> \/ todo' = <<RequireMeta>>
  BY <1>1 DEF When
<1>3. /\ Script(<<RequireMeta>>)
      /\ ~Has(<<RequireMeta>>, "insert") /\ ~Has(<<RequireMeta>>, "delete")
      /\ \A e : ~Deletes(<<RequireMeta>>, e) /\ ~Inserts(<<RequireMeta>>, e)
  BY MetaScript
<1>4. /\ Script(todo') /\ ~Has(todo', "insert") /\ ~Has(todo', "delete")
      /\ \A e : ~Deletes(todo', e) /\ ~Inserts(todo', e)
  BY <1>2, <1>3, EmptyScript
<1>5. TypeOK'
  <2>1. queue' \in Batches(AllIds)
    BY <1>1, FS_EmptySet DEF Batches
  <2>2. todo' \in Seq(Stmt) /\ stops' \in Nat /\ tail' \in Nat
    BY <1>1, <1>4 DEF Script, TypeOK
  <2>3. blind' \in BOOLEAN
    BY <1>1
  <2> QED BY <1>1, <2>1, <2>2, <2>3 DEF TypeOK
<1>6. Quiet' /\ Known'
  BY <1>4 DEF Quiet, Known
<1>7. Kept'
  BY <1>1, <1>4 DEF IInv, Kept, Loaded
<1>8. Doomed' /\ Counted'
  BY <1>1 DEF Doomed, Counted, Loaded
<1> QED BY <1>1, <1>4, <1>5, <1>6, <1>7, <1>8 DEF IInv

LEMMA NextIInv == IInv /\ [Next]_vars => IInv'
<1> SUFFICES ASSUME IInv, [Next]_vars PROVE IInv'
  OBVIOUS
<1>1. CASE Exec BY <1>1, ExecIInv
<1>2. ASSUME NEW a \in Alarms \cup {0},
             Fail(a) \/ VerifySpoolMetadata(a) \/ LoadFromDisk(a) \/ MergeRows(a)
      PROVE  IInv'
  BY <1>2, FailIInv, VerifyIInv, LoadIInv, MergeRowsIInv
<1>3. ASSUME NEW B \in SUBSET Events, PushBatch(B) PROVE IInv'
  BY <1>3, PushBatchIInv
<1>4. ASSUME NEW ids \in SUBSET AllIds, ConfirmEventIds(ids) PROVE IInv'
  <2> DEFINE done == {q \in queue : q.e \in ids}
  <2>1. Remove(done)
    BY <1>4 DEF ConfirmEventIds
  <2> HIDE DEF done
  <2> QED BY <2>1, RemoveIInv
<1>5. ASSUME NEW count \in 0..MaxSize, ConfirmSent(count) PROVE IInv'
  BY <1>5, RemoveIInv DEF ConfirmSent
<1>6. ASSUME NEW cutoff \in Events, ExpireOldEvents(cutoff) PROVE IInv'
  BY <1>6, ExpireIInv
<1>7. CASE ClearPersistedFile BY <1>7, ClearIInv
<1>8. CASE MergeBegin BY <1>8, MergeBeginIInv
<1>9. ASSUME NEW t \in Keys, RotateToken(t) PROVE IInv'
  BY <1>9, RotateIInv
<1>10. CASE Stop BY <1>10, StopIInv
<1>11. CASE UNCHANGED vars
  <2>1. UNCHANGED <<queue, tail, rows, meta, todo, next, key, token, alarms, stops, owed, blind, failed>>
        /\ Stored' = Stored
    BY <1>11 DEF vars, Stored
  <2> QED BY <2>1 DEF IInv, TypeOK, Quiet, Known, Kept, Doomed, Counted, Loaded
<1> QED BY <1>1, <1>2, <1>3, <1>4, <1>5, <1>6, <1>7, <1>8, <1>9, <1>10, <1>11 DEF Next

-----------------------------------------------------------------------------
(* Theorems.                                                               *)

\* Every reachable state of the spool satisfies the inductive invariant.
THEOREM Invariance == Spec => []IInv
BY InitIInv, NextIInv, PTL DEF Spec

\* Memory, both tables and the script of the operation under way keep their
\* types through every operation, failed statement and restart.
THEOREM TypeCorrect == Spec => []TypeOK
<1>1. IInv => TypeOK
  BY DEF IInv
<1> QED BY <1>1, Invariance, PTL

\* A spooled event leaves the disk only when it was confirmed, expired or
\* evicted, unless a start could not load the rows or had another key: at
\* every statement of every operation, wherever the process stops and
\* whichever statements fail.
THEOREM NoOtherLoss == Spec => []LossExplained
<1>1. IInv => LossExplained
  BY DEF IInv, Kept, LossExplained, Durable
<1> QED BY <1>1, Invariance, PTL

\* Between operations, while no statement has failed, memory knows every row,
\* so clear_persisted_file on an empty queue deletes nothing unknown.
THEOREM RowsKnown == Spec => []RowsInMemory
<1>1. IInv => RowsInMemory
  <2>1. \A e : ~Deletes(<<>>, e)
    BY EmptyScript
  <2> QED BY <2>1 DEF IInv, Doomed, Loaded, RowsInMemory, Idle
<1> QED BY <1>1, Invariance, PTL

\* Between operations, while no statement has failed, the signed pending
\* count is the number of rows: verify_spool_metadata raises no false alarm.
THEOREM CountRight == Spec => []MetaMatches
<1>1. IInv => MetaMatches
  BY DEF IInv, Counted, MetaMatches, Idle
<1> QED BY <1>1, Invariance, PTL
=============================================================================
