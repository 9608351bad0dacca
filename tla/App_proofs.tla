----------------------------- MODULE App_proofs -----------------------------
(***************************************************************************)
(* What holds of the tree of every app, however many constructs it makes,  *)
(* wherever it puts them and whatever it gives them.  A constructor is a   *)
(* list of statements; what it leaves follows from what each statement     *)
(* may rely on of the ones before it.                                      *)
(***************************************************************************)
EXTENDS App, SequenceFacts

-----------------------------------------------------------------------------
(* Lists and paths.  What their elements are is no matter.                 *)
IsList(p) == p \in Seq(ToSet(p))

LEMMA SequenceIsList ==
  ASSUME NEW S, NEW p \in Seq(S)
  PROVE  IsList(p)
<1>1. Len(p) \in Nat /\ DOMAIN p = 1..Len(p) /\ p = [i \in 1..Len(p) |-> p[i]]
  OBVIOUS
<1>2. \A i \in 1..Len(p) : p[i] \in ToSet(p)
  BY <1>1 DEF ToSet
<1>3. QED
  BY <1>1, <1>2 DEF IsList

LEMMA FunctionIsList ==
  ASSUME NEW n \in Nat, NEW p, p = [i \in 1..n |-> p[i]]
  PROVE  IsList(p) /\ DOMAIN p = 1..n /\ Len(p) = n
<1>1. p \in Seq({p[i] : i \in 1..n}) /\ DOMAIN p = 1..n /\ Len(p) = n
  OBVIOUS
<1>2. QED
  BY <1>1, SequenceIsList

LEMMA ListsIn ==
  ASSUME NEW p, NEW q, IsList(p), IsList(q)
  PROVE  \E S : p \in Seq(S) /\ q \in Seq(S)
<1>1. p \in Seq(ToSet(p)) /\ q \in Seq(ToSet(q))
  BY DEF IsList
<1> DEFINE S == ToSet(p) \cup ToSet(q)
<1>2. ToSet(p) \subseteq S /\ ToSet(q) \subseteq S
  OBVIOUS
<1> HIDE DEF S
<1>3. p \in Seq(S) /\ q \in Seq(S)
  BY <1>1, <1>2
<1>4. QED
  BY <1>3

LEMMA AppIsList == IsList(App) /\ Len(App) = 0
<1>1. App \in Seq({}) /\ Len(App) = 0
  BY DEF App
<1>2. QED
  BY <1>1, SequenceIsList

(* The child of a node lies below it, its parent is the node.              *)
LEMMA ChildPath ==
  ASSUME NEW p, IsList(p), NEW x
  PROVE  LET c == p \o <<x>>
         IN  /\ IsList(c) /\ c # App /\ Front(c) = p /\ IsPrefix(p, c)
             /\ Len(c) = Len(p) + 1 /\ Len(p) \in Nat
<1> DEFINE S == ToSet(p) \cup {x}
           c == p \o <<x>>
<1>1. p \in Seq(ToSet(p)) /\ ToSet(p) \subseteq S /\ x \in S
  BY DEF IsList
<1> HIDE DEF S
<1>2. p \in Seq(S) /\ <<x>> \in Seq(S) /\ Len(p) \in Nat
  BY <1>1
<1>3. c \in Seq(S) /\ Len(c) = Len(p) + 1 /\ \A i \in 1..Len(p) : c[i] = p[i]
  BY <1>2
<1>4. IsPrefix(p, c)
  BY <1>2, PrefixOfConcat
<1>5. c # << >>
  BY <1>2, <1>3
<1> HIDE DEF c
<1>6. /\ SubSeq(c, 1, Len(c) - 1) \in Seq(S) /\ Len(SubSeq(c, 1, Len(c) - 1)) = Len(c) - 1
      /\ \A i \in 1..(Len(c) - 1) : SubSeq(c, 1, Len(c) - 1)[i] = c[i]
  BY <1>3, <1>5, FrontElements
<1>7. Front(c) = p
  <2>1. Front(c) = SubSeq(c, 1, Len(c) - 1)
    BY DEF Front
  <2>2. Len(c) - 1 = Len(p)
    BY <1>2, <1>3
  <2> DEFINE f == SubSeq(c, 1, Len(c) - 1)
  <2>3. f \in Seq(S) /\ Len(f) = Len(p) /\ \A i \in 1..Len(p) : f[i] = p[i]
    BY <1>3, <1>6, <2>2
  <2> HIDE DEF f
  <2>4. f = p
    BY <1>2, <2>3
  <2>5. QED
    BY <2>1, <2>4 DEF f
<1>8. IsList(c)
  BY <1>3, SequenceIsList
<1>9. QED
  BY <1>2, <1>3, <1>4, <1>5, <1>7, <1>8 DEF c, App

(* What lies above a node that is not the app is the node or lies above    *)
(* its parent.                                                             *)
LEMMA AboveParent ==
  ASSUME NEW p, IsList(p), p # App, NEW q, IsList(q), IsPrefix(q, p)
  PROVE  /\ IsList(Front(p)) /\ IsPrefix(Front(p), p)
         /\ q = p \/ IsPrefix(q, Front(p))
         /\ Len(p) \in Nat /\ Len(Front(p)) = Len(p) - 1 /\ Len(p) - 1 \in Nat
<1>1. PICK S : p \in Seq(S) /\ q \in Seq(S)
  BY ListsIn
<1>2. p # << >>
  BY DEF App
<1> DEFINE f == Front(p)
<1>3. /\ Len(p) \in Nat /\ Len(p) # 0 /\ Len(p) - 1 \in Nat
      /\ f \in Seq(S) /\ Len(f) = Len(p) - 1 /\ \A i \in 1..(Len(p) - 1) : f[i] = p[i]
  BY <1>1, <1>2, FrontElements DEF Front
<1> HIDE DEF f
<1>4. Len(q) <= Len(p) /\ \A i \in 1..Len(q) : q[i] = p[i]
  BY <1>1, PrefixElements
<1>5. IsList(f)
  BY <1>3, SequenceIsList
<1>6. IsPrefix(f, p)
  <2>1. Len(f) <= Len(p) /\ \A i \in 1..Len(f) : f[i] = p[i]
    BY <1>3
  <2>2. QED
    BY <1>1, <1>3, <2>1, PrefixElements
<1>7. CASE Len(q) = Len(p)
  <2>1. q = p
    BY <1>1, <1>4, <1>7
  <2>2. QED
    BY <1>3, <1>5, <1>6, <2>1 DEF f
<1>8. CASE Len(q) # Len(p)
  <2>1. Len(q) \in Nat
    BY <1>1
  <2>2. Len(q) <= Len(f) /\ \A i \in 1..Len(q) : q[i] = f[i]
    BY <1>3, <1>4, <1>8, <2>1
  <2>3. IsPrefix(q, f)
    BY <1>1, <1>3, <2>2, PrefixElements
  <2>4. QED
    BY <1>3, <1>5, <1>6, <2>3 DEF f
<1>9. QED
  BY <1>7, <1>8

LEMMA BelowParent ==
  ASSUME NEW q, IsList(q), NEW p, IsList(p), p # App, IsPrefix(q, Front(p))
  PROVE  IsPrefix(q, p)
<1>1. PICK S : p \in Seq(S) /\ q \in Seq(S)
  BY ListsIn
<1>2. p # << >>
  BY DEF App
<1> DEFINE f == Front(p)
<1>3. /\ f \in Seq(S) /\ Len(f) = Len(p) - 1 /\ \A i \in 1..(Len(p) - 1) : f[i] = p[i]
      /\ Len(p) \in Nat /\ Len(q) \in Nat
  BY <1>1, <1>2, FrontElements DEF Front
<1> HIDE DEF f
<1>4. IsPrefix(q, f)
  BY DEF f
<1>5. Len(q) <= Len(f) /\ \A i \in 1..Len(q) : q[i] = f[i]
  BY <1>1, <1>3, <1>4, PrefixElements
<1>6. Len(q) <= Len(p) /\ \A i \in 1..Len(q) : q[i] = p[i]
  BY <1>3, <1>5
<1>7. QED
  BY <1>1, <1>6, PrefixElements

-----------------------------------------------------------------------------
(* Trees.                                                                  *)
Rooted(t) ==
  /\ App \in DOMAIN t
  /\ \A p \in DOMAIN t : IsList(p)
  /\ \A p \in DOMAIN t \ {App} : Front(p) \in DOMAIN t

(* Whatever lies above a node of a tree is in it, so nothing lies below a  *)
(* path that is free.                                                      *)
LEMMA AboveIsThere ==
  ASSUME NEW t, Rooted(t), NEW p \in DOMAIN t, NEW q, IsList(q), IsPrefix(q, p)
  PROVE  q \in DOMAIN t
<1> DEFINE Below == {r \in DOMAIN t : IsPrefix(q, r)}
           Lengths == {Len(r) : r \in Below}
<1>1. SUFFICES ASSUME q \notin DOMAIN t PROVE FALSE
  OBVIOUS
<1>2. Len(p) \in Lengths
  OBVIOUS
<1>3. \A r \in DOMAIN t : Len(r) \in Nat
  BY DEF Rooted, IsList
<1>4. Lengths \in SUBSET Nat
  BY <1>3
<1> HIDE DEF Lengths
<1>5. PICK n \in Lengths : n = 0 \/ n - 1 \notin Lengths
  BY <1>2, <1>4, First
<1>6. PICK r \in Below : n = Len(r)
  BY DEF Lengths
<1>7. r \in DOMAIN t /\ IsList(r) /\ IsPrefix(q, r)
  BY DEF Rooted
<1>8. CASE r = App
  <2>1. PICK S : q \in Seq(S) /\ r \in Seq(S)
    BY <1>7, ListsIn
  <2>2. Len(q) <= 0
    BY <2>1, <1>7, <1>8, AppIsList, PrefixElements
  <2>3. q = App
    BY <2>1, <2>2 DEF App
  <2>4. QED
    BY <1>1, <2>3 DEF Rooted
<1>9. CASE r # App
  <2>1. /\ IsPrefix(q, Front(r)) /\ Len(r) \in Nat
        /\ Len(Front(r)) = Len(r) - 1 /\ Len(r) - 1 \in Nat
    BY <1>1, <1>7, <1>9, AboveParent
  <2>2. Front(r) \in Below
    BY <1>7, <1>9, <2>1 DEF Rooted
  <2>3. n - 1 \in Lengths /\ n # 0
    BY <1>6, <2>1, <2>2 DEF Lengths
  <2>4. QED
    BY <1>5, <2>3
<1>10. QED
  BY <1>8, <1>9

LEMMA NothingBelowFree ==
  ASSUME NEW t, Rooted(t), NEW q, IsList(q), q \notin DOMAIN t
  PROVE  \A p \in DOMAIN t : ~ IsPrefix(q, p)
BY AboveIsThere

-----------------------------------------------------------------------------
(* Statements.  B is the set of the statements done before.                *)
Made(B)    == {b.path : b \in {c \in B : c.does = "new"}}
MadeOf(B)  == {b.path : b \in {c \in B : c.does = "new" /\ c.node.type # "Construct"}}

NodeFields == {"type", "name", "refs", "redrive", "adds", "removes"}

\* A node that refers to resources there already, and to queues of other apps.
Ready(B, n) ==
  /\ DOMAIN n = NodeFields
  /\ n.type = "Construct" => n.name = << >>
  /\ n.adds = EmptyMap /\ n.removes = {}
  /\ (n.refs \cup n.redrive) \ {External} \subseteq MadeOf(B)

\* A place for a node: below one made before, or where the constructor puts its own.
Place(self, B, p) == IsList(p) /\ p # App /\ (p = self \/ Front(p) \in Made(B))

Possible(self, B, e) ==
  \/ e.does = "throw"
  \/ e.does = "new"     /\ Place(self, B, e.path) /\ Ready(B, e.node)
  \/ e.does = "add"     /\ e.path \in Made(B)
  \/ e.does = "remove"  /\ \E b \in B : b.does = "new" /\ b.path = e.path /\ b.node.type = "Api"
  \/ e.does = "redrive" /\ e.path \in Made(B) /\ {e.target} \ {External} \subseteq MadeOf(B)
  \/ e.does = "refer"   /\ e.path \in Made(B) /\ e.nodes \subseteq MadeOf(B)

\* Every statement of a list may rely on those before it.
Follows(self, B, ss) ==
  /\ IsList(ss)
  /\ \A i \in DOMAIN ss : Possible(self, B \cup {ss[j] : j \in 1..(i - 1)}, ss[i])

-----------------------------------------------------------------------------
(* What one statement, and a run of them, leaves.                          *)

\* t came from T by constructing self: what was there is as it was, and what is new lies
\* below self and is right.
Grown(self, T, t) ==
  /\ Rooted(t)
  /\ DOMAIN T \subseteq DOMAIN t
  /\ \A p \in DOMAIN T : t[p] = T[p]
  /\ \A p \in DOMAIN t \ DOMAIN T :
       /\ IsPrefix(self, p)
       /\ DOMAIN t[p] = NodeFields
       /\ t[p].type = "Construct" => t[p].name = << >>
       /\ t[p].type # "Api" => t[p].removes = {}
       /\ \A r \in (t[p].refs \cup t[p].redrive) \ {External} :
            r \in DOMAIN t \ DOMAIN T /\ t[r].type # "Construct"

\* The nodes the statements of B made are new in t.
Has(T, t, B) ==
  \A b \in B : b.does = "new" =>
    b.path \in DOMAIN t \ DOMAIN T /\ t[b.path].type = b.node.type

LEMMA MadeIsNew ==
  ASSUME NEW T, NEW t, NEW B, Has(T, t, B)
  PROVE  /\ Made(B) \subseteq DOMAIN t \ DOMAIN T
         /\ \A r \in MadeOf(B) : r \in DOMAIN t \ DOMAIN T /\ t[r].type # "Construct"
BY DEF Has, Made, MadeOf

LEMMA NewGrows ==
  ASSUME NEW T, NEW t, NEW B, NEW self, NEW e,
         Grown(self, T, t), Has(T, t, B), self = App \/ Front(self) \in DOMAIN t,
         Possible(self, B, e), e.does = "new", e.path \notin DOMAIN t, IsList(self)
  PROVE  Grown(self, T, Effect(t, e)) /\ Has(T, Effect(t, e), B \cup {e})
<1> DEFINE u == Effect(t, e)
<1>1. u = Spread(t, [p \in {e.path} |-> e.node])
  BY DEF Effect
<1>2. /\ DOMAIN u = DOMAIN t \cup {e.path}
      /\ u[e.path] = e.node
      /\ \A p \in DOMAIN t : u[p] = t[p]
  BY <1>1 DEF Spread
<1>3. Place(self, B, e.path) /\ Ready(B, e.node)
  BY DEF Possible
<1> HIDE DEF u
<1>4. Made(B) \subseteq DOMAIN t \ DOMAIN T
  BY MadeIsNew
<1>5. \A r \in MadeOf(B) : r \in DOMAIN t \ DOMAIN T /\ t[r].type # "Construct"
  BY MadeIsNew
<1>6. Rooted(u)
  BY <1>2, <1>3, <1>4 DEF Grown, Rooted, Place
<1>7. DOMAIN T \subseteq DOMAIN u /\ \A p \in DOMAIN T : u[p] = T[p]
  BY <1>2 DEF Grown
<1>8. IsPrefix(self, e.path)
  <2>1. CASE e.path = self
    <3>1. PICK S : self \in Seq(S) /\ e.path \in Seq(S)
      BY <2>1, ListsIn
    <3>2. QED
      BY <2>1, <3>1, PrefixElements
  <2>2. CASE e.path # self
    <3>1. IsList(e.path) /\ e.path # App /\ Front(e.path) \in DOMAIN t \ DOMAIN T
      BY <1>3, <1>4, <2>2 DEF Place
    <3>2. IsPrefix(self, Front(e.path))
      BY <3>1 DEF Grown
    <3>3. QED
      BY <3>1, <3>2, BelowParent
  <2>3. QED
    BY <2>1, <2>2
<1>9. ASSUME NEW p \in DOMAIN u \ DOMAIN T
      PROVE  /\ IsPrefix(self, p)
             /\ DOMAIN u[p] = NodeFields
             /\ u[p].type = "Construct" => u[p].name = << >>
             /\ u[p].type # "Api" => u[p].removes = {}
             /\ \A r \in (u[p].refs \cup u[p].redrive) \ {External} :
                  r \in DOMAIN u \ DOMAIN T /\ u[r].type # "Construct"
  <2>1. CASE p = e.path
    BY <2>1, <1>2, <1>3, <1>5, <1>8 DEF Ready
  <2>2. CASE p # e.path
    <3>1. p \in DOMAIN t \ DOMAIN T /\ u[p] = t[p]
      BY <2>2, <1>2
    <3>2. QED
      BY <3>1, <1>2 DEF Grown
  <2>3. QED
    BY <2>1, <2>2
<1>10. Has(T, u, B \cup {e})
  <2>1. e.path \in DOMAIN u \ DOMAIN T /\ u[e.path].type = e.node.type
    BY <1>2 DEF Grown
  <2>2. \A b \in B : b.does = "new" => b.path \in DOMAIN u \ DOMAIN T /\ u[b.path].type = b.node.type
    BY <1>2 DEF Has
  <2>3. QED
    BY <2>1, <2>2 DEF Has
<1>11. QED
  BY <1>6, <1>7, <1>9, <1>10 DEF Grown, u

\* Nodes that are new may change, but not their type.
LEMMA ChangeGrows ==
  ASSUME NEW self, NEW T, NEW t, NEW B, Grown(self, T, t), Has(T, t, B), NEW u, NEW e, e.does # "new",
         DOMAIN u = DOMAIN t,
         \A p \in DOMAIN T : u[p] = t[p],
         \A p \in DOMAIN t \ DOMAIN T :
           /\ DOMAIN u[p] = NodeFields
           /\ u[p].type = t[p].type /\ u[p].name = t[p].name
           /\ u[p].type # "Api" => u[p].removes = t[p].removes
           /\ \A r \in (u[p].refs \cup u[p].redrive) \ {External} :
                r \in DOMAIN t \ DOMAIN T /\ t[r].type # "Construct"
  PROVE  Grown(self, T, u) /\ Has(T, u, B \cup {e})
<1>1. Rooted(u)
  BY DEF Grown, Rooted
<1>2. DOMAIN T \subseteq DOMAIN u /\ \A p \in DOMAIN T : u[p] = T[p]
  BY DEF Grown
<1>3. Has(T, u, B \cup {e})
  BY DEF Has
<1>4. ASSUME NEW p \in DOMAIN u \ DOMAIN T
      PROVE  /\ IsPrefix(self, p)
             /\ DOMAIN u[p] = NodeFields
             /\ u[p].type = "Construct" => u[p].name = << >>
             /\ u[p].type # "Api" => u[p].removes = {}
             /\ \A r \in (u[p].refs \cup u[p].redrive) \ {External} :
                  r \in DOMAIN u \ DOMAIN T /\ u[r].type # "Construct"
  BY DEF Grown
<1>5. QED
  BY <1>1, <1>2, <1>3, <1>4 DEF Grown

LEMMA StatementGrows ==
  ASSUME NEW T, NEW t, NEW B, NEW self, IsList(self), NEW e, Rooted(T),
         Grown(self, T, t), Has(T, t, B), self = App \/ Front(self) \in DOMAIN t,
         Possible(self, B, e), ~ Throws(t, e)
  PROVE  Grown(self, T, Effect(t, e)) /\ Has(T, Effect(t, e), B \cup {e})
<1> DEFINE u == Effect(t, e)
<1>1. Made(B) \subseteq DOMAIN t \ DOMAIN T
  BY MadeIsNew
<1>2. \A r \in MadeOf(B) : r \in DOMAIN t \ DOMAIN T /\ t[r].type # "Construct"
  BY MadeIsNew
<1>3. \A p \in DOMAIN t \ DOMAIN T :
        /\ DOMAIN t[p] = NodeFields
        /\ \A r \in (t[p].refs \cup t[p].redrive) \ {External} :
             r \in DOMAIN t \ DOMAIN T /\ t[r].type # "Construct"
  BY DEF Grown
<1>4. CASE e.does = "new"
  BY <1>4, NewGrows DEF Throws
<1>5. CASE e.does = "add"
  <2>1. u = [t EXCEPT ![e.path].adds = Spread(@, e.tags)]
    BY <1>5 DEF Effect
  <2>2. e.path \in DOMAIN t \ DOMAIN T
    BY <1>1, <1>5 DEF Possible
  <2> HIDE DEF u
  <2>3. /\ DOMAIN u = DOMAIN t
        /\ \A p \in DOMAIN T : u[p] = t[p]
        /\ \A p \in DOMAIN t \ DOMAIN T :
             /\ DOMAIN u[p] = DOMAIN t[p]
             /\ u[p].type = t[p].type /\ u[p].name = t[p].name
             /\ u[p].removes = t[p].removes
             /\ u[p].refs = t[p].refs /\ u[p].redrive = t[p].redrive
    BY <2>1, <2>2, <1>3 DEF NodeFields, Grown
  <2>4. QED
    BY <2>3, <1>3, <1>5, ChangeGrows DEF u
<1>6. CASE e.does = "remove"
  <2>1. u = [t EXCEPT ![e.path].removes = @ \cup e.keys]
    BY <1>6 DEF Effect
  <2>2. e.path \in DOMAIN t \ DOMAIN T /\ t[e.path].type = "Api"
    BY <1>6 DEF Possible, Has
  <2> HIDE DEF u
  <2>3. /\ DOMAIN u = DOMAIN t
        /\ \A p \in DOMAIN T : u[p] = t[p]
        /\ \A p \in DOMAIN t \ DOMAIN T :
             /\ DOMAIN u[p] = DOMAIN t[p]
             /\ u[p].type = t[p].type /\ u[p].name = t[p].name
             /\ u[p].type # "Api" => u[p].removes = t[p].removes
             /\ u[p].refs = t[p].refs /\ u[p].redrive = t[p].redrive
    BY <2>1, <2>2, <1>3 DEF NodeFields, Grown
  <2>4. QED
    BY <2>3, <1>3, <1>6, ChangeGrows DEF u
<1>7. CASE e.does = "redrive"
  <2> DEFINE under == {p \in DOMAIN t : IsPrefix(e.path, p) /\ t[p].type = "Subscription"}
  <2>1. u = [p \in DOMAIN t |-> IF p \in under THEN [t[p] EXCEPT !.redrive = {e.target}] ELSE t[p]]
    BY <1>7 DEF Effect, Redriven, FindAll
  <2>2. e.path \in DOMAIN t \ DOMAIN T
    BY <1>1, <1>7 DEF Possible
  <2>3. {e.target} \ {External} \subseteq MadeOf(B)
    BY <1>7 DEF Possible
  <2>4. \A p \in under : p \notin DOMAIN T
    <3>1. IsList(e.path) /\ e.path \notin DOMAIN T
      BY <2>2 DEF Grown, Rooted
    <3>2. QED
      BY <3>1, NothingBelowFree
  <2> HIDE DEF u, under
  <2>5. /\ DOMAIN u = DOMAIN t
        /\ \A p \in DOMAIN T : u[p] = t[p]
        /\ \A p \in DOMAIN t \ DOMAIN T :
             /\ DOMAIN u[p] = DOMAIN t[p]
             /\ u[p].type = t[p].type /\ u[p].name = t[p].name
             /\ u[p].removes = t[p].removes
             /\ u[p].refs = t[p].refs
             /\ u[p].redrive = t[p].redrive \/ u[p].redrive = {e.target}
    BY <2>1, <2>4, <1>3 DEF NodeFields, Grown
  <2>6. \A p \in DOMAIN t \ DOMAIN T : \A r \in (u[p].refs \cup u[p].redrive) \ {External} :
          r \in DOMAIN t \ DOMAIN T /\ t[r].type # "Construct"
    BY <2>3, <2>5, <1>2, <1>3
  <2>7. QED
    BY <2>5, <2>6, <1>3, <1>7, ChangeGrows DEF u
<1>8. CASE e.does = "refer"
  <2>1. u = [t EXCEPT ![e.path].refs = @ \cup e.nodes]
    BY <1>8 DEF Effect
  <2>2. e.path \in DOMAIN t \ DOMAIN T /\ e.nodes \subseteq MadeOf(B)
    BY <1>1, <1>8 DEF Possible
  <2> HIDE DEF u
  <2>3. /\ DOMAIN u = DOMAIN t
        /\ \A p \in DOMAIN T : u[p] = t[p]
        /\ \A p \in DOMAIN t \ DOMAIN T :
             /\ DOMAIN u[p] = DOMAIN t[p]
             /\ u[p].type = t[p].type /\ u[p].name = t[p].name
             /\ u[p].removes = t[p].removes
             /\ u[p].refs \subseteq t[p].refs \cup e.nodes /\ u[p].redrive = t[p].redrive
    BY <2>1, <2>2, <1>3 DEF NodeFields, Grown
  <2>4. \A p \in DOMAIN t \ DOMAIN T : \A r \in (u[p].refs \cup u[p].redrive) \ {External} :
          r \in DOMAIN t \ DOMAIN T /\ t[r].type # "Construct"
    BY <2>2, <2>3, <1>2, <1>3
  <2>5. QED
    BY <2>3, <2>4, <1>3, <1>8, ChangeGrows DEF u
<1>9. QED
  BY <1>4, <1>5, <1>6, <1>7, <1>8 DEF Possible, Throws

\* What folding statements unfolds to, and that it does.
Folds(f, T, ss, k) ==
  f = [s \in SUBSET (1..k) |-> IF s = {} THEN [tree |-> T, threw |-> FALSE]
                               ELSE Do(f[s \ {Max(s)}], ss[Max(s)])]

LEMMA MaxIs ==
  ASSUME NEW k \in Nat, NEW s \in SUBSET (1..k), k \in s
  PROVE  Max(s) = k
<1>1. \A y \in s : k >= y
  OBVIOUS
<1>2. \A x \in s : (\A y \in s : x >= y) => x = k
  BY <1>1
<1>3. QED
  BY <1>1, <1>2 DEF Max

LEMMA FoldIs ==
  ASSUME NEW T, NEW ss, NEW n \in Nat, DOMAIN ss = 1..n
  PROVE  \E f : Folds(f, T, ss, n) /\ Run(T, ss) = f[1..n]
<1> DEFINE Bad == {k \in 0..n : ~ \E f : Folds(f, T, ss, k)}
           start == [tree |-> T, threw |-> FALSE]
<1>1. Bad = {}
  <2>1. SUFFICES ASSUME Bad # {} PROVE FALSE
    OBVIOUS
  <2>2. Bad \in SUBSET Nat
    OBVIOUS
  <2> HIDE DEF Bad
  <2>3. PICK k \in Bad : k = 0 \/ k - 1 \notin Bad
    BY <2>1, <2>2, First
  <2>4. k \in 0..n /\ ~ \E f : Folds(f, T, ss, k)
    BY DEF Bad
  <2>5. CASE k = 0
    <3> DEFINE f == [s \in SUBSET (1..0) |-> start]
    <3>1. \A s \in SUBSET (1..0) : s = {}
      OBVIOUS
    <3>2. f = [s \in SUBSET (1..0) |-> IF s = {} THEN start ELSE Do(f[s \ {Max(s)}], ss[Max(s)])]
      BY <3>1
    <3> HIDE DEF f
    <3>3. Folds(f, T, ss, 0)
      BY <3>2 DEF Folds
    <3>4. QED
      BY <3>3, <2>4, <2>5
  <2>6. CASE k # 0
    <3>1. k - 1 \in 0..n /\ k \in Nat /\ k - 1 \in Nat
      BY <2>4, <2>6
    <3>2. PICK f : Folds(f, T, ss, k - 1)
      BY <2>3, <2>6, <3>1 DEF Bad
    <3> DEFINE g == [s \in SUBSET (1..k) |-> IF k \in s THEN Do(f[s \ {k}], ss[k]) ELSE f[s]]
    <3> HIDE DEF start
    <3>3. ASSUME NEW s \in SUBSET (1..k)
          PROVE  g[s] = IF s = {} THEN start ELSE Do(g[s \ {Max(s)}], ss[Max(s)])
      <4>1. CASE k \in s
        <5>1. Max(s) = k
          BY <4>1, <3>1, MaxIs
        <5>2. g[s \ {k}] = f[s \ {k}]
          OBVIOUS
        <5>3. g[s] = Do(f[s \ {k}], ss[k])
          BY <4>1
        <5> HIDE DEF g
        <5>4. QED
          BY <4>1, <5>1, <5>2, <5>3
      <4>2. CASE k \notin s
        <5>1. s \in SUBSET (1..(k - 1))
          BY <4>2, <3>1
        <5>2. f[s] = IF s = {} THEN start ELSE Do(f[s \ {Max(s)}], ss[Max(s)])
          BY <5>1, <3>2 DEF Folds, start
        <5>3. g[s] = f[s] /\ g[s \ {Max(s)}] = f[s \ {Max(s)}]
          BY <4>2
        <5> HIDE DEF g
        <5>4. QED
          BY <5>2, <5>3
      <4>3. QED
        BY <4>1, <4>2
    <3>4. g = [s \in SUBSET (1..k) |-> g[s]]
      OBVIOUS
    <3> HIDE DEF g
    <3>5. Folds(g, T, ss, k)
      BY <3>3, <3>4 DEF Folds, start
    <3>6. QED
      BY <3>5, <2>4
  <2>7. QED
    BY <2>5, <2>6
<1>2. \E f : Folds(f, T, ss, n)
  <2>1. n \in 0..n
    OBVIOUS
  <2>2. QED
    BY <1>1, <2>1
<1> DEFINE fold == CHOOSE f : Folds(f, T, ss, n)
<1>3. Folds(fold, T, ss, n)
  BY <1>2, Zenon
<1>4. Run(T, ss) = fold[1..n]
  BY DEF Run, FoldLeft, MapThenFoldSet, Folds
<1>5. QED
  BY <1>3, <1>4

LEMMA RunIs ==
  ASSUME NEW T, NEW ss, NEW n \in Nat, DOMAIN ss = 1..n
  PROVE  \E s : /\ s[0] = [tree |-> T, threw |-> FALSE] /\ s[n] = Run(T, ss)
                /\ \A k \in 1..n : s[k] = Do(s[k - 1], ss[k])
<1>1. PICK f : Folds(f, T, ss, n) /\ Run(T, ss) = f[1..n]
  BY FoldIs
<1> DEFINE s == [k \in 0..n |-> f[1..k]]
<1>2. s[0] = [tree |-> T, threw |-> FALSE]
  <2>1. s[0] = f[1..0] /\ 1..0 = {} /\ {} \in SUBSET (1..n)
    OBVIOUS
  <2>2. QED
    BY <1>1, <2>1 DEF Folds
<1>3. ASSUME NEW k \in 1..n PROVE s[k] = Do(s[k - 1], ss[k])
  <2>1. k \in Nat /\ k \in 0..n /\ k - 1 \in 0..n
    OBVIOUS
  <2>2. /\ 1..k \in SUBSET (1..n) /\ 1..k # {} /\ k \in 1..k
        /\ (1..k) \ {k} = 1..(k - 1)
    OBVIOUS
  <2>3. Max(1..k) = k
    BY <2>1, <2>2, MaxIs
  <2>4. f[1..k] = Do(f[1..(k - 1)], ss[k])
    BY <1>1, <2>2, <2>3 DEF Folds
  <2>5. s[k] = f[1..k] /\ s[k - 1] = f[1..(k - 1)]
    BY <2>1
  <2>6. QED
    BY <2>4, <2>5
<1>4. s[n] = f[1..n]
  OBVIOUS
<1> HIDE DEF s
<1>5. QED
  BY <1>1, <1>2, <1>3, <1>4

LEMMA EffectAdds ==
  ASSUME NEW t, NEW self, NEW B, NEW e, Possible(self, B, e), e.does # "throw"
  PROVE  DOMAIN t \subseteq DOMAIN Effect(t, e)
<1>1. CASE e.does = "new"
  <2>1. Effect(t, e) = Spread(t, [p \in {e.path} |-> e.node])
    BY <1>1 DEF Effect
  <2>2. QED
    BY <2>1 DEF Spread
<1>2. CASE e.does = "add"
  BY <1>2 DEF Effect
<1>3. CASE e.does = "remove"
  BY <1>3 DEF Effect
<1>4. CASE e.does = "redrive"
  BY <1>4 DEF Effect, Redriven
<1>5. CASE e.does = "refer"
  BY <1>5 DEF Effect
<1>6. QED
  BY <1>1, <1>2, <1>3, <1>4, <1>5 DEF Possible

(* A constructor run on a tree its own node is not in yet, statement by    *)
(* statement.                                                              *)
Done(ss, k) == {ss[j] : j \in 1..k}

\* The first k statements led to s[k].
Stepped(self, T, ss, s, k) ==
  /\ DOMAIN s[k] = {"tree", "threw"}
  /\ Grown(self, T, s[k].tree)
  /\ ~ s[k].threw => Has(T, s[k].tree, Done(ss, k))
  /\ k # 0 => self \in DOMAIN s[k].tree

LEMMA RunSteps ==
  ASSUME NEW T, Rooted(T), NEW self, IsList(self), self \notin DOMAIN T, Front(self) \in DOMAIN T,
         NEW ss, Follows(self, {}, ss), Len(ss) # 0, ss[1].does = "new", ss[1].path = self
  PROVE  \E s : /\ s[0] = [tree |-> T, threw |-> FALSE] /\ s[Len(ss)] = Run(T, ss)
                /\ \A k \in 1..Len(ss) : s[k] = Do(s[k - 1], ss[k])
                /\ \A k \in 0..Len(ss) : Stepped(self, T, ss, s, k)
<1> DEFINE n == Len(ss)
           Before(k) == {ss[j] : j \in 1..k}
<1>1. n \in Nat /\ n # 0 /\ DOMAIN ss = 1..n
  BY DEF Follows, IsList
<1>2. \A i \in 1..n : Possible(self, Before(i - 1), ss[i])
  <2>1. \A i \in 1..n : {} \cup Before(i - 1) = Before(i - 1)
    OBVIOUS
  <2>2. QED
    BY <1>1, <2>1 DEF Follows
<1>3. PICK s : /\ s[0] = [tree |-> T, threw |-> FALSE] /\ s[n] = Run(T, ss)
               /\ \A k \in 1..n : s[k] = Do(s[k - 1], ss[k])
  BY <1>1, RunIs
<1> DEFINE Right(k) ==
             /\ DOMAIN s[k] = {"tree", "threw"}
             /\ Grown(self, T, s[k].tree)
             /\ ~ s[k].threw => Has(T, s[k].tree, Before(k))
             /\ k # 0 => self \in DOMAIN s[k].tree
           Wrong == {k \in 0..n : ~ Right(k)}
<1> HIDE DEF n
<1>4. Wrong = {}
  <2>1. SUFFICES ASSUME Wrong # {} PROVE FALSE
    OBVIOUS
  <2>2. Wrong \in SUBSET Nat
    OBVIOUS
  <2> HIDE DEF Wrong
  <2>3. PICK k \in Wrong : k = 0 \/ k - 1 \notin Wrong
    BY <2>1, <2>2, First
  <2>4. k \in 0..n /\ ~ Right(k)
    BY DEF Wrong
  <2>5. CASE k = 0
    <3>1. s[0].tree = T
      BY <1>3
    <3>2. Grown(self, T, T)
      BY DEF Grown
    <3>3. Before(0) = {}
      OBVIOUS
    <3>4. Has(T, T, Before(0))
      BY <3>3 DEF Has
    <3>5. DOMAIN s[0] = {"tree", "threw"} /\ Grown(self, T, s[0].tree) /\ Has(T, s[0].tree, Before(0))
      BY <1>3, <3>1, <3>2, <3>4
    <3> HIDE DEF Before
    <3>6. QED
      BY <2>4, <2>5, <3>5
  <2>6. CASE k # 0
    <3>1. k \in 1..n /\ k - 1 \in 0..n
      BY <1>1, <2>4, <2>6
    <3>2. Right(k - 1)
      BY <2>3, <2>6, <3>1 DEF Wrong
    <3> DEFINE o == s[k - 1]
               e == ss[k]
    <3>3. s[k] = Do(o, e)
      BY <1>3, <3>1
    <3>4. Possible(self, Before(k - 1), e)
      BY <1>2, <3>1
    <3>5. Before(k) = Before(k - 1) \cup {e}
      BY <3>1
    <3>6. Front(self) \in DOMAIN o.tree
      BY <3>2 DEF Grown
    <3>7. k = 1 => o = [tree |-> T, threw |-> FALSE] /\ e.does = "new" /\ e.path = self
      BY <1>3
    <3> HIDE DEF Before, o
    <3>8. CASE o.threw
      <4>1. s[k] = o
        BY <3>3, <3>8 DEF Do
      <4>2. k # 1
        BY <3>7, <3>8
      <4>3. k - 1 # 0
        BY <3>1, <4>2
      <4>4. QED
        BY <2>4, <3>2, <3>8, <4>1, <4>3 DEF o
    <3>9. CASE ~ o.threw /\ Throws(o.tree, e)
      <4>1. s[k] = [o EXCEPT !.threw = TRUE]
        BY <3>3, <3>9 DEF Do
      <4>2. /\ DOMAIN s[k] = {"tree", "threw"} /\ s[k].tree = o.tree /\ s[k].threw
        BY <3>2, <4>1 DEF o
      <4>3. k # 1
        BY <3>7, <3>9 DEF Throws
      <4>4. k - 1 # 0
        BY <3>1, <4>3
      <4>5. QED
        BY <2>4, <3>2, <4>2, <4>4 DEF o
    <3>10. CASE ~ o.threw /\ ~ Throws(o.tree, e)
      <4>1. s[k] = [o EXCEPT !.tree = Effect(@, e)]
        BY <3>3, <3>10 DEF Do
      <4>2. /\ DOMAIN s[k] = {"tree", "threw"} /\ s[k].tree = Effect(o.tree, e)
        BY <3>2, <4>1 DEF o
      <4>3. Grown(self, T, o.tree) /\ Has(T, o.tree, Before(k - 1))
        BY <3>2, <3>10 DEF o
      <4>4. /\ Grown(self, T, Effect(o.tree, e))
            /\ Has(T, Effect(o.tree, e), Before(k - 1) \cup {e})
        BY <3>4, <3>6, <3>10, <4>3, StatementGrows
      <4>5. self \in DOMAIN Effect(o.tree, e)
        <5>1. CASE k = 1
          <6>1. Effect(o.tree, e) = Spread(o.tree, [p \in {e.path} |-> e.node])
            BY <3>7, <5>1 DEF Effect
          <6>2. QED
            BY <3>7, <5>1, <6>1 DEF Spread
        <5>2. CASE k # 1
          <6>1. self \in DOMAIN o.tree
            BY <3>1, <3>2, <5>2 DEF o
          <6>2. DOMAIN o.tree \subseteq DOMAIN Effect(o.tree, e)
            BY <3>4, <3>10, EffectAdds DEF Throws
          <6>3. QED
            BY <6>1, <6>2
        <5>3. QED
          BY <5>1, <5>2
      <4>6. QED
        BY <2>4, <3>5, <4>2, <4>4, <4>5
    <3>11. QED
      BY <3>8, <3>9, <3>10
  <2>7. QED
    BY <2>5, <2>6
<1>5. \A k \in 0..n : Right(k)
  <2> HIDE DEF Right
  <2>1. QED
    BY <1>4
<1>6. \A k \in 0..n : Stepped(self, T, ss, s, k)
  BY <1>5 DEF Stepped, Done
<1>7. QED
  BY <1>3, <1>6 DEF n

LEMMA RunGrows ==
  ASSUME NEW T, Rooted(T), NEW self, IsList(self), self \notin DOMAIN T, Front(self) \in DOMAIN T,
         NEW ss, Follows(self, {}, ss), Len(ss) # 0, ss[1].does = "new", ss[1].path = self
  PROVE  LET s == Run(T, ss)
         IN  /\ Grown(self, T, s.tree) /\ self \in DOMAIN s.tree
             /\ ~ s.threw => Has(T, s.tree, ToSet(ss))
<1>1. Len(ss) \in Nat /\ DOMAIN ss = 1..Len(ss)
  BY DEF Follows, IsList
<1>2. PICK s : s[Len(ss)] = Run(T, ss) /\ \A k \in 0..Len(ss) : Stepped(self, T, ss, s, k)
  BY RunSteps
<1>3. Stepped(self, T, ss, s, Len(ss))
  BY <1>1, <1>2
<1>4. Done(ss, Len(ss)) = ToSet(ss)
  BY <1>1 DEF Done, ToSet
<1>5. QED
  BY <1>2, <1>3, <1>4 DEF Stepped

\* Statements that make no resource.
Idle(ss) ==
  \A e \in ToSet(ss) : e.does = "throw" \/ (e.does = "new" /\ e.node.type = "Construct")

(* Statements that make no resource leave none.                            *)
LEMMA IdleRun ==
  ASSUME NEW T, NEW ss, IsList(ss), Idle(ss)
  PROVE  \A p \in DOMAIN Run(T, ss).tree \ DOMAIN T : Run(T, ss).tree[p].type = "Construct"
<1> DEFINE n == Len(ss)
<1>1. n \in Nat /\ DOMAIN ss = 1..n
  BY DEF IsList
<1>2. PICK s : /\ s[0] = [tree |-> T, threw |-> FALSE] /\ s[n] = Run(T, ss)
               /\ \A k \in 1..n : s[k] = Do(s[k - 1], ss[k])
  BY <1>1, RunIs
<1> DEFINE Right(k) ==
             /\ DOMAIN s[k] = {"tree", "threw"}
             /\ \A p \in DOMAIN s[k].tree \ DOMAIN T : s[k].tree[p].type = "Construct"
           Wrong == {k \in 0..n : ~ Right(k)}
<1> HIDE DEF n
<1>3. Wrong = {}
  <2>1. SUFFICES ASSUME Wrong # {} PROVE FALSE
    OBVIOUS
  <2>2. Wrong \in SUBSET Nat
    OBVIOUS
  <2> HIDE DEF Wrong
  <2>3. PICK k \in Wrong : k = 0 \/ k - 1 \notin Wrong
    BY <2>1, <2>2, First
  <2>4. k \in 0..n /\ ~ Right(k)
    BY DEF Wrong
  <2>5. CASE k = 0
    BY <1>2, <2>4, <2>5
  <2>6. CASE k # 0
    <3>1. k \in 1..n /\ k - 1 \in 0..n
      BY <1>1, <2>4, <2>6
    <3>2. Right(k - 1)
      BY <2>3, <2>6, <3>1 DEF Wrong
    <3> DEFINE o == s[k - 1]
               e == ss[k]
    <3>3. s[k] = Do(o, e)
      BY <1>2, <3>1
    <3>4. e.does = "throw" \/ (e.does = "new" /\ e.node.type = "Construct")
      BY <1>1, <3>1 DEF Idle, ToSet
    <3> HIDE DEF o, e
    <3>5. CASE o.threw
      BY <2>4, <3>2, <3>3, <3>5 DEF Do, o
    <3>6. CASE ~ o.threw /\ Throws(o.tree, e)
      <4>1. s[k] = [o EXCEPT !.threw = TRUE]
        BY <3>3, <3>6 DEF Do
      <4>2. QED
        BY <2>4, <3>2, <4>1 DEF o
    <3>7. CASE ~ o.threw /\ ~ Throws(o.tree, e)
      <4>1. s[k] = [o EXCEPT !.tree = Effect(@, e)] /\ e.does = "new"
        BY <3>3, <3>4, <3>7 DEF Do, Throws
      <4>2. Effect(o.tree, e) = Spread(o.tree, [p \in {e.path} |-> e.node])
        BY <4>1 DEF Effect
      <4>3. DOMAIN s[k] = {"tree", "threw"} /\ s[k].tree = Effect(o.tree, e)
        BY <3>2, <4>1 DEF o
      <4>4. \A p \in DOMAIN s[k].tree \ DOMAIN T : s[k].tree[p].type = "Construct"
        BY <3>2, <3>4, <4>1, <4>2, <4>3 DEF Spread, o
      <4>5. QED
        BY <2>4, <4>3, <4>4
    <3>8. QED
      BY <3>5, <3>6, <3>7
  <2>7. QED
    BY <2>5, <2>6
<1>4. Right(n)
  <2>1. n \in 0..n
    BY <1>1
  <2> HIDE DEF Right
  <2>2. QED
    BY <1>3, <2>1
<1>5. QED
  BY <1>2, <1>4

-----------------------------------------------------------------------------
(* Where what a run leaves comes from.                                     *)

\* Every new node was made by a statement of B, and so was what is on it.
Traced(T, t, B) ==
  \A p \in DOMAIN t \ DOMAIN T :
    /\ \E e \in B : e.does = "new" /\ e.path = p /\ e.node.type = t[p].type
    /\ t[p].removes # {} => \E e \in B : e.does = "remove" /\ e.path = p
    /\ \A k \in DOMAIN t[p].adds :
         \E e \in B : e.does = "add" /\ e.path = p /\ k \in DOMAIN e.tags /\ t[p].adds[k] = e.tags[k]

\* What the statements of B add and remove is in t.
Applied(t, B) ==
  \A e \in B :
    /\ e.does = "add" => e.path \in DOMAIN t /\ DOMAIN e.tags \subseteq DOMAIN t[e.path].adds
    /\ e.does = "remove" => e.path \in DOMAIN t /\ e.keys \subseteq t[e.path].removes

\* Every new subscription has the target as its redrive policy.
Redirected(T, t, target) ==
  \A p \in DOMAIN t \ DOMAIN T : t[p].type = "Subscription" => t[p].redrive = {target}

SameTypes(t, u) == \A p \in DOMAIN t : p \in DOMAIN u /\ u[p].type = t[p].type

\* A statement does to the tags of the nodes that are there what it says, and no more.
LEMMA NewTraces ==
  ASSUME NEW T, NEW t, NEW B, NEW self, NEW e, Traced(T, t, B), Applied(t, B),
         Possible(self, B, e), e.does = "new", e.path \notin DOMAIN t
  PROVE  /\ Traced(T, Effect(t, e), B \cup {e}) /\ Applied(Effect(t, e), B \cup {e})
         /\ SameTypes(t, Effect(t, e))
<1> DEFINE u == Effect(t, e)
<1>1. u = Spread(t, [p \in {e.path} |-> e.node])
  BY DEF Effect
<1>2. /\ DOMAIN u = DOMAIN t \cup {e.path}
      /\ u[e.path] = e.node
      /\ \A p \in DOMAIN t : u[p] = t[p]
  BY <1>1 DEF Spread
<1>3. e.node.adds = EmptyMap /\ e.node.removes = {}
  BY DEF Possible, Ready
<1>4. DOMAIN e.node.adds = {}
  BY <1>3 DEF EmptyMap
<1> HIDE DEF u
<1>5. ASSUME NEW p \in DOMAIN u \ DOMAIN T
      PROVE  /\ \E b \in B \cup {e} : b.does = "new" /\ b.path = p /\ b.node.type = u[p].type
             /\ u[p].removes # {} => \E b \in B \cup {e} : b.does = "remove" /\ b.path = p
             /\ \A k \in DOMAIN u[p].adds : \E b \in B \cup {e} :
                  b.does = "add" /\ b.path = p /\ k \in DOMAIN b.tags /\ u[p].adds[k] = b.tags[k]
  <2>1. CASE p = e.path
    BY <2>1, <1>2, <1>3, <1>4
  <2>2. CASE p # e.path
    <3>1. p \in DOMAIN t \ DOMAIN T /\ u[p] = t[p]
      BY <2>2, <1>2
    <3>2. QED
      BY <3>1 DEF Traced
  <2>3. QED
    BY <2>1, <2>2
<1>6. Traced(T, u, B \cup {e})
  BY <1>5 DEF Traced
<1>7. Applied(u, B \cup {e})
  BY <1>2 DEF Applied
<1>8. QED
  BY <1>2, <1>6, <1>7 DEF SameTypes, u

LEMMA ChangeTraces ==
  ASSUME NEW T, NEW t, NEW B, NEW e, NEW u, Traced(T, t, B), Applied(t, B),
         DOMAIN u = DOMAIN t,
         \A p \in DOMAIN t :
           /\ u[p].type = t[p].type
           /\ DOMAIN t[p].adds \subseteq DOMAIN u[p].adds
           /\ t[p].removes \subseteq u[p].removes,
         \A p \in DOMAIN t \ DOMAIN T :
           /\ u[p].removes # t[p].removes => e.does = "remove" /\ e.path = p
           /\ \A k \in DOMAIN u[p].adds :
                \/ k \in DOMAIN t[p].adds /\ u[p].adds[k] = t[p].adds[k]
                \/ e.does = "add" /\ e.path = p /\ k \in DOMAIN e.tags /\ u[p].adds[k] = e.tags[k],
         e.does = "add" => e.path \in DOMAIN u /\ DOMAIN e.tags \subseteq DOMAIN u[e.path].adds,
         e.does = "remove" => e.path \in DOMAIN u /\ e.keys \subseteq u[e.path].removes
  PROVE  Traced(T, u, B \cup {e}) /\ Applied(u, B \cup {e})
<1>1. ASSUME NEW p \in DOMAIN u \ DOMAIN T
      PROVE  /\ \E b \in B \cup {e} : b.does = "new" /\ b.path = p /\ b.node.type = u[p].type
             /\ u[p].removes # {} => \E b \in B \cup {e} : b.does = "remove" /\ b.path = p
             /\ \A k \in DOMAIN u[p].adds : \E b \in B \cup {e} :
                  b.does = "add" /\ b.path = p /\ k \in DOMAIN b.tags /\ u[p].adds[k] = b.tags[k]
  <2>1. \E b \in B \cup {e} : b.does = "new" /\ b.path = p /\ b.node.type = u[p].type
    BY <1>1 DEF Traced
  <2>2. ASSUME u[p].removes # {} PROVE \E b \in B \cup {e} : b.does = "remove" /\ b.path = p
    BY <1>1, <2>2 DEF Traced
  <2>3. ASSUME NEW k \in DOMAIN u[p].adds
        PROVE  \E b \in B \cup {e} :
                 b.does = "add" /\ b.path = p /\ k \in DOMAIN b.tags /\ u[p].adds[k] = b.tags[k]
    <3>1. CASE k \in DOMAIN t[p].adds /\ u[p].adds[k] = t[p].adds[k]
      BY <1>1, <3>1 DEF Traced
    <3>2. CASE e.does = "add" /\ e.path = p /\ k \in DOMAIN e.tags /\ u[p].adds[k] = e.tags[k]
      BY <3>2
    <3>3. QED
      BY <1>1, <2>3, <3>1, <3>2
  <2>4. QED
    BY <2>1, <2>2, <2>3
<1>2. Applied(u, B \cup {e})
  BY DEF Applied
<1>3. QED
  BY <1>1, <1>2 DEF Traced

LEMMA StatementTraces ==
  ASSUME NEW T, NEW t, NEW B, NEW self, NEW e, Grown(self, T, t), Has(T, t, B),
         Rooted(T), IsList(self), Traced(T, t, B), Applied(t, B),
         Possible(self, B, e), ~ Throws(t, e)
  PROVE  /\ Traced(T, Effect(t, e), B \cup {e}) /\ Applied(Effect(t, e), B \cup {e})
         /\ SameTypes(t, Effect(t, e))
<1> DEFINE u == Effect(t, e)
<1>1. Made(B) \subseteq DOMAIN t \ DOMAIN T
  BY MadeIsNew
<1>2. \A p \in DOMAIN t \ DOMAIN T : DOMAIN t[p] = NodeFields
  BY DEF Grown
<1>3. CASE e.does = "new"
  BY <1>3, NewTraces DEF Throws
<1>4. CASE e.does = "add"
  <2>1. u = [t EXCEPT ![e.path].adds = Spread(@, e.tags)]
    BY <1>4 DEF Effect
  <2>2. e.path \in DOMAIN t \ DOMAIN T
    BY <1>1, <1>4 DEF Possible
  <2> HIDE DEF u
  <2>3. /\ DOMAIN u = DOMAIN t
        /\ \A p \in DOMAIN t : p # e.path => u[p] = t[p]
        /\ u[e.path].type = t[e.path].type /\ u[e.path].removes = t[e.path].removes
        /\ u[e.path].adds = Spread(t[e.path].adds, e.tags)
    BY <2>1, <2>2, <1>2 DEF NodeFields
  <2>4. /\ DOMAIN u[e.path].adds = DOMAIN t[e.path].adds \cup DOMAIN e.tags
        /\ \A k \in DOMAIN u[e.path].adds :
             u[e.path].adds[k] = IF k \in DOMAIN e.tags THEN e.tags[k] ELSE t[e.path].adds[k]
    BY <2>3 DEF Spread
  <2>5. Traced(T, u, B \cup {e}) /\ Applied(u, B \cup {e})
    BY <1>4, <2>2, <2>3, <2>4, ChangeTraces
  <2>6. QED
    BY <2>3, <2>5 DEF SameTypes, u
<1>5. CASE e.does = "remove"
  <2>1. u = [t EXCEPT ![e.path].removes = @ \cup e.keys]
    BY <1>5 DEF Effect
  <2>2. e.path \in DOMAIN t \ DOMAIN T
    BY <1>1, <1>5 DEF Possible, Made
  <2> HIDE DEF u
  <2>3. /\ DOMAIN u = DOMAIN t
        /\ \A p \in DOMAIN t : p # e.path => u[p] = t[p]
        /\ u[e.path].type = t[e.path].type /\ u[e.path].adds = t[e.path].adds
        /\ u[e.path].removes = t[e.path].removes \cup e.keys
    BY <2>1, <2>2, <1>2 DEF NodeFields
  <2>4. Traced(T, u, B \cup {e}) /\ Applied(u, B \cup {e})
    BY <1>5, <2>2, <2>3, ChangeTraces
  <2>5. QED
    BY <2>3, <2>4 DEF SameTypes, u
<1>6. CASE e.does = "redrive"
  <2> DEFINE under == {p \in DOMAIN t : IsPrefix(e.path, p) /\ t[p].type = "Subscription"}
  <2>1. u = [p \in DOMAIN t |-> IF p \in under THEN [t[p] EXCEPT !.redrive = {e.target}] ELSE t[p]]
    BY <1>6 DEF Effect, Redriven, FindAll
  <2>2. e.path \in DOMAIN t \ DOMAIN T
    BY <1>1, <1>6 DEF Possible
  <2>3. under \cap DOMAIN T = {}
    <3>1. IsList(e.path) /\ e.path \notin DOMAIN T
      BY <2>2 DEF Grown, Rooted
    <3>2. QED
      BY <3>1, NothingBelowFree
  <2> HIDE DEF u, under
  <2>4. /\ DOMAIN u = DOMAIN t
        /\ \A p \in DOMAIN t :
             u[p].type = t[p].type /\ u[p].adds = t[p].adds /\ u[p].removes = t[p].removes
    <3>1. ASSUME NEW p \in DOMAIN t
          PROVE  u[p].type = t[p].type /\ u[p].adds = t[p].adds /\ u[p].removes = t[p].removes
      <4>1. CASE p \in under
        <5>1. DOMAIN t[p] = NodeFields
          BY <1>2, <2>3, <4>1
        <5>2. QED
          BY <2>1, <4>1, <5>1 DEF NodeFields
      <4>2. CASE p \notin under
        BY <2>1, <4>2
      <4>3. QED
        BY <4>1, <4>2
    <3>2. QED
      BY <2>1, <3>1
  <2>5. Traced(T, u, B \cup {e}) /\ Applied(u, B \cup {e})
    BY <1>6, <2>4, ChangeTraces
  <2>6. QED
    BY <2>4, <2>5 DEF SameTypes, u
<1>7. CASE e.does = "refer"
  <2>1. u = [t EXCEPT ![e.path].refs = @ \cup e.nodes]
    BY <1>7 DEF Effect
  <2>2. e.path \in DOMAIN t \ DOMAIN T
    BY <1>1, <1>7 DEF Possible
  <2> HIDE DEF u
  <2>3. /\ DOMAIN u = DOMAIN t
        /\ \A p \in DOMAIN t : p # e.path => u[p] = t[p]
        /\ u[e.path].type = t[e.path].type /\ u[e.path].adds = t[e.path].adds
        /\ u[e.path].removes = t[e.path].removes
    BY <2>1, <2>2, <1>2 DEF NodeFields
  <2>4. \A p \in DOMAIN t :
          u[p].type = t[p].type /\ u[p].adds = t[p].adds /\ u[p].removes = t[p].removes
    BY <2>3
  <2>5. Traced(T, u, B \cup {e}) /\ Applied(u, B \cup {e})
    BY <1>7, <2>3, <2>4, ChangeTraces
  <2>6. QED
    BY <2>3, <2>4, <2>5 DEF SameTypes, u
<1>8. QED
  BY <1>3, <1>4, <1>5, <1>6, <1>7 DEF Possible, Throws

\* Setting the redrive policy, and tagging after it.
LEMMA RedriveRedirects ==
  ASSUME NEW T, NEW t, NEW self, NEW B, NEW e, Grown(self, T, t), NEW target,
         e = Redrive(self, target)
  PROVE  Redirected(T, Effect(t, e), target)
<1>1. e.does = "redrive" /\ e.path = self /\ e.target = target
  BY DEF Redrive
<1> DEFINE u == Effect(t, e)
           under == {p \in DOMAIN t : IsPrefix(self, p) /\ t[p].type = "Subscription"}
<1>2. u = [p \in DOMAIN t |-> IF p \in under THEN [t[p] EXCEPT !.redrive = {target}] ELSE t[p]]
  BY <1>1 DEF Effect, Redriven, FindAll
<1>3. \A p \in DOMAIN t \ DOMAIN T : DOMAIN t[p] = NodeFields /\ IsPrefix(self, p)
  BY DEF Grown
<1> HIDE DEF u
<1>4. ASSUME NEW p \in DOMAIN u \ DOMAIN T, u[p].type = "Subscription"
      PROVE  u[p].redrive = {target}
  <2>1. p \in DOMAIN t \ DOMAIN T
    BY <1>2, <1>4
  <2>2. p \in under
    <3>1. SUFFICES ASSUME p \notin under PROVE FALSE
      OBVIOUS
    <3>2. u[p] = t[p]
      BY <1>2, <2>1, <3>1
    <3>3. QED
      BY <1>3, <1>4, <2>1, <3>1, <3>2
  <2>3. u[p] = [t[p] EXCEPT !.redrive = {target}]
    BY <1>2, <2>2
  <2>4. QED
    BY <1>3, <2>1, <2>3 DEF NodeFields
<1>5. QED
  BY <1>4 DEF Redirected, u

LEMMA AddRedirects ==
  ASSUME NEW T, NEW t, NEW self, Grown(self, T, t), NEW e, NEW target,
         Redirected(T, t, target), e.does = "add"
  PROVE  Redirected(T, Effect(t, e), target)
<1> DEFINE u == Effect(t, e)
<1>1. u = [t EXCEPT ![e.path].adds = Spread(@, e.tags)]
  BY DEF Effect
<1> HIDE DEF u
<1>2. /\ DOMAIN u = DOMAIN t
      /\ \A p \in DOMAIN t : u[p] = t[p] \/ u[p] = [t[p] EXCEPT !.adds = Spread(@, e.tags)]
  BY <1>1
<1>3. \A p \in DOMAIN t \ DOMAIN T : u[p].type = "Subscription" => u[p].redrive = {target}
  <2>1. \A p \in DOMAIN t \ DOMAIN T : DOMAIN t[p] = NodeFields
    BY DEF Grown
  <2>2. ASSUME NEW p \in DOMAIN t \ DOMAIN T, u[p].type = "Subscription"
        PROVE  u[p].redrive = {target}
    <3>1. u[p].type = t[p].type /\ u[p].redrive = t[p].redrive
      BY <1>2, <2>1 DEF NodeFields
    <3>2. QED
      BY <2>2, <3>1 DEF Redirected
  <2>3. QED
    BY <2>2
<1>4. QED
  BY <1>2, <1>3 DEF Redirected, u

\* The first k statements set the redrive policy, and only tagged after that.
RedriveEnds(self, target, ss, k) ==
  \E j \in 1..k : ss[j] = Redrive(self, target) /\ \A i \in 1..k : i > j => ss[i].does = "add"

LEMMA RunTraces ==
  ASSUME NEW T, Rooted(T), NEW self, IsList(self), self \notin DOMAIN T, Front(self) \in DOMAIN T,
         NEW ss, Follows(self, {}, ss), Len(ss) # 0, ss[1] = New(self, Construct)
  PROVE  LET s == Run(T, ss)
         IN  /\ Traced(T, s.tree, ToSet(ss))
             /\ s.tree[self].type = "Construct"
             /\ ~ s.threw =>
                  /\ Applied(s.tree, ToSet(ss))
                  /\ \A target : RedriveEnds(self, target, ss, Len(ss)) => Redirected(T, s.tree, target)
<1> DEFINE n == Len(ss)
<1>1. n \in Nat /\ n # 0 /\ DOMAIN ss = 1..n
  BY DEF Follows, IsList
<1>2. \A i \in 1..n : Possible(self, Done(ss, i - 1), ss[i])
  <2>1. \A i \in 1..n : {} \cup {ss[j] : j \in 1..(i - 1)} = Done(ss, i - 1)
    BY DEF Done
  <2>2. QED
    BY <1>1, <2>1 DEF Follows
<1>3. ss[1].does = "new" /\ ss[1].path = self /\ ss[1].node.type = "Construct"
  BY DEF New, Construct, Resource
<1>4. PICK s : /\ s[0] = [tree |-> T, threw |-> FALSE] /\ s[n] = Run(T, ss)
               /\ \A k \in 1..n : s[k] = Do(s[k - 1], ss[k])
               /\ \A k \in 0..n : Stepped(self, T, ss, s, k)
  BY <1>3, RunSteps
<1> DEFINE Right(k) ==
             /\ Traced(T, s[k].tree, Done(ss, k))
             /\ k # 0 => s[k].tree[self].type = "Construct"
             /\ ~ s[k].threw =>
                  /\ Applied(s[k].tree, Done(ss, k))
                  /\ \A target : RedriveEnds(self, target, ss, k) => Redirected(T, s[k].tree, target)
           Wrong == {k \in 0..n : ~ Right(k)}
<1> HIDE DEF n
<1>5. Wrong = {}
  <2>1. SUFFICES ASSUME Wrong # {} PROVE FALSE
    OBVIOUS
  <2>2. Wrong \in SUBSET Nat
    OBVIOUS
  <2> HIDE DEF Wrong
  <2>3. PICK k \in Wrong : k = 0 \/ k - 1 \notin Wrong
    BY <2>1, <2>2, First
  <2>4. k \in 0..n /\ ~ Right(k)
    BY DEF Wrong
  <2>5. CASE k = 0
    <3>1. s[0].tree = T /\ Done(ss, 0) = {}
      BY <1>4 DEF Done
    <3>2. Traced(T, s[0].tree, Done(ss, 0)) /\ Applied(s[0].tree, Done(ss, 0))
      BY <3>1 DEF Traced, Applied
    <3>3. \A target : ~ RedriveEnds(self, target, ss, 0)
      BY DEF RedriveEnds
    <3>4. QED
      BY <2>4, <2>5, <3>2, <3>3
  <2>6. CASE k # 0
    <3>1. k \in 1..n /\ k - 1 \in 0..n
      BY <1>1, <2>4, <2>6
    <3>2. Right(k - 1)
      BY <2>3, <2>6, <3>1 DEF Wrong
    <3> DEFINE o == s[k - 1]
               e == ss[k]
    <3>3. s[k] = Do(o, e)
      BY <1>4, <3>1
    <3>4. Possible(self, Done(ss, k - 1), e)
      BY <1>2, <3>1
    <3>5. Done(ss, k) = Done(ss, k - 1) \cup {e}
      BY <3>1 DEF Done
    <3>6. Stepped(self, T, ss, s, k - 1) /\ Stepped(self, T, ss, s, k)
      BY <1>4, <3>1
    <3>7. k = 1 => o = [tree |-> T, threw |-> FALSE] /\ e.does = "new" /\ e.path = self
                   /\ e.node.type = "Construct"
      BY <1>3, <1>4
    <3>8. /\ DOMAIN o = {"tree", "threw"} /\ Grown(self, T, o.tree)
          /\ ~ o.threw => Has(T, o.tree, Done(ss, k - 1))
          /\ k # 1 => self \in DOMAIN o.tree
      BY <3>1, <3>6 DEF Stepped
    <3>9. /\ Traced(T, o.tree, Done(ss, k - 1))
          /\ k # 1 => o.tree[self].type = "Construct"
          /\ ~ o.threw =>
               /\ Applied(o.tree, Done(ss, k - 1))
               /\ \A target : RedriveEnds(self, target, ss, k - 1) => Redirected(T, o.tree, target)
      BY <3>1, <3>2
    <3> HIDE DEF o, e, Right
    <3>10. CASE o.threw \/ Throws(o.tree, e)
      <4>1. s[k].threw /\ s[k].tree = o.tree
        BY <3>3, <3>8, <3>10 DEF Do
      <4>2. k # 1
        BY <3>7, <3>10 DEF Throws
      <4>3. Traced(T, o.tree, Done(ss, k))
        BY <3>5, <3>9 DEF Traced
      <4>4. QED
        BY <2>4, <3>9, <4>1, <4>2, <4>3 DEF Right
    <3>11. CASE ~ o.threw /\ ~ Throws(o.tree, e)
      <4>1. s[k] = [o EXCEPT !.tree = Effect(@, e)]
        BY <3>3, <3>11 DEF Do
      <4>2. s[k].tree = Effect(o.tree, e)
        BY <3>8, <4>1
      <4> DEFINE u == Effect(o.tree, e)
      <4>3. /\ Traced(T, u, Done(ss, k - 1) \cup {e}) /\ Applied(u, Done(ss, k - 1) \cup {e})
            /\ SameTypes(o.tree, u)
        BY <3>4, <3>8, <3>9, <3>11, StatementTraces
      <4>4. Traced(T, u, Done(ss, k)) /\ Applied(u, Done(ss, k))
        BY <3>5, <4>3
      <4>5. u[self].type = "Construct"
        <5>1. CASE k = 1
          <6>1. u = Spread(o.tree, [p \in {self} |-> e.node])
            BY <3>7, <5>1 DEF Effect
          <6>2. QED
            BY <3>7, <5>1, <6>1 DEF Spread
        <5>2. CASE k # 1
          BY <3>8, <3>9, <4>3, <5>2 DEF SameTypes
        <5>3. QED
          BY <5>1, <5>2
      <4>6. ASSUME NEW target, RedriveEnds(self, target, ss, k)
            PROVE  Redirected(T, u, target)
        <5>1. PICK j \in 1..k : ss[j] = Redrive(self, target)
                                /\ \A i \in 1..k : i > j => ss[i].does = "add"
          BY <4>6 DEF RedriveEnds
        <5>2. CASE j = k
          BY <3>8, <5>1, <5>2, RedriveRedirects DEF e
        <5>3. CASE j # k
          <6>1. j \in 1..(k - 1) /\ k > j /\ k \in 1..k
            BY <3>1, <5>3
          <6>2. e.does = "add"
            BY <5>1, <6>1 DEF e
          <6>3. \A i \in 1..(k - 1) : i \in 1..k
            BY <3>1
          <6>4. RedriveEnds(self, target, ss, k - 1)
            BY <5>1, <6>1, <6>3 DEF RedriveEnds
          <6>5. QED
            BY <3>8, <3>9, <3>11, <6>2, <6>4, AddRedirects
        <5>4. QED
          BY <5>2, <5>3
      <4> HIDE DEF u
      <4>7. s[k].tree = u
        BY <4>2 DEF u
      <4>8. QED
        BY <2>4, <4>4, <4>5, <4>6, <4>7 DEF Right
    <3>12. QED
      BY <3>10, <3>11
  <2>7. QED
    BY <2>5, <2>6
<1>6. Right(n)
  <2>1. n \in 0..n
    BY <1>1
  <2> HIDE DEF Right
  <2>2. QED
    BY <1>5, <2>1
<1>7. Done(ss, n) = ToSet(ss)
  BY <1>1 DEF Done, ToSet
<1>8. QED
  BY <1>1, <1>4, <1>6, <1>7 DEF n

-----------------------------------------------------------------------------
(* How lists of statements are put together.                               *)
LEMMA MoreMade ==
  ASSUME NEW B, NEW C, B \subseteq C
  PROVE  Made(B) \subseteq Made(C) /\ MadeOf(B) \subseteq MadeOf(C)
BY DEF Made, MadeOf

LEMMA MorePossible ==
  ASSUME NEW self, NEW B, NEW C, B \subseteq C, NEW e, Possible(self, B, e)
  PROVE  Possible(self, C, e)
<1>1. Made(B) \subseteq Made(C) /\ MadeOf(B) \subseteq MadeOf(C)
  BY MoreMade
<1>2. CASE e.does = "new"
  <2>1. Place(self, B, e.path) /\ Ready(B, e.node)
    BY <1>2 DEF Possible
  <2>2. Place(self, C, e.path)
    BY <1>1, <2>1 DEF Place
  <2>3. Ready(C, e.node)
    BY <1>1, <2>1 DEF Ready
  <2>4. QED
    BY <1>2, <2>2, <2>3 DEF Possible
<1>3. CASE e.does # "new"
  BY <1>1, <1>3 DEF Possible
<1>4. QED
  BY <1>2, <1>3

LEMMA MoreFollows ==
  ASSUME NEW self, NEW B, NEW C, B \subseteq C, NEW s, Follows(self, B, s)
  PROVE  Follows(self, C, s)
<1>1. ASSUME NEW i \in DOMAIN s
      PROVE  Possible(self, C \cup {s[j] : j \in 1..(i - 1)}, s[i])
  <2>1. Possible(self, B \cup {s[j] : j \in 1..(i - 1)}, s[i])
    BY DEF Follows
  <2>2. B \cup {s[j] : j \in 1..(i - 1)} \subseteq C \cup {s[j] : j \in 1..(i - 1)}
    OBVIOUS
  <2>3. QED
    BY <2>1, <2>2, MorePossible
<1>2. QED
  BY <1>1 DEF Follows

LEMMA NothingFollows ==
  ASSUME NEW self, NEW B
  PROVE  Follows(self, B, << >>) /\ ToSet(<< >>) = {}
<1>1. << >> \in Seq({}) /\ DOMAIN << >> = {}
  OBVIOUS
<1>2. IsList(<< >>)
  BY <1>1, SequenceIsList
<1>3. QED
  BY <1>1, <1>2 DEF Follows, ToSet

LEMMA OneFollows ==
  ASSUME NEW self, NEW B, NEW e, Possible(self, B, e)
  PROVE  Follows(self, B, <<e>>) /\ ToSet(<<e>>) = {e}
<1>1. <<e>> \in Seq({e}) /\ DOMAIN <<e>> = {1} /\ <<e>>[1] = e
  OBVIOUS
<1>2. IsList(<<e>>)
  BY <1>1, SequenceIsList
<1>3. B \cup {<<e>>[j] : j \in 1..(1 - 1)} = B
  OBVIOUS
<1>4. QED
  BY <1>1, <1>2, <1>3 DEF Follows, ToSet

LEMMA ListsJoin ==
  ASSUME NEW s, NEW t, IsList(s), IsList(t)
  PROVE  /\ IsList(s \o t)
         /\ ToSet(s \o t) = ToSet(s) \cup ToSet(t)
<1>1. PICK S : s \in Seq(S) /\ t \in Seq(S)
  BY ListsIn
<1> DEFINE n == Len(s)
           m == Len(t)
           u == s \o t
<1>2. /\ u \in Seq(S) /\ n \in Nat /\ m \in Nat
      /\ DOMAIN u = 1..(n + m) /\ DOMAIN s = 1..n /\ DOMAIN t = 1..m
      /\ \A i \in 1..n : u[i] = s[i]
      /\ \A i \in 1..m : u[n + i] = t[i]
  BY <1>1
<1> HIDE DEF n, m, u
<1>3. \A i \in DOMAIN u : u[i] \in ToSet(s) \cup ToSet(t)
  <2>1. ASSUME NEW i \in DOMAIN u, ~ (i <= n) PROVE u[i] \in ToSet(t)
    <3>1. i - n \in 1..m /\ n + (i - n) = i
      BY <1>2, <2>1
    <3>2. u[i] = t[i - n]
      BY <1>2, <3>1
    <3>3. QED
      BY <1>2, <3>1, <3>2 DEF ToSet
  <2>2. QED
    BY <1>2, <2>1 DEF ToSet
<1>4. \A i \in DOMAIN s : s[i] \in ToSet(u)
  BY <1>2 DEF ToSet
<1>5. \A i \in DOMAIN t : t[i] \in ToSet(u)
  <2>1. \A i \in DOMAIN t : n + i \in DOMAIN u /\ t[i] = u[n + i]
    BY <1>2
  <2>2. QED
    BY <2>1 DEF ToSet
<1>6. ToSet(u) = ToSet(s) \cup ToSet(t)
  BY <1>3, <1>4, <1>5 DEF ToSet
<1>7. IsList(u)
  BY <1>2, SequenceIsList
<1>8. QED
  BY <1>6, <1>7 DEF u

LEMMA FollowsIsList == ASSUME NEW self, NEW B, NEW s, Follows(self, B, s) PROVE IsList(s)
BY DEF Follows

LEMMA ThenFollows ==
  ASSUME NEW self, NEW B, NEW s, NEW t,
         Follows(self, B, s), Follows(self, B \cup ToSet(s), t)
  PROVE  Follows(self, B, s \o t)
<1>1. IsList(s) /\ IsList(t)
  BY DEF Follows
<1>2. PICK S : s \in Seq(S) /\ t \in Seq(S)
  BY <1>1, ListsIn
<1> DEFINE n == Len(s)
           m == Len(t)
           u == s \o t
<1>3. /\ u \in Seq(S) /\ n \in Nat /\ m \in Nat
      /\ DOMAIN u = 1..(n + m) /\ DOMAIN s = 1..n /\ DOMAIN t = 1..m
      /\ \A i \in 1..n : u[i] = s[i]
      /\ \A i \in 1..m : u[n + i] = t[i]
  BY <1>2
<1> HIDE DEF n, m, u
<1>4. ASSUME NEW i \in DOMAIN u
      PROVE  Possible(self, B \cup {u[j] : j \in 1..(i - 1)}, u[i])
  <2>1. CASE i <= n
    <3>1. i \in 1..n /\ \A j \in 1..(i - 1) : u[j] = s[j]
      BY <1>3, <2>1
    <3>2. {u[j] : j \in 1..(i - 1)} = {s[j] : j \in 1..(i - 1)} /\ u[i] = s[i]
      BY <1>3, <3>1
    <3>3. Possible(self, B \cup {s[j] : j \in 1..(i - 1)}, s[i])
      BY <1>3, <3>1 DEF Follows
    <3>4. QED
      BY <3>2, <3>3
  <2>2. CASE ~ (i <= n)
    <3> DEFINE k == i - n
    <3>1. k \in 1..m /\ i = n + k
      BY <1>3, <2>2
    <3> HIDE DEF k
    <3>2. Possible(self, (B \cup ToSet(s)) \cup {t[j] : j \in 1..(k - 1)}, t[k])
      BY <1>3, <3>1 DEF Follows
    <3>3. \A j \in 1..n : s[j] = u[j] /\ j \in 1..(i - 1)
      BY <1>3, <3>1
    <3>4. ToSet(s) \subseteq {u[j] : j \in 1..(i - 1)}
      BY <1>3, <3>3 DEF ToSet
    <3>5. \A j \in 1..(k - 1) : t[j] = u[n + j] /\ n + j \in 1..(i - 1)
      BY <1>3, <3>1
    <3>6. {t[j] : j \in 1..(k - 1)} \subseteq {u[j] : j \in 1..(i - 1)}
      BY <3>5
    <3>7. (B \cup ToSet(s)) \cup {t[j] : j \in 1..(k - 1)} \subseteq B \cup {u[j] : j \in 1..(i - 1)}
      BY <3>4, <3>6
    <3>8. u[i] = t[k]
      BY <1>3, <3>1
    <3>9. QED
      BY <3>2, <3>7, <3>8, MorePossible
  <2>3. QED
    BY <2>1, <2>2
<1>5. IsList(u)
  BY <1>3, SequenceIsList
<1>6. QED
  BY <1>4, <1>5 DEF Follows, u

\* The second list does without the first.
LEMMA BothFollow ==
  ASSUME NEW self, NEW B, NEW s, NEW t, Follows(self, B, s), Follows(self, B, t)
  PROVE  Follows(self, B, s \o t)
<1>1. Follows(self, B \cup ToSet(s), t)
  BY MoreFollows
<1>2. QED
  BY <1>1, ThenFollows

LEMMA TwoFollow ==
  ASSUME NEW self, NEW B, NEW d, NEW e, Possible(self, B, d), Possible(self, B \cup {d}, e)
  PROVE  Follows(self, B, <<d, e>>) /\ ToSet(<<d, e>>) = {d, e}
<1>1. <<d, e>> = <<d>> \o <<e>>
  <2>1. <<d>> \in Seq({d, e}) /\ <<e>> \in Seq({d, e}) /\ Len(<<d>>) = 1 /\ Len(<<e>>) = 1
    OBVIOUS
  <2> DEFINE u == <<d>> \o <<e>>
  <2>2. u \in Seq({d, e}) /\ Len(u) = 2 /\ u[1] = d /\ u[2] = e
    BY <2>1
  <2> HIDE DEF u
  <2>3. u = <<u[1], u[2]>>
    BY <2>2
  <2>4. QED
    BY <2>2, <2>3 DEF u
<1>2. Follows(self, B, <<d>>) /\ ToSet(<<d>>) = {d}
  BY OneFollows
<1>3. Follows(self, B \cup {d}, <<e>>) /\ ToSet(<<e>>) = {e}
  BY OneFollows
<1>4. Follows(self, B, <<d>> \o <<e>>) /\ ToSet(<<d>> \o <<e>>) = {d} \cup {e}
  <2>1. Follows(self, B \cup ToSet(<<d>>), <<e>>)
    BY <1>2, <1>3
  <2>2. Follows(self, B, <<d>> \o <<e>>)
    BY <1>2, <2>1, ThenFollows
  <2>3. ToSet(<<d>> \o <<e>>) = ToSet(<<d>>) \cup ToSet(<<e>>)
    BY <1>2, <2>1, FollowsIsList, ListsJoin
  <2>4. QED
    BY <1>2, <1>3, <2>2, <2>3
<1>5. QED
  BY <1>1, <1>4

LEMMA ThreeFollow ==
  ASSUME NEW self, NEW B, NEW d, NEW e, NEW f, Possible(self, B, d),
         Possible(self, B \cup {d}, e), Possible(self, B \cup {d, e}, f)
  PROVE  Follows(self, B, <<d, e, f>>) /\ ToSet(<<d, e, f>>) = {d, e, f}
<1>1. <<d, e, f>> = <<d, e>> \o <<f>>
  <2>1. /\ <<d, e>> \in Seq({d, e, f}) /\ <<f>> \in Seq({d, e, f})
        /\ Len(<<d, e>>) = 2 /\ Len(<<f>>) = 1
    OBVIOUS
  <2> DEFINE u == <<d, e>> \o <<f>>
  <2>2. u \in Seq({d, e, f}) /\ Len(u) = 3 /\ u[1] = d /\ u[2] = e /\ u[3] = f
    BY <2>1
  <2> HIDE DEF u
  <2>3. u = <<u[1], u[2], u[3]>>
    BY <2>2
  <2>4. QED
    BY <2>2, <2>3 DEF u
<1>2. Follows(self, B, <<d, e>>) /\ ToSet(<<d, e>>) = {d, e}
  BY TwoFollow
<1>3. Follows(self, B \cup {d, e}, <<f>>) /\ ToSet(<<f>>) = {f}
  BY OneFollows
<1>4. Follows(self, B, <<d, e>> \o <<f>>) /\ ToSet(<<d, e>> \o <<f>>) = {d, e} \cup {f}
  <2>1. Follows(self, B \cup ToSet(<<d, e>>), <<f>>)
    BY <1>2, <1>3
  <2>2. Follows(self, B, <<d, e>> \o <<f>>)
    BY <1>2, <2>1, ThenFollows
  <2>3. ToSet(<<d, e>> \o <<f>>) = ToSet(<<d, e>>) \cup ToSet(<<f>>)
    BY <1>2, <2>1, FollowsIsList, ListsJoin
  <2>4. QED
    BY <1>2, <1>3, <2>2, <2>3
<1>5. QED
  BY <1>1, <1>4

LEMMA WhenFollows ==
  ASSUME NEW self, NEW B, NEW c, NEW s, c => Follows(self, B, s)
  PROVE  /\ Follows(self, B, When(c, s))
         /\ ToSet(When(c, s)) = IF c THEN ToSet(s) ELSE {}
<1>1. CASE c
  BY <1>1 DEF When
<1>2. CASE ~ c
  BY <1>2, NothingFollows DEF When
<1>3. QED
  BY <1>1, <1>2

\* Statements that do without each other.
LEMMA EachFollows ==
  ASSUME NEW self, NEW B, NEW s, IsList(s), \A i \in DOMAIN s : Possible(self, B, s[i])
  PROVE  Follows(self, B, s)
<1>1. ASSUME NEW i \in DOMAIN s
      PROVE  Possible(self, B \cup {s[j] : j \in 1..(i - 1)}, s[i])
  BY MorePossible
<1>2. QED
  BY <1>1 DEF Follows

LEMMA FlattenFollows ==
  ASSUME NEW self, NEW B, NEW ss, IsList(ss), \A i \in DOMAIN ss : Follows(self, B, ss[i])
  PROVE  Follows(self, B, FlattenSeq(ss))
<1>1. Len(ss) \in Nat /\ DOMAIN ss = 1..Len(ss)
  BY DEF IsList
<1>2. CASE Len(ss) = 0
  <2>1. ss = << >>
    BY <1>1, <1>2 DEF IsList
  <2>2. FlattenSeq(ss) = << >>
    BY <1>2, <2>1 DEF FlattenSeq
  <2>3. QED
    BY <2>2, NothingFollows
<1>3. CASE Len(ss) # 0
  <2>1. PICK f : Flattens(f, ss, Len(ss)) /\ FlattenSeq(ss) = f[Len(ss)]
    BY <1>1, <1>3, FlattenIs
  <2> DEFINE n == Len(ss)
             Wrong == {k \in 1..n : ~ Follows(self, B, f[k])}
  <2>2. Wrong = {}
    <3>1. SUFFICES ASSUME Wrong # {} PROVE FALSE
      OBVIOUS
    <3>2. Wrong \in SUBSET Nat
      BY <1>1
    <3> HIDE DEF Wrong
    <3>3. PICK k \in Wrong : k = 0 \/ k - 1 \notin Wrong
      BY <3>1, <3>2, First
    <3>4. k \in 1..n /\ ~ Follows(self, B, f[k])
      BY DEF Wrong
    <3>5. f[k] = IF k = 1 THEN ss[k] ELSE f[k-1] \o ss[k]
      BY <2>1, <3>4 DEF Flattens
    <3>6. Follows(self, B, ss[k])
      BY <1>1, <3>4
    <3>7. CASE k = 1
      BY <3>4, <3>5, <3>6, <3>7
    <3>8. CASE k # 1
      <4>1. k - 1 \in 1..n /\ k # 0
        BY <1>1, <3>4, <3>8
      <4>2. Follows(self, B, f[k - 1])
        BY <3>3, <4>1 DEF Wrong
      <4>3. Follows(self, B, f[k - 1] \o ss[k])
        BY <3>6, <4>2, BothFollow
      <4>4. QED
        BY <3>4, <3>5, <3>8, <4>3
    <3>9. QED
      BY <3>7, <3>8
  <2>3. n \in 1..n
    BY <1>1, <1>3
  <2>4. QED
    BY <2>1, <2>2, <2>3
<1>4. QED
  BY <1>2, <1>3

-----------------------------------------------------------------------------
(* The statements constructors are made of.                                *)
LEMMA ResourceReady ==
  ASSUME NEW B, NEW type, type # "Construct", NEW name, NEW refs, refs \subseteq MadeOf(B)
  PROVE  Ready(B, Resource(type, name, refs)) /\ Resource(type, name, refs).type = type
BY DEF Ready, Resource, NodeFields

LEMMA ConstructReady == ASSUME NEW B PROVE Ready(B, Construct)
BY DEF Ready, Construct, Resource, NodeFields

LEMMA NewPossible ==
  ASSUME NEW self, NEW B, NEW p, IsList(p), p \in Made(B), NEW x, NEW n, Ready(B, n)
  PROVE  Possible(self, B, New(p \o <<x>>, n))
<1> DEFINE c == p \o <<x>>
<1>1. IsList(c) /\ c # App /\ Front(c) = p
  BY ChildPath
<1> HIDE DEF c
<1>2. Place(self, B, c)
  BY <1>1 DEF Place
<1>3. Possible(self, B, New(c, n))
  BY <1>2 DEF Possible, New
<1>4. QED
  BY <1>3 DEF c

LEMMA ResourcePossible ==
  ASSUME NEW self, NEW B, NEW p, IsList(p), p \in Made(B), NEW x,
         NEW type, type # "Construct", NEW name, NEW refs, refs \subseteq MadeOf(B)
  PROVE  Possible(self, B, New(p \o <<x>>, Resource(type, name, refs)))
BY ResourceReady, NewPossible

LEMMA NewIsMade ==
  ASSUME NEW B, NEW p, NEW n, New(p, n) \in B
  PROVE  p \in Made(B) /\ (n.type # "Construct" => p \in MadeOf(B))
BY DEF Made, MadeOf, New

LEMMA ResourceIsMade ==
  ASSUME NEW B, NEW p, NEW type, type # "Construct", NEW name, NEW refs,
         New(p, Resource(type, name, refs)) \in B
  PROVE  p \in Made(B) /\ p \in MadeOf(B)
BY NewIsMade, ResourceReady DEF Resource

LEMMA ThrowFollows ==
  ASSUME NEW self, NEW B
  PROVE  Follows(self, B, <<Throw>>)
<1>1. Possible(self, B, Throw)
  BY DEF Possible, Throw
<1>2. QED
  BY <1>1, OneFollows

LEMMA ParseFollows ==
  ASSUME NEW self, NEW B, NEW json
  PROVE  Follows(self, B, Parse(json))
<1>1. Follows(self, B, <<Throw>>)
  BY ThrowFollows
<1>2. QED
  BY <1>1, WhenFollows DEF Parse

LEMMA AddTagsPossible ==
  ASSUME NEW self, NEW B, NEW p \in Made(B), NEW tags
  PROVE  Possible(self, B, AddTags(p, tags))
BY DEF Possible, AddTags

LEMMA KeyedFollows ==
  ASSUME NEW self, NEW B, NEW p, IsList(p), p \in Made(B), NEW prefix, NEW keys, IsList(keys),
         NEW n, Ready(B, n)
  PROVE  Follows(self, B, Keyed(p, prefix, keys, n))
<1> DEFINE s == Keyed(p, prefix, keys, n)
<1>1. DOMAIN keys = 1..Len(keys) /\ Len(keys) \in Nat
  BY DEF IsList
<1>2. s = [i \in 1..Len(keys) |-> New(p \o <<prefix \o keys[i]>>, n)]
  BY <1>1 DEF Keyed
<1>3. \A i \in 1..Len(keys) : Possible(self, B, New(p \o <<prefix \o keys[i]>>, n))
  BY NewPossible
<1> HIDE DEF s
<1>4. s = [i \in 1..Len(keys) |-> s[i]]
  BY <1>2
<1>5. IsList(s) /\ DOMAIN s = 1..Len(keys)
  BY <1>1, <1>4, FunctionIsList
<1>6. \A i \in DOMAIN s : Possible(self, B, s[i])
  BY <1>2, <1>3, <1>5
<1>7. Follows(self, B, s)
  BY <1>5, <1>6, EachFollows
<1>8. QED
  BY <1>7 DEF s

-----------------------------------------------------------------------------
(* The statements of a constructor.                                        *)
Starts(self, ctx, ss) ==
  /\ Follows(self, {}, ss)
  /\ Len(ss) # 0 /\ ss[1] = New(self, Construct)
  /\ ~ isEnabled(ctx) => Idle(ss)

\* What a constructor has made when it has made its own node.
Own(self) == {New(self, Construct)}

LEMMA OwnIsMade ==
  ASSUME NEW self
  PROVE  self \in Made(Own(self))
BY NewIsMade DEF Own

LEMMA BeginFollows ==
  ASSUME NEW root, NEW B, NEW self, Place(root, B, self),
         NEW rest, Follows(root, B \cup Own(self), rest)
  PROVE  /\ Follows(root, B, <<New(self, Construct)>> \o rest)
         /\ Len(<<New(self, Construct)>> \o rest) # 0
         /\ (<<New(self, Construct)>> \o rest)[1] = New(self, Construct)
<1> DEFINE e == New(self, Construct)
           first == <<e>>
<1>1. Possible(root, B, e)
  BY ConstructReady DEF Possible, New
<1>2. Follows(root, B, first) /\ ToSet(first) = Own(self)
  BY <1>1, OneFollows DEF Own
<1>3. Len(first) = 1 /\ first[1] = e
  OBVIOUS
<1> HIDE DEF first, e
<1>4. Follows(root, B \cup ToSet(first), rest)
  BY <1>2
<1>5. Follows(root, B, first \o rest)
  BY <1>2, <1>4, ThenFollows
<1>6. IsList(first) /\ IsList(rest)
  BY <1>2, <1>4 DEF Follows
<1>7. Len(first \o rest) # 0 /\ (first \o rest)[1] = e
  <2>1. PICK S : first \in Seq(S) /\ rest \in Seq(S)
    BY <1>6, ListsIn
  <2>2. /\ Len(first \o rest) = Len(first) + Len(rest) /\ Len(rest) \in Nat
        /\ \A i \in 1..Len(first) : (first \o rest)[i] = first[i]
    BY <2>1
  <2>3. QED
    BY <1>3, <2>2
<1>8. QED
  BY <1>5, <1>7 DEF first, e

LEMMA ConstructorFollows ==
  ASSUME NEW root, NEW B, NEW self, Place(root, B, self), NEW ctx,
         NEW body, Follows(root, B \cup Own(self), body)
  PROVE  /\ Follows(root, B, Constructor(self, ctx, body))
         /\ Len(Constructor(self, ctx, body)) # 0
         /\ Constructor(self, ctx, body)[1] = New(self, Construct)
<1> DEFINE C == B \cup Own(self)
           tag == <<AddTags(self, contextTags(ctx))>>
           rest == When(isEnabled(ctx), body \o tag)
<1>1. self \in Made(C)
  BY OwnIsMade, MoreMade
<1>2. Possible(root, C, AddTags(self, contextTags(ctx)))
  BY <1>1, AddTagsPossible
<1>3. Follows(root, C, tag)
  BY <1>2, OneFollows
<1> HIDE DEF tag
<1>4. Follows(root, C, body \o tag)
  BY <1>3, BothFollow
<1>5. Follows(root, C, rest)
  BY <1>4, WhenFollows
<1> HIDE DEF rest
<1>6. Constructor(self, ctx, body) = <<New(self, Construct)>> \o rest
  BY DEF Constructor, rest, tag
<1>7. QED
  BY <1>5, <1>6, BeginFollows

(* What a constructor does that is disabled.                               *)
LEMMA JustItself ==
  ASSUME NEW self
  PROVE  Idle(<<New(self, Construct)>>) /\ Idle(<<New(self, Construct)>> \o << >>)
<1>1. <<New(self, Construct)>> \o << >> = <<New(self, Construct)>>
  OBVIOUS
<1>2. ToSet(<<New(self, Construct)>>) = {New(self, Construct)}
  BY DEF ToSet
<1>3. New(self, Construct).does = "new" /\ New(self, Construct).node.type = "Construct"
  BY DEF New, Construct, Resource
<1>4. QED
  BY <1>1, <1>2, <1>3 DEF Idle

LEMMA ParseIsIdle ==
  ASSUME NEW json
  PROVE  Idle(Parse(json))
<1>1. ToSet(<<Throw>>) = {Throw} /\ ToSet(<< >>) = {} /\ Throw.does = "throw"
  BY DEF ToSet, Throw
<1>2. QED
  BY <1>1 DEF Idle, Parse, When

LEMMA ConstructorMakes ==
  ASSUME NEW self, NEW ctx, isEnabled(ctx), NEW body, IsList(body)
  PROVE  Own(self) \cup ToSet(body) \subseteq ToSet(Constructor(self, ctx, body))
<1> DEFINE first == <<New(self, Construct)>>
           tag == <<AddTags(self, contextTags(ctx))>>
<1>1. IsList(first) /\ IsList(tag) /\ New(self, Construct) \in ToSet(first)
  <2>1. first \in Seq({New(self, Construct)}) /\ first[1] = New(self, Construct) /\ 1 \in DOMAIN first
    OBVIOUS
  <2>2. tag \in Seq({AddTags(self, contextTags(ctx))})
    OBVIOUS
  <2>3. QED
    BY <2>1, <2>2, SequenceIsList DEF ToSet
<1> HIDE DEF first, tag
<1>2. Constructor(self, ctx, body) = first \o (body \o tag)
  BY DEF Constructor, When, first, tag
<1>3. IsList(body \o tag) /\ ToSet(body \o tag) = ToSet(body) \cup ToSet(tag)
  BY <1>1, ListsJoin
<1>4. ToSet(first \o (body \o tag)) = ToSet(first) \cup ToSet(body \o tag)
  BY <1>1, <1>3, ListsJoin
<1>5. QED
  BY <1>1, <1>2, <1>3, <1>4 DEF Own

LEMMA ConstructorStarts ==
  ASSUME NEW self, IsList(self), self # App, NEW ctx, NEW body, Follows(self, Own(self), body)
  PROVE  Starts(self, ctx, Constructor(self, ctx, body))
<1>1. Place(self, {}, self) /\ {} \cup Own(self) = Own(self)
  BY DEF Place
<1>2. Follows(self, {} \cup Own(self), body)
  BY <1>1
<1>3. ~ isEnabled(ctx) => Idle(Constructor(self, ctx, body))
  BY JustItself DEF Constructor, When
<1>4. QED
  BY <1>1, <1>2, <1>3, ConstructorFollows DEF Starts

LEMMA ChildPossible ==
  ASSUME NEW root, NEW self, IsList(self), NEW B, Own(self) \subseteq B, NEW x,
         NEW type, type # "Construct", NEW name, NEW refs, refs \subseteq MadeOf(B)
  PROVE  Possible(root, B, New(self \o <<x>>, Resource(type, name, refs)))
<1>1. self \in Made(B)
  BY OwnIsMade, MoreMade
<1>2. QED
  BY <1>1, ResourcePossible

LEMMA ChildFollows ==
  ASSUME NEW root, NEW self, IsList(self), NEW B, Own(self) \subseteq B, NEW x,
         NEW type, type # "Construct", NEW name, NEW refs, refs \subseteq MadeOf(B)
  PROVE  LET e == New(self \o <<x>>, Resource(type, name, refs))
         IN  Follows(root, B, <<e>>) /\ ToSet(<<e>>) = {e}
BY ChildPossible, OneFollows

-----------------------------------------------------------------------------
(* The constructors, one by one.                                           *)
LEMMA KmsKeyStarts ==
  ASSUME NEW self, IsList(self), self # App, NEW ctx, NEW props
  PROVE  Starts(self, ctx, KmsKey(self, ctx, props))
<1> DEFINE B == Own(self)
           parse == Parse(Given(props, "policy", "valid"))
           key == New(self \o <<"Key">>, Resource("Key", << >>, {}))
           alias == New(self \o <<"Alias">>,
                        Resource("Alias", Given(props, "alias", contextId(ctx)), {self \o <<"Key">>}))
<1>1. Follows(self, B, parse)
  BY ParseFollows
<1>2. Possible(self, B, key)
  BY ChildPossible
<1>3. Possible(self, B \cup {key}, alias)
  <2>1. self \o <<"Key">> \in MadeOf(B \cup {key})
    BY ResourceIsMade
  <2>2. QED
    BY <2>1, ChildPossible
<1> HIDE DEF B, parse, key, alias
<1>4. Follows(self, B, <<key, alias>>)
  BY <1>2, <1>3, TwoFollow
<1>5. Follows(self, B, parse \o <<key, alias>>)
  BY <1>1, <1>4, BothFollow
<1>6. KmsKey(self, ctx, props) = Constructor(self, ctx, parse \o <<key, alias>>)
  BY DEF KmsKey, parse, key, alias
<1>7. QED
  BY <1>5, <1>6, ConstructorStarts DEF B

LEMMA SqsQueueStarts ==
  ASSUME NEW self, IsList(self), self # App, NEW ctx, NEW props
  PROVE  Starts(self, ctx, SqsQueue(self, ctx, props))
<1> DEFINE B == Own(self)
           path == self \o <<"Dlq">>
           node == Resource("Queue", dlqName(ctx, props), {})
           dlq == New(path, node)
           enabled == Is(props, "dlqEnabled")
           redrive == IF enabled THEN {path} ELSE {}
           queue == [Resource("Queue", queueName(ctx, props), {}) EXCEPT !.redrive = redrive]
           new == New(self \o <<"Queue">>, queue)
           both == When(enabled, <<dlq>>)
<1>1. Follows(self, B, <<dlq>>) /\ ToSet(<<dlq>>) = {dlq}
  BY ChildFollows
<1>2. Follows(self, B, both) /\ ToSet(both) = IF enabled THEN {dlq} ELSE {}
  BY <1>1, WhenFollows
<1>3. redrive \subseteq MadeOf(B \cup ToSet(both))
  BY <1>2, ResourceIsMade
<1>4. Ready(B \cup ToSet(both), queue)
  BY <1>3 DEF Ready, Resource, NodeFields
<1>5. self \in Made(B \cup ToSet(both))
  BY OwnIsMade, MoreMade
<1>6. Possible(self, B \cup ToSet(both), new)
  BY <1>4, <1>5, NewPossible
<1>7. SqsQueue(self, ctx, props) = Constructor(self, ctx, both \o <<new>>)
  BY DEF SqsQueue
<1> HIDE DEF B, both, new
<1>8. Follows(self, B \cup ToSet(both), <<new>>)
  BY <1>6, OneFollows
<1>9. Follows(self, B, both \o <<new>>)
  BY <1>2, <1>8, ThenFollows
<1>10. QED
  BY <1>7, <1>9, ConstructorStarts DEF B

-----------------------------------------------------------------------------
(* Statements that may be run when those of B are done, and after which    *)
(* those of C are.                                                         *)
Takes(root, B, s, C) == Follows(root, B, s) /\ C \subseteq B \cup ToSet(s)

LEMMA FollowsTakes ==
  ASSUME NEW root, NEW B, NEW s, Follows(root, B, s)
  PROVE  Takes(root, B, s, B)
BY DEF Takes

LEMMA ThenTakes ==
  ASSUME NEW root, NEW B, NEW C, NEW D, NEW s, NEW t, Takes(root, B, s, C), Takes(root, C, t, D)
  PROVE  Takes(root, B, s \o t, D)
<1>1. /\ Follows(root, B, s) /\ C \subseteq B \cup ToSet(s)
      /\ Follows(root, C, t) /\ D \subseteq C \cup ToSet(t)
  BY DEF Takes
<1>2. Follows(root, B \cup ToSet(s), t)
  BY <1>1, MoreFollows
<1>3. Follows(root, B, s \o t)
  BY <1>1, <1>2, ThenFollows
<1>4. IsList(s) /\ IsList(t)
  BY <1>1 DEF Follows
<1>5. ToSet(s \o t) = ToSet(s) \cup ToSet(t)
  BY <1>4, ListsJoin
<1>6. D \subseteq B \cup ToSet(s \o t)
  BY <1>1, <1>5
<1>7. QED
  BY <1>3, <1>6 DEF Takes

LEMMA WhenTakes ==
  ASSUME NEW root, NEW B, NEW C, NEW c, NEW s, c => Takes(root, B, s, C)
  PROVE  Takes(root, B, When(c, s), IF c THEN C ELSE B)
<1>1. CASE c
  BY <1>1 DEF When
<1>2. CASE ~ c
  <2>1. Follows(root, B, << >>)
    BY NothingFollows
  <2>2. Takes(root, B, << >>, B)
    BY <2>1, FollowsTakes
  <2>3. QED
    BY <1>2, <2>2 DEF When
<1>3. QED
  BY <1>1, <1>2

LEMMA OneTakes ==
  ASSUME NEW root, NEW B, NEW e, Possible(root, B, e)
  PROVE  Takes(root, B, <<e>>, B \cup {e})
<1>1. Follows(root, B, <<e>>) /\ ToSet(<<e>>) = {e}
  BY OneFollows
<1>2. QED
  BY <1>1 DEF Takes

LEMMA ParseTakes ==
  ASSUME NEW root, NEW B, NEW json
  PROVE  Takes(root, B, Parse(json), B)
BY ParseFollows, FollowsTakes

LEMMA ChildTakes ==
  ASSUME NEW root, NEW self, IsList(self), NEW B, Own(self) \subseteq B, NEW x,
         NEW type, type # "Construct", NEW name, NEW refs, refs \subseteq MadeOf(B)
  PROVE  LET e == New(self \o <<x>>, Resource(type, name, refs))
         IN  Takes(root, B, <<e>>, B \cup {e})
BY ChildPossible, OneTakes

LEMMA TwoTake ==
  ASSUME NEW root, NEW B, NEW C, NEW D, NEW d, NEW e,
         Takes(root, B, <<d>>, C), Takes(root, C, <<e>>, D)
  PROVE  Takes(root, B, <<d, e>>, D)
<1>1. <<d, e>> = <<d>> \o <<e>>
  <2>1. <<d>> \in Seq({d, e}) /\ <<e>> \in Seq({d, e}) /\ Len(<<d>>) = 1 /\ Len(<<e>>) = 1
    OBVIOUS
  <2> DEFINE u == <<d>> \o <<e>>
  <2>2. u \in Seq({d, e}) /\ Len(u) = 2 /\ u[1] = d /\ u[2] = e
    BY <2>1
  <2> HIDE DEF u
  <2>3. u = <<u[1], u[2]>>
    BY <2>2
  <2>4. QED
    BY <2>2, <2>3 DEF u
<1>2. QED
  BY <1>1, ThenTakes

LEMMA ThreeTake ==
  ASSUME NEW root, NEW B, NEW C, NEW D, NEW d, NEW e, NEW f,
         Takes(root, B, <<d, e>>, C), Takes(root, C, <<f>>, D)
  PROVE  Takes(root, B, <<d, e, f>>, D)
<1>1. <<d, e, f>> = <<d, e>> \o <<f>>
  <2>1. /\ <<d, e>> \in Seq({d, e, f}) /\ <<f>> \in Seq({d, e, f})
        /\ Len(<<d, e>>) = 2 /\ Len(<<f>>) = 1
    OBVIOUS
  <2> DEFINE u == <<d, e>> \o <<f>>
  <2>2. u \in Seq({d, e, f}) /\ Len(u) = 3 /\ u[1] = d /\ u[2] = e /\ u[3] = f
    BY <2>1
  <2> HIDE DEF u
  <2>3. u = <<u[1], u[2], u[3]>>
    BY <2>2
  <2>4. QED
    BY <2>2, <2>3 DEF u
<1>2. QED
  BY <1>1, ThenTakes

LEMMA FiveTake ==
  ASSUME NEW root, NEW B, NEW C, NEW D, NEW a, NEW b, NEW d, NEW e, NEW f,
         Takes(root, B, <<a, b, d>>, C), Takes(root, C, <<e, f>>, D)
  PROVE  Takes(root, B, <<a, b, d, e, f>>, D)
<1>1. <<a, b, d, e, f>> = <<a, b, d>> \o <<e, f>>
  <2> DEFINE S == {a, b, d, e, f}
  <2>1. /\ <<a, b, d>> \in Seq(S) /\ <<e, f>> \in Seq(S)
        /\ Len(<<a, b, d>>) = 3 /\ Len(<<e, f>>) = 2
    OBVIOUS
  <2> DEFINE u == <<a, b, d>> \o <<e, f>>
  <2> HIDE DEF S
  <2>2. /\ u \in Seq(S) /\ Len(u) = 5
        /\ u[1] = a /\ u[2] = b /\ u[3] = d /\ u[4] = e /\ u[5] = f
    BY <2>1
  <2> HIDE DEF u
  <2>3. u = <<u[1], u[2], u[3], u[4], u[5]>>
    BY <2>2
  <2>4. QED
    BY <2>2, <2>3 DEF u
<1>2. QED
  BY <1>1, ThenTakes

LEMMA TakesStarts ==
  ASSUME NEW self, IsList(self), self # App, NEW ctx, NEW body, NEW C,
         Takes(self, Own(self), body, C)
  PROVE  Starts(self, ctx, Constructor(self, ctx, body))
BY ConstructorStarts DEF Takes

LEMMA LambdaFunctionStarts ==
  ASSUME NEW self, IsList(self), self # App, NEW ctx, NEW props
  PROVE  Starts(self, ctx, LambdaFunction(self, ctx, props))
<1> DEFINE B == Own(self)
           path == self \o <<"LogGroup">>
           rolePath == self \o <<"Role">>
           name == functionName(ctx, props)
           fn == self \o <<"Function">>
           ownRole == "roleName" \notin DOMAIN props
           broken == codeFails(props)
           publish == Is(props, "publish")
           logs == New(path, Resource("LogGroup", Under("/aws/lambda/", name), {}))
           role == New(rolePath, Resource("Role", Dashed(contextId(ctx), "role"), {}))
           parse == Parse(Given(props, "roleSourcePolicyDocuments", "valid"))
           uses == {path} \cup IF ownRole THEN {rolePath} ELSE {}
           function == New(fn, Resource("Function", name, uses))
           version == New(fn \o <<"CurrentVersion">>, Resource("Version", << >>, {fn}))
           C == B \cup {logs}
           D == IF ownRole THEN C \cup {role} ELSE C
           E == D \cup {function}
<1>1. Takes(self, B, <<logs>>, C)
  BY ChildTakes
<1>2. Takes(self, C, <<role>>, C \cup {role})
  BY ChildTakes
<1>3. Takes(self, C \cup {role}, parse, C \cup {role})
  BY ParseTakes
<1>4. uses \subseteq MadeOf(D) /\ B \subseteq D
  BY ResourceIsMade
<1>5. Takes(self, D, <<function>>, E)
  BY <1>4, ChildTakes
<1>6. Takes(self, E, <<version>>, E \cup {version})
  <2>1. IsList(fn) /\ fn \in Made(E) /\ {fn} \subseteq MadeOf(E)
    BY ResourceIsMade, ChildPath
  <2> HIDE DEF fn, E
  <2>2. Possible(self, E, version)
    BY <2>1, ResourcePossible
  <2>3. QED
    BY <2>2, OneTakes
<1>7. LambdaFunction(self, ctx, props)
        = Constructor(self, ctx,
            (((<<logs>> \o When(ownRole, <<role>> \o parse)) \o When(broken, <<Throw>>)) \o <<function>>)
            \o When(publish, <<version>>))
  BY DEF LambdaFunction
<1> HIDE DEF B, C, E, logs, role, parse, function, version, ownRole, broken, publish
<1>8. Takes(self, C, <<role>> \o parse, C \cup {role})
  BY <1>2, <1>3, ThenTakes
<1>9. Takes(self, C, When(ownRole, <<role>> \o parse), D)
  BY <1>8, WhenTakes
<1> HIDE DEF D
<1>10. Takes(self, D, When(broken, <<Throw>>), D)
  BY ThrowFollows, WhenFollows, FollowsTakes
<1>11. Takes(self, E, When(publish, <<version>>), IF publish THEN E \cup {version} ELSE E)
  BY <1>6, WhenTakes
<1>12. Takes(self, B, <<logs>> \o When(ownRole, <<role>> \o parse), D)
  BY <1>1, <1>9, ThenTakes
<1>13. Takes(self, B, (<<logs>> \o When(ownRole, <<role>> \o parse)) \o When(broken, <<Throw>>), D)
  BY <1>10, <1>12, ThenTakes
<1>14. Takes(self, B, ((<<logs>> \o When(ownRole, <<role>> \o parse)) \o When(broken, <<Throw>>)) \o <<function>>, E)
  BY <1>5, <1>13, ThenTakes
<1>15. Takes(self, B, (((<<logs>> \o When(ownRole, <<role>> \o parse)) \o When(broken, <<Throw>>)) \o <<function>>)
                      \o When(publish, <<version>>),
             IF publish THEN E \cup {version} ELSE E)
  BY <1>11, <1>14, ThenTakes
<1>16. QED
  BY <1>7, <1>15, TakesStarts DEF B

LEMMA StepFunctionsStarts ==
  ASSUME NEW self, IsList(self), self # App, NEW ctx, NEW props
  PROVE  Starts(self, ctx, StepFunctions(self, ctx, props))
<1> DEFINE B == Own(self)
           path == self \o <<"LogGroup">>
           rolePath == self \o <<"Role">>
           ownLogs == "existingLogGroupArn" \notin DOMAIN props
           logGroupName == Given(props, "logGroupName", Under("/aws/states/", contextId(ctx)))
           name == IF Given(props, "useFullname", TRUE) THEN contextId(ctx) ELSE ctx.name
           parse == Parse(Given(props, "policyDocuments", "valid"))
           allowed == "policyDocuments" \in DOMAIN props
           logs == New(path, Resource("LogGroup", logGroupName, {}))
           role == New(rolePath, Resource("Role", name, {}))
           policy == New(self \o <<"Policy">>, Resource("Policy", << >>, {rolePath}))
           uses == {rolePath} \cup IF ownLogs THEN {path} ELSE {}
           machine == New(self \o <<"StateMachine">>,
                          Resource("StateMachine", Given(props, "stateMachineName", contextId(ctx)), uses))
           C == IF ownLogs THEN B \cup {logs} ELSE B
           D == C \cup {role}
           E == IF allowed THEN D \cup {policy} ELSE D
<1>1. Takes(self, B, <<logs>>, B \cup {logs})
  BY ChildTakes
<1>2. Takes(self, C, <<role>>, D)
  BY ChildTakes
<1>3. Takes(self, D, <<policy>>, D \cup {policy})
  <2>1. {rolePath} \subseteq MadeOf(D) /\ B \subseteq D
    BY ResourceIsMade
  <2>2. QED
    BY <2>1, ChildTakes
<1>4. uses \subseteq MadeOf(E) /\ B \subseteq E
  <2>1. D \subseteq E /\ B \subseteq D /\ role \in D /\ (ownLogs => logs \in D)
    OBVIOUS
  <2> HIDE DEF B, C, D, E
  <2>2. QED
    BY <2>1, ResourceIsMade
<1>5. Takes(self, E, <<machine>>, E \cup {machine})
  BY <1>4, ChildTakes
<1>6. StepFunctions(self, ctx, props)
        = Constructor(self, ctx, ((When(ownLogs, <<logs>>) \o <<role>>) \o When(allowed, parse \o <<policy>>))
                                 \o <<machine>>)
  BY DEF StepFunctions
<1> HIDE DEF B, D, logs, role, policy, parse, machine, ownLogs, allowed
<1>7. Takes(self, B, When(ownLogs, <<logs>>), C)
  BY <1>1, WhenTakes
<1> HIDE DEF C
<1>8. Takes(self, D, When(allowed, parse \o <<policy>>), E)
  <2>1. Takes(self, D, parse, D)
    BY ParseTakes DEF parse
  <2>2. Takes(self, D, parse \o <<policy>>, D \cup {policy})
    BY <1>3, <2>1, ThenTakes
  <2>3. QED
    BY <2>2, WhenTakes
<1> HIDE DEF E
<1>9. Takes(self, B, When(ownLogs, <<logs>>) \o <<role>>, D)
  BY <1>2, <1>7, ThenTakes
<1>10. Takes(self, B, (When(ownLogs, <<logs>>) \o <<role>>) \o When(allowed, parse \o <<policy>>), E)
  BY <1>8, <1>9, ThenTakes
<1>11. Takes(self, B, ((When(ownLogs, <<logs>>) \o <<role>>) \o When(allowed, parse \o <<policy>>)) \o <<machine>>,
             E \cup {machine})
  BY <1>5, <1>10, ThenTakes
<1>12. QED
  BY <1>6, <1>11, TakesStarts DEF B

LEMMA SlackbotStarts ==
  ASSUME NEW self, IsList(self), self # App, NEW ctx, NEW props
  PROVE  Starts(self, ctx, Slackbot(self, ctx, props))
<1> DEFINE B == Own(self)
           topicPath == self \o <<"Topic">>
           rolePath == self \o <<"LambdaRole">>
           logsPath == self \o <<"LogGroup">>
           handler == self \o <<"Handler">>
           id == contextId(Derived(ctx, "handler"))
           topic == New(topicPath, Resource("Topic", contextId(Derived(ctx, "notifications")), {}))
           role == New(rolePath, Resource("Role", Dashed(id, "role"), {}))
           logs == New(logsPath, Resource("LogGroup", Under("/aws/lambda/", id), {}))
           function == New(handler, Resource("Function", id, {rolePath, logsPath}))
           sub == New(handler \o <<"Sub">>, Resource("Subscription", << >>, {topicPath, handler}))
           C == B \cup {topic, role, logs}
           D == C \cup {function}
<1>1. Takes(self, B, <<topic>>, B \cup {topic})
  BY ChildTakes
<1>2. Takes(self, B \cup {topic}, <<role>>, B \cup {topic, role})
  <2>1. (B \cup {topic}) \cup {role} = B \cup {topic, role}
    OBVIOUS
  <2>2. QED
    BY <2>1, ChildTakes
<1>3. Takes(self, B \cup {topic, role}, <<logs>>, C)
  <2>1. (B \cup {topic, role}) \cup {logs} = C
    OBVIOUS
  <2>2. QED
    BY <2>1, ChildTakes
<1>4. Takes(self, C, <<function>>, D)
  <2>1. {rolePath, logsPath} \subseteq MadeOf(C) /\ B \subseteq C
    BY ResourceIsMade
  <2>2. QED
    BY <2>1, ChildTakes
<1>5. Takes(self, D, <<sub>>, D \cup {sub})
  <2>1. {topicPath, handler} \subseteq MadeOf(D) /\ handler \in Made(D)
    BY ResourceIsMade
  <2>2. IsList(handler)
    BY ChildPath
  <2>3. Possible(self, D, sub)
    BY <2>1, <2>2, ResourcePossible
  <2>4. QED
    BY <2>3, OneTakes
<1>6. Slackbot(self, ctx, props) = Constructor(self, ctx, <<topic, role, logs, function, sub>>)
  BY DEF Slackbot
<1> HIDE DEF B, C, D, topic, role, logs, function, sub
<1>7. Takes(self, B, <<topic, role>>, B \cup {topic, role})
  BY <1>1, <1>2, TwoTake
<1>8. Takes(self, B, <<topic, role, logs>>, C)
  BY <1>3, <1>7, ThreeTake
<1>9. Takes(self, C, <<function, sub>>, D \cup {sub})
  BY <1>4, <1>5, TwoTake
<1>10. Takes(self, B, <<topic, role, logs, function, sub>>, D \cup {sub})
  BY <1>8, <1>9, FiveTake
<1>11. QED
  BY <1>6, <1>10, TakesStarts DEF B

(* Sns: its topic, what it subscribes, its dead-letter queue.              *)
LEMMA SubscriptionFollows ==
  ASSUME NEW root, NEW self, IsList(self), NEW B, Own(self) \subseteq B,
         self \o <<"Topic">> \in MadeOf(B), NEW i, NEW subscriber
  PROVE  Follows(root, B, addSubscription(self, i, subscriber))
<1> DEFINE topic == self \o <<"Topic">>
           node == Resource("Subscription", << >>, {topic})
           imported == self \o << (IF subscriber.protocol = "sqs" THEN "SubQueue" ELSE "SubLambda")
                                  \o ToString(i) >>
           import == New(imported, Construct)
           sub == New(imported \o <<"Sub">>, node)
           direct == New(topic \o <<subscriber.endpoint>>, node)
<1>1. CASE subscriber.protocol \in {"sqs", "lambda"}
  <2>1. addSubscription(self, i, subscriber) = <<import, sub>>
    BY <1>1 DEF addSubscription, Protocol
  <2>2. self \in Made(B)
    BY OwnIsMade, MoreMade
  <2>3. Possible(root, B, import) /\ IsList(imported)
    BY <2>2, ConstructReady, NewPossible, ChildPath
  <2>4. imported \in Made(B \cup {import})
    BY NewIsMade
  <2>5. MadeOf(B) \subseteq MadeOf(B \cup {import})
    BY MoreMade
  <2> HIDE DEF imported
  <2>6. Possible(root, B \cup {import}, sub)
    BY <2>3, <2>4, <2>5, ResourcePossible
  <2> HIDE DEF import, sub
  <2>7. QED
    BY <2>1, <2>3, <2>6, TwoFollow
<1>2. CASE subscriber.protocol \in Protocol \ {"sqs", "lambda"}
  <2>1. addSubscription(self, i, subscriber) = <<direct>>
    BY <1>2 DEF addSubscription
  <2>2. IsList(topic) /\ topic \in Made(B)
    BY ChildPath DEF Made, MadeOf
  <2> HIDE DEF topic
  <2>3. Possible(root, B, direct)
    BY <2>2, ResourcePossible DEF topic
  <2> HIDE DEF direct
  <2>4. QED
    BY <2>1, <2>3, OneFollows
<1>3. CASE subscriber.protocol \notin Protocol
  <2>1. addSubscription(self, i, subscriber) = <<Throw>>
    BY <1>3 DEF addSubscription, Protocol
  <2>2. QED
    BY <2>1, ThrowFollows
<1>4. QED
  BY <1>1, <1>2, <1>3 DEF Protocol

LEMMA SnsSubscriptionsFollow ==
  ASSUME NEW root, NEW self, IsList(self), NEW B, Own(self) \subseteq B,
         self \o <<"Topic">> \in MadeOf(B), NEW props, Listed(props, "subscribers")
  PROVE  Takes(root, B, SnsSubscriptions(self, props), B)
<1> DEFINE list == Given(props, "subscribers", << >>)
           ss == [i \in DOMAIN list |-> addSubscription(self, i, list[i])]
           parse == Parse(Given(props, "deliveryPolicy", "valid"))
<1>1. IsList(list)
  BY DEF Listed, IsList
<1> HIDE DEF list
<1>2. DOMAIN list = 1..Len(list) /\ Len(list) \in Nat
  BY <1>1 DEF IsList
<1>3. ss = [i \in 1..Len(list) |-> ss[i]]
  BY <1>2
<1>4. IsList(ss) /\ DOMAIN ss = 1..Len(list)
  BY <1>2, <1>3, FunctionIsList
<1>5. \A i \in DOMAIN ss : ss[i] = addSubscription(self, i, list[i])
  BY <1>2
<1> HIDE DEF ss
<1>6. \A i \in DOMAIN ss : Follows(root, B, ss[i])
  BY <1>5, SubscriptionFollows
<1>7. Takes(root, B, FlattenSeq(ss), B)
  BY <1>4, <1>6, FlattenFollows, FollowsTakes
<1>8. Takes(root, B, parse, B)
  BY ParseTakes
<1>9. SnsSubscriptions(self, props) = FlattenSeq(ss) \o parse
  BY DEF SnsSubscriptions, ss, list
<1>10. QED
  BY <1>7, <1>8, <1>9, ThenTakes

LEMMA SnsDlqTakes ==
  ASSUME NEW root, NEW self, IsList(self), NEW B, Own(self) \subseteq B, NEW ctx, NEW props
  PROVE  Takes(root, B, SnsDlq(self, ctx, props), B)
<1> DEFINE path == self \o <<"Dlq">>
           name == contextId(Derived(ctx, "dlq"))
           dlq == New(path, Resource("Queue", Fifo(name, Is(props, "sqsDlqFifo")), {}))
           parse == Parse(Given(props, "redrivePolicy", "valid"))
           target == IF "redrivePolicy" \in DOMAIN props THEN External ELSE path
           redrive == Redrive(self, target)
           body == (<<dlq>> \o parse) \o <<redrive>>
           C == B \cup {dlq}
<1>1. Takes(root, B, <<dlq>>, C)
  BY ChildTakes
<1>2. Takes(root, C, parse, C)
  BY ParseTakes
<1>3. Takes(root, C, <<redrive>>, C \cup {redrive})
  <2>1. self \in Made(C)
    BY OwnIsMade, MoreMade
  <2>2. path \in MadeOf(C)
    BY ResourceIsMade
  <2> HIDE DEF C, path
  <2>3. Possible(root, C, redrive)
    BY <2>1, <2>2 DEF Possible, Redrive
  <2>4. QED
    BY <2>3, OneTakes
<1>4. SnsDlq(self, ctx, props) = When(Is(props, "sqsDlqEnabled"), body)
  BY DEF SnsDlq
<1> HIDE DEF dlq, parse, redrive
<1>5. Takes(root, B, <<dlq>> \o parse, C)
  BY <1>1, <1>2, ThenTakes
<1>6. Takes(root, B, body, C \cup {redrive})
  BY <1>3, <1>5, ThenTakes
<1>7. Follows(root, B, When(Is(props, "sqsDlqEnabled"), body))
  BY <1>6, WhenFollows DEF Takes
<1>8. QED
  BY <1>4, <1>7, FollowsTakes

LEMMA SnsStarts ==
  ASSUME NEW self, IsList(self), self # App, NEW ctx, NEW props, Listed(props, "subscribers")
  PROVE  Starts(self, ctx, Sns(self, ctx, props))
<1> DEFINE B == Own(self)
           path == self \o <<"Topic">>
           topic == New(path, Resource("Topic", topicName(ctx, props), {}))
           parse == Parse(Given(props, "snsTopicPolicyJson", "valid"))
           C == B \cup {topic}
<1>1. Takes(self, B, <<topic>>, C)
  BY ChildTakes
<1>2. Takes(self, C, parse, C)
  BY ParseTakes
<1>3. SnsTopic(self, ctx, props) = <<topic>> \o parse
  BY DEF SnsTopic
<1>4. path \in MadeOf(C) /\ B \subseteq C
  BY ResourceIsMade
<1> HIDE DEF topic, parse, B, C
<1>5. Takes(self, B, SnsTopic(self, ctx, props), C)
  BY <1>1, <1>2, <1>3, ThenTakes
<1>6. Takes(self, C, SnsSubscriptions(self, props), C)
  BY <1>4, SnsSubscriptionsFollow DEF B
<1>7. Takes(self, C, SnsDlq(self, ctx, props), C)
  BY <1>4, SnsDlqTakes DEF B
<1>8. Takes(self, B, SnsTopic(self, ctx, props) \o SnsSubscriptions(self, props), C)
  BY <1>5, <1>6, ThenTakes
<1>9. Takes(self, B, SnsTopic(self, ctx, props) \o SnsSubscriptions(self, props)
                     \o SnsDlq(self, ctx, props), C)
  BY <1>7, <1>8, ThenTakes
<1>10. QED
  BY <1>9, TakesStarts DEF Sns, B

(* The dead-letter pipelines.                                              *)
LEMMA DlqAlarmsTake ==
  ASSUME NEW root, NEW self, IsList(self), NEW B, Own(self) \subseteq B,
         NEW name, NEW dlq \in MadeOf(B), NEW key
  PROVE  Takes(root, B, DlqAlarms(self, name, dlq, key), B)
<1> DEFINE rate == New(self \o <<"RateAlarm" \o key>>,
                       Resource("Alarm", Dashed(Dashed(name, "dlq"), "rate"), {dlq}))
           volume == New(self \o <<"VolumeAlarm" \o key>>,
                         Resource("Alarm", Dashed(Dashed(name, "dlq"), "volume"), {dlq}))
<1>1. Possible(root, B, rate)
  BY ChildPossible
<1>2. Possible(root, B \cup {rate}, volume)
  <2>1. dlq \in MadeOf(B \cup {rate})
    BY MoreMade
  <2>2. QED
    BY <2>1, ChildPossible
<1>3. DlqAlarms(self, name, dlq, key) = <<rate, volume>>
  BY DEF DlqAlarms
<1> HIDE DEF rate, volume
<1>4. QED
  BY <1>1, <1>2, <1>3, TwoFollow, FollowsTakes

LEMMA DlqToTargetTakes ==
  ASSUME NEW root, NEW self, IsList(self), NEW B, Own(self) \subseteq B,
         NEW name, NEW dlq \in MadeOf(B), NEW key
  PROVE  Takes(root, B, DlqToTarget(self, name, dlq, key), B)
<1> DEFINE rolePath == self \o <<"PipeRole" \o key>>
           logsPath == self \o <<"PipeLogGroup" \o key>>
           id == Dashed(name, "pipe")
           role == New(rolePath, Resource("Role", << >>, {}))
           logs == New(logsPath, Resource("LogGroup", Under("/aws/pipes/", id), {}))
           pipe == New(self \o <<"Pipe" \o key>>, Resource("Pipe", id, {dlq, rolePath, logsPath}))
<1>1. Possible(root, B, role) /\ Possible(root, B \cup {role}, logs)
  BY ChildPossible
<1>2. Possible(root, B \cup {role, logs}, pipe)
  <2>1. dlq \in MadeOf(B \cup {role, logs})
    BY MoreMade
  <2>2. rolePath \in MadeOf(B \cup {role, logs}) /\ logsPath \in MadeOf(B \cup {role, logs})
    BY ResourceIsMade
  <2>3. QED
    BY <2>1, <2>2, ChildPossible
<1>3. DlqToTarget(self, name, dlq, key) = <<role, logs, pipe>>
  BY DEF DlqToTarget
<1> HIDE DEF role, logs, pipe
<1>4. QED
  BY <1>1, <1>2, <1>3, ThreeFollow, FollowsTakes

LEMMA SfnErrorNotificationStarts ==
  ASSUME NEW self, IsList(self), self # App, NEW ctx, NEW props
  PROVE  Starts(self, ctx, SfnErrorNotification(self, ctx, props))
<1> DEFINE B == Own(self)
           path == self \o <<"Dlq">>
           id == contextId(ctx)
           name == Given(props, "sqsQueueName", contextId(Derived(ctx, "dlq")))
           dlq == New(path, Resource("Queue", name, {}))
           rule == New(self \o <<"FailedRule">>, Resource("Rule", Dashed(id, "failed"), {path}))
           C == B \cup {dlq}
           D == C \cup {rule}
<1>1. Takes(self, B, <<dlq>>, C)
  BY ChildTakes
<1>2. path \in MadeOf(C) /\ B \subseteq C
  BY ResourceIsMade
<1>3. Takes(self, C, <<rule>>, D)
  BY <1>2, ChildTakes
<1>4. path \in MadeOf(D) /\ B \subseteq D
  BY ResourceIsMade
<1> HIDE DEF C, D, dlq, rule
<1>5. Takes(self, C, DlqAlarms(self, id, path, ""), C)
  BY <1>2, DlqAlarmsTake
<1>6. Takes(self, D, DlqToTarget(self, id, path, ""), D)
  BY <1>4, DlqToTargetTakes
<1>7. Takes(self, B, <<dlq>> \o DlqAlarms(self, id, path, ""), C)
  BY <1>1, <1>5, ThenTakes
<1>8. Takes(self, B, <<dlq>> \o DlqAlarms(self, id, path, "") \o <<rule>>, D)
  BY <1>3, <1>7, ThenTakes
<1>9. Takes(self, B, <<dlq>> \o DlqAlarms(self, id, path, "") \o <<rule>>
                     \o DlqToTarget(self, id, path, ""), D)
  BY <1>6, <1>8, ThenTakes
<1>10. QED
  BY <1>9, TakesStarts DEF SfnErrorNotification, B, dlq, rule

(* Queue, alarms and pipe, which two constructs are made of.               *)
LEMMA PipelineTakes ==
  ASSUME NEW self, IsList(self), NEW id, NEW name, NEW key, NEW x,
         NEW B, Own(self) \subseteq B
  PROVE  LET dlq == self \o <<x>>
         IN  Takes(self, B, <<New(dlq, Resource("Queue", name, {}))>>
                            \o DlqAlarms(self, id, dlq, key) \o DlqToTarget(self, id, dlq, key), B)
<1> DEFINE path == self \o <<x>>
           dlq == New(path, Resource("Queue", name, {}))
           C == B \cup {dlq}
<1>1. Takes(self, B, <<dlq>>, C)
  BY ChildTakes
<1>2. path \in MadeOf(C) /\ B \subseteq C
  BY ResourceIsMade
<1> HIDE DEF C, dlq, path
<1>3. Takes(self, C, DlqAlarms(self, id, path, key), C)
  BY <1>2, DlqAlarmsTake
<1>4. Takes(self, C, DlqToTarget(self, id, path, key), C)
  BY <1>2, DlqToTargetTakes
<1>5. Takes(self, B, <<dlq>> \o DlqAlarms(self, id, path, key), C)
  BY <1>1, <1>3, ThenTakes
<1>6. Takes(self, B, <<dlq>> \o DlqAlarms(self, id, path, key) \o DlqToTarget(self, id, path, key), C)
  BY <1>4, <1>5, ThenTakes
<1>7. QED
  BY <1>2, <1>6 DEF Takes, dlq, path

LEMMA LambdaErrorNotificationStarts ==
  ASSUME NEW self, IsList(self), self # App, NEW ctx, NEW props
  PROVE  Starts(self, ctx, LambdaErrorNotification(self, ctx, props))
<1> DEFINE id == contextId(ctx)
           dlq == self \o <<"Dlq">>
           name == Given(props, "sqsQueueName", contextId(Derived(ctx, "dlq")))
           body == <<New(dlq, Resource("Queue", name, {}))>>
                   \o DlqAlarms(self, id, dlq, "") \o DlqToTarget(self, id, dlq, "")
<1>1. Takes(self, Own(self), body, Own(self))
  BY PipelineTakes
<1>2. LambdaErrorNotification(self, ctx, props) = Constructor(self, ctx, body)
  BY DEF LambdaErrorNotification
<1> HIDE DEF body
<1>3. QED
  BY <1>1, <1>2, TakesStarts

LEMMA ExpressSfnErrorNotificationStarts ==
  ASSUME NEW self, IsList(self), self # App, NEW ctx, NEW props,
         "stepFunctions" \in DOMAIN props, Listed(props, "stepFunctions")
  PROVE  Starts(self, ctx, ExpressSfnErrorNotification(self, ctx, props))
<1> DEFINE list == props.stepFunctions
           ss == [i \in DOMAIN list |-> ExpressMachine(self, ctx, list[i])]
<1>1. IsList(list)
  BY DEF Listed, IsList, Given
<1> HIDE DEF list
<1>2. DOMAIN list = 1..Len(list) /\ Len(list) \in Nat
  BY <1>1 DEF IsList
<1>3. ss = [i \in 1..Len(list) |-> ss[i]]
  BY <1>2
<1>4. IsList(ss) /\ DOMAIN ss = 1..Len(list)
  BY <1>2, <1>3, FunctionIsList
<1>5. \A i \in DOMAIN ss : ss[i] = ExpressMachine(self, ctx, list[i])
  BY <1>2
<1>6. ASSUME NEW entry
      PROVE  Follows(self, Own(self), ExpressMachine(self, ctx, entry))
  <2> DEFINE key == "-" \o entry.key
             dlq == self \o <<"Dlq" \o key>>
             id == contextId(extendContext(ctx, [attributes |-> <<entry.text>>]))
             name == Given(entry, "sqsQueueName", contextId(machineDlqContext(ctx, entry.text)))
             body == <<New(dlq, Resource("Queue", name, {}))>>
                     \o DlqAlarms(self, id, dlq, key) \o DlqToTarget(self, id, dlq, key)
  <2>1. Takes(self, Own(self), body, Own(self))
    BY PipelineTakes
  <2>2. ExpressMachine(self, ctx, entry) = body
    BY DEF ExpressMachine
  <2> HIDE DEF body
  <2>3. QED
    BY <2>1, <2>2 DEF Takes
<1> HIDE DEF ss
<1>7. \A i \in DOMAIN ss : Follows(self, Own(self), ss[i])
  BY <1>5, <1>6
<1>8. Follows(self, Own(self), FlattenSeq(ss))
  BY <1>4, <1>7, FlattenFollows
<1>9. ExpressSfnErrorNotification(self, ctx, props) = Constructor(self, ctx, FlattenSeq(ss))
  BY DEF ExpressSfnErrorNotification, ss, list
<1>10. QED
  BY <1>8, <1>9, ConstructorStarts

(* S3Bucket, wherever it is put, and S3LogStorage, which contains one.     *)
LEMMA BucketBodyTakes ==
  ASSUME NEW root, NEW self, IsList(self), NEW B, Own(self) \subseteq B, NEW ctx, NEW props
  PROVE  LET bucket == New(self \o <<"Bucket">>,
                           Resource("Bucket", Given(props, "bucketName", contextId(ctx)), {}))
         IN  Takes(root, B, BucketBody(self, ctx, props), B \cup {bucket})
<1> DEFINE bucket == New(self \o <<"Bucket">>,
                         Resource("Bucket", Given(props, "bucketName", contextId(ctx)), {}))
           parse == Parse(Given(props, "sourcePolicyDocuments", "valid"))
<1>1. Takes(root, B, <<bucket>>, B \cup {bucket})
  BY ChildTakes
<1>2. Takes(root, B \cup {bucket}, parse, B \cup {bucket})
  BY ParseTakes
<1>3. BucketBody(self, ctx, props) = <<bucket>> \o parse
  BY DEF BucketBody
<1> HIDE DEF bucket, parse
<1>4. Takes(root, B, BucketBody(self, ctx, props), B \cup {bucket})
  BY <1>1, <1>2, <1>3, ThenTakes
<1>5. QED
  BY <1>4 DEF bucket

LEMMA S3BucketTakes ==
  ASSUME NEW root, NEW self, NEW B, Place(root, B, self), NEW ctx, NEW props
  PROVE  /\ Follows(root, B, S3Bucket(self, ctx, props))
         /\ Len(S3Bucket(self, ctx, props)) # 0
         /\ S3Bucket(self, ctx, props)[1] = New(self, Construct)
         /\ isEnabled(ctx) => self \o <<"Bucket">> \in MadeOf(ToSet(S3Bucket(self, ctx, props)))
<1> DEFINE body == BucketBody(self, ctx, props)
           bucket == New(self \o <<"Bucket">>,
                         Resource("Bucket", Given(props, "bucketName", contextId(ctx)), {}))
           C == B \cup Own(self)
           ss == S3Bucket(self, ctx, props)
<1>1. IsList(self)
  BY DEF Place
<1>2. Takes(root, C, body, C \cup {bucket})
  BY <1>1, BucketBodyTakes
<1>3. Takes(root, Own(self), body, Own(self) \cup {bucket})
  BY <1>1, BucketBodyTakes
<1>4. ss = Constructor(self, ctx, body)
  BY DEF S3Bucket
<1>5. New(self, Construct) # bucket
  BY ResourceReady DEF New, Construct, Resource
<1> HIDE DEF body, C, ss
<1>6. /\ Follows(root, B, ss) /\ Len(ss) # 0 /\ ss[1] = New(self, Construct)
  <2>1. Follows(root, B \cup Own(self), body)
    BY <1>2 DEF Takes, C
  <2>2. QED
    BY <2>1, <1>4, ConstructorFollows
<1>7. ASSUME isEnabled(ctx) PROVE bucket \in ToSet(ss)
  <2>1. IsList(body) /\ bucket \in Own(self) \cup ToSet(body)
    BY <1>3 DEF Takes, Follows
  <2>2. Own(self) \cup ToSet(body) \subseteq ToSet(ss)
    BY <1>4, <1>7, <2>1, ConstructorMakes
  <2>3. QED
    BY <2>1, <2>2
<1>8. isEnabled(ctx) => self \o <<"Bucket">> \in MadeOf(ToSet(ss))
  BY <1>7, ResourceIsMade
<1>9. QED
  BY <1>6, <1>8 DEF ss

LEMMA S3BucketStarts ==
  ASSUME NEW self, IsList(self), self # App, NEW ctx, NEW props
  PROVE  Starts(self, ctx, S3Bucket(self, ctx, props))
<1>1. Place(self, {}, self)
  BY DEF Place
<1>2. ~ isEnabled(ctx) => Idle(S3Bucket(self, ctx, props))
  BY JustItself DEF S3Bucket, Constructor, When
<1>3. QED
  BY <1>1, <1>2, S3BucketTakes DEF Starts

LEMMA TwoBelow ==
  ASSUME NEW p, IsList(p), NEW x, NEW y
  PROVE  p \o <<x, y>> = (p \o <<x>>) \o <<y>>
<1> DEFINE S == ToSet(p) \cup {x, y}
           c == p \o <<x>>
           u == p \o <<x, y>>
           v == c \o <<y>>
<1>1. p \in Seq(ToSet(p)) /\ ToSet(p) \subseteq S /\ x \in S /\ y \in S
  BY DEF IsList
<1> HIDE DEF S
<1>2. p \in Seq(S) /\ Len(p) \in Nat
  BY <1>1
<1>3. c \in Seq(S) /\ Len(c) = Len(p) + 1 /\ c[Len(p) + 1] = x /\ \A i \in 1..Len(p) : c[i] = p[i]
  BY <1>1, <1>2
<1>4. /\ u \in Seq(S) /\ Len(u) = Len(p) + 2 /\ u[Len(p) + 1] = x /\ u[Len(p) + 2] = y
      /\ \A i \in 1..Len(p) : u[i] = p[i]
  BY <1>1, <1>2
<1> HIDE DEF c
<1>5. /\ v \in Seq(S) /\ Len(v) = Len(p) + 2 /\ v[Len(p) + 2] = y
      /\ \A i \in 1..(Len(p) + 1) : v[i] = c[i]
  BY <1>1, <1>2, <1>3
<1> HIDE DEF u, v
<1>6. \A i \in 1..(Len(p) + 2) : u[i] = v[i]
  <2>1. ASSUME NEW i \in 1..(Len(p) + 2) PROVE u[i] = v[i]
    <3>1. i \in 1..Len(p) \/ i = Len(p) + 1 \/ i = Len(p) + 2
      BY <1>2
    <3>2. QED
      BY <1>2, <1>3, <1>4, <1>5, <3>1
  <2>2. QED
    BY <2>1
<1>7. u = v
  BY <1>4, <1>5, <1>6
<1>8. QED
  BY <1>7 DEF u, v, c

LEMMA LogStorageBodyFollows ==
  ASSUME NEW self, IsList(self), self # App, NEW ctx, isEnabled(ctx), NEW props
  PROVE  Follows(self, Own(self), LogStorageBody(self, ctx, props))
<1> DEFINE B == Own(self)
           inner == self \o <<"Bucket">>
           path == self \o <<"NotificationQueue">>
           place == self \o <<"Bucket", "Bucket">>
           bucket == S3Bucket(inner, ctx, props)
           queue == New(path, Resource("Queue", Dashed(contextId(ctx), "notifications"), {}))
           note == New(place \o <<"Notifications">>, Resource("BucketNotifications", << >>, {place, path}))
           notify == Is(props, "notificationsEnabled") /\ Given(props, "notificationsType", "SQS") = "SQS"
           C == B \cup ToSet(bucket)
           D == C \cup {queue}
<1>1. Place(self, B, inner)
  BY OwnIsMade, ChildPath DEF Place
<1>2. Takes(self, B, bucket, C) /\ inner \o <<"Bucket">> \in MadeOf(ToSet(bucket))
  BY <1>1, S3BucketTakes DEF Takes
<1>3. Takes(self, C, <<queue>>, D)
  BY ChildTakes
<1>4. path \in MadeOf(D)
  BY ResourceIsMade
<1>5. place = inner \o <<"Bucket">> /\ IsList(place)
  <2>1. IsList(inner)
    BY <1>1 DEF Place
  <2>2. place = inner \o <<"Bucket">>
    BY TwoBelow
  <2> HIDE DEF inner, place
  <2>3. IsList(inner \o <<"Bucket">>)
    BY <2>1, ChildPath
  <2>4. QED
    BY <2>2, <2>3
<1> HIDE DEF inner, bucket, path, place, queue
<1>6. place \in MadeOf(D) /\ place \in Made(D)
  BY <1>2, <1>5 DEF Made, MadeOf
<1> HIDE DEF B, C, D
<1>7. Possible(self, D, note)
  <2>1. {place, path} \subseteq MadeOf(D)
    BY <1>4, <1>6
  <2>2. QED
    BY <1>5, <1>6, <2>1, ResourcePossible
<1>8. Takes(self, D, <<note>>, D \cup {note})
  BY <1>7, OneTakes
<1> HIDE DEF note, notify
<1>9. Takes(self, C, <<queue, note>>, D \cup {note})
  BY <1>3, <1>8, TwoTake
<1>10. Follows(self, C, When(notify, <<queue, note>>))
  BY <1>9, WhenFollows DEF Takes
<1>11. LogStorageBody(self, ctx, props) = bucket \o When(notify, <<queue, note>>)
  BY DEF LogStorageBody, bucket, inner, queue, note, path, place, notify
<1>12. Follows(self, B, bucket \o When(notify, <<queue, note>>))
  BY <1>2, <1>10, ThenFollows DEF Takes, C
<1>13. QED
  BY <1>11, <1>12 DEF B

LEMMA S3LogStorageStarts ==
  ASSUME NEW self, IsList(self), self # App, NEW ctx, NEW props
  PROVE  Starts(self, ctx, S3LogStorage(self, ctx, props))
<1>1. CASE isEnabled(ctx)
  BY <1>1, LogStorageBodyFollows, ConstructorStarts DEF S3LogStorage
<1>2. CASE ~ isEnabled(ctx)
  <2>1. S3LogStorage(self, ctx, props) = Constructor(self, ctx, << >>)
    BY <1>2 DEF S3LogStorage, Constructor, When
  <2>2. QED
    BY <2>1, NothingFollows, ConstructorStarts
<1>3. QED
  BY <1>1, <1>2

LEMMA SecretStarts ==
  ASSUME NEW self, IsList(self), self # App, NEW ctx, NEW props
  PROVE  Starts(self, ctx, Secret(self, ctx, props))
<1> DEFINE B == Own(self)
           path == self \o <<"Key">>
           name == contextId(secretContext(ctx, props))
           ownKey == Given(props, "createKmsKey", TRUE)
           uses == IF ownKey THEN {path} ELSE {}
           key == New(path, Resource("Key", << >>, {}))
           alias == New(self \o <<"KeyAlias">>,
                        Resource("Alias", contextId(kmsKeyContext(ctx, props)), {path}))
           secret == New(self \o <<"Secret">>, Resource("Secret", name, uses))
           topic == New(self \o <<"Topic">>, Resource("Topic", Dashed(name, "updates"), uses))
           C == IF ownKey THEN B \cup {key} \cup {alias} ELSE B
           D == C \cup {secret}
<1>1. Takes(self, B, <<key>>, B \cup {key})
  BY ChildTakes
<1>2. Takes(self, B \cup {key}, <<alias>>, B \cup {key} \cup {alias})
  <2>1. {path} \subseteq MadeOf(B \cup {key}) /\ B \subseteq B \cup {key}
    BY ResourceIsMade
  <2>2. QED
    BY <2>1, ChildTakes
<1>3. uses \subseteq MadeOf(C) /\ uses \subseteq MadeOf(D) /\ B \subseteq C /\ B \subseteq D
  BY ResourceIsMade
<1>4. Takes(self, C, <<secret>>, D)
  BY <1>3, ChildTakes
<1>5. Takes(self, D, <<topic>>, D \cup {topic})
  BY <1>3, ChildTakes
<1>6. Secret(self, ctx, props)
        = Constructor(self, ctx, When(ownKey, <<key, alias>>) \o <<secret>>
                                 \o When(Is(props, "createSns"), <<topic>>))
  BY DEF Secret
<1> HIDE DEF B, D, key, alias, secret, topic, ownKey
<1>7. Takes(self, B, <<key, alias>>, B \cup {key} \cup {alias})
  BY <1>1, <1>2, TwoTake
<1>8. Takes(self, B, When(ownKey, <<key, alias>>), C)
  BY <1>7, WhenTakes
<1> HIDE DEF C
<1>9. Takes(self, B, When(ownKey, <<key, alias>>) \o <<secret>>, D)
  BY <1>4, <1>8, ThenTakes
<1>10. Takes(self, D, When(Is(props, "createSns"), <<topic>>), D)
  BY <1>5, WhenFollows, FollowsTakes DEF Takes
<1>11. Takes(self, B, When(ownKey, <<key, alias>>) \o <<secret>>
                      \o When(Is(props, "createSns"), <<topic>>), D)
  BY <1>9, <1>10, ThenTakes
<1>12. QED
  BY <1>6, <1>11, TakesStarts DEF B

LEMMA S3WebsiteStarts ==
  ASSUME NEW self, IsList(self), self # App, NEW ctx, NEW props
  PROVE  Starts(self, ctx, S3Website(self, ctx, props))
<1> DEFINE B == Own(self)
           bucketPath == self \o <<"OriginBucket">>
           oacPath == self \o <<"OAC">>
           aclPath == self \o <<"WebAcl">>
           distPath == self \o <<"Distribution">>
           waf == Is(props, "wafEnabled")
           aliased == Is(props, "dnsAliasEnabled") /\ Is(props, "parentZoneId")
           uses == {bucketPath, oacPath} \cup IF waf THEN {aclPath} ELSE {}
           bucket == New(bucketPath, Resource("Bucket", Dashed(contextId(ctx), "origin"), {}))
           oac == New(oacPath, Resource("OriginAccessControl", << >>, {}))
           acl == New(aclPath, Resource("WebACL", << >>, {}))
           dist == New(distPath, Resource("Distribution", << >>, uses))
           alias == New(self \o <<"DnsAlias">>, Resource("RecordSet", contextId(ctx), {distPath}))
           C == B \cup {bucket} \cup {oac}
           D == IF waf THEN C \cup {acl} ELSE C
           E == D \cup {dist}
<1>1. Takes(self, B, <<bucket>>, B \cup {bucket})
  BY ChildTakes
<1>2. Takes(self, B \cup {bucket}, <<oac>>, C)
  BY ChildTakes
<1>3. Takes(self, C, <<acl>>, C \cup {acl})
  BY ChildTakes
<1>4. uses \subseteq MadeOf(D) /\ B \subseteq D
  BY ResourceIsMade
<1>5. Takes(self, D, <<dist>>, E)
  BY <1>4, ChildTakes
<1>6. Takes(self, E, <<alias>>, E \cup {alias})
  <2>1. {distPath} \subseteq MadeOf(E) /\ B \subseteq E
    BY ResourceIsMade
  <2>2. QED
    BY <2>1, ChildTakes
<1>7. S3Website(self, ctx, props)
        = Constructor(self, ctx, <<bucket, oac>> \o When(waf, <<acl>>) \o <<dist>>
                                 \o When(aliased, <<alias>>))
  BY DEF S3Website
<1> HIDE DEF B, C, E, bucket, oac, acl, dist, alias, waf, aliased
<1>8. Takes(self, B, <<bucket, oac>>, C)
  BY <1>1, <1>2, TwoTake
<1>9. Takes(self, C, When(waf, <<acl>>), D)
  BY <1>3, WhenTakes
<1> HIDE DEF D
<1>10. Takes(self, E, When(aliased, <<alias>>), E)
  BY <1>6, WhenFollows, FollowsTakes DEF Takes
<1>11. Takes(self, B, <<bucket, oac>> \o When(waf, <<acl>>), D)
  BY <1>8, <1>9, ThenTakes
<1>12. Takes(self, B, <<bucket, oac>> \o When(waf, <<acl>>) \o <<dist>>, E)
  BY <1>5, <1>11, ThenTakes
<1>13. Takes(self, B, <<bucket, oac>> \o When(waf, <<acl>>) \o <<dist>> \o When(aliased, <<alias>>), E)
  BY <1>10, <1>12, ThenTakes
<1>14. QED
  BY <1>7, <1>13, TakesStarts DEF B

(* Ses: the records of the identity, and the user.                         *)
LEMMA SesRecordsFollow ==
  ASSUME NEW root, NEW self, IsList(self), NEW B, Own(self) \subseteq B,
         self \o <<"Identity">> \in MadeOf(B), NEW props
  PROVE  Follows(root, B, SesRecords(self, props))
<1> DEFINE zone == Is(props, "zoneId") /\ Is(props, "zoneName")
           record == Resource("RecordSet", << >>, {self \o <<"Identity">>})
           first == New(self \o <<"VerificationRecord">>, record)
           rest == [i \in 1..3 |-> New(self \o <<"DkimRecord" \o ToString(i)>>, record)]
<1>1. Possible(root, B, first) /\ \A i \in 1..3 : Possible(root, B, rest[i])
  BY ChildPossible
<1>2. rest = [i \in 1..3 |-> rest[i]]
  OBVIOUS
<1>3. SesRecords(self, props) = When(Is(props, "verifyDomain") /\ zone, <<first>>)
                                \o When(Is(props, "verifyDkim") /\ zone, rest)
  BY DEF SesRecords
<1> HIDE DEF first, rest, zone
<1>4. IsList(rest) /\ DOMAIN rest = 1..3
  BY <1>2, FunctionIsList
<1>5. Follows(root, B, rest)
  BY <1>1, <1>4, EachFollows
<1>6. Follows(root, B, <<first>>)
  BY <1>1, OneFollows
<1>7. /\ Follows(root, B, When(Is(props, "verifyDomain") /\ zone, <<first>>))
      /\ Follows(root, B, When(Is(props, "verifyDkim") /\ zone, rest))
  BY <1>5, <1>6, WhenFollows
<1>8. QED
  BY <1>3, <1>7, BothFollow

LEMMA SesUserFollows ==
  ASSUME NEW root, NEW self, IsList(self), NEW B, Own(self) \subseteq B, NEW ctx, NEW props,
         Given(props, "sesGroupEnabled", TRUE) => self \o <<"Group">> \in MadeOf(B)
  PROVE  Follows(root, B, SesUser(self, ctx, props))
<1> DEFINE path == self \o <<"User">>
           group == IF Given(props, "sesGroupEnabled", TRUE) THEN {self \o <<"Group">>} ELSE {}
           name == Dashed(Dashed(contextId(ctx), "ses"), "user")
           user == New(path, Resource("User", name, group))
           access == New(self \o <<"AccessKey">>, Resource("AccessKey", << >>, {path}))
           policy == New(self \o <<"InlinePolicy0">>, Resource("Policy", << >>, {path}))
           parse == Parse(props.inlinePolicies)
           keyed == Given(props, "createIamAccessKey", TRUE)
           inline == "inlinePolicies" \in DOMAIN props
           C == B \cup {user}
<1>1. Takes(root, B, <<user>>, C)
  BY ChildTakes
<1>2. {path} \subseteq MadeOf(C) /\ B \subseteq C
  BY ResourceIsMade
<1>3. Takes(root, C, <<access>>, C \cup {access}) /\ Takes(root, C, <<policy>>, C \cup {policy})
  BY <1>2, ChildTakes
<1>4. SesUser(self, ctx, props)
        = <<user>> \o When(keyed, <<access>>) \o When(inline, parse \o <<policy>>)
  BY DEF SesUser
<1>5. Takes(root, C, parse, C)
  BY ParseTakes
<1> HIDE DEF user, access, policy, parse, C, keyed, inline
<1>6. Takes(root, C, parse \o <<policy>>, C \cup {policy})
  BY <1>3, <1>5, ThenTakes
<1>7. Takes(root, C, When(keyed, <<access>>), C)
  BY <1>3, WhenFollows, FollowsTakes DEF Takes
<1>8. Takes(root, C, When(inline, parse \o <<policy>>), C)
  BY <1>6, WhenFollows, FollowsTakes DEF Takes
<1>9. Takes(root, B, <<user>> \o When(keyed, <<access>>), C)
  BY <1>1, <1>7, ThenTakes
<1>10. Takes(root, B, <<user>> \o When(keyed, <<access>>) \o When(inline, parse \o <<policy>>), C)
  BY <1>8, <1>9, ThenTakes
<1>11. QED
  BY <1>4, <1>10 DEF Takes

LEMMA SesStarts ==
  ASSUME NEW self, IsList(self), self # App, NEW ctx, NEW props
  PROVE  Starts(self, ctx, Ses(self, ctx, props))
<1> DEFINE B == Own(self)
           groupName == Given(props, "sesGroupName", Dashed(contextId(ctx), "ses"))
           identity == New(self \o <<"Identity">>, Resource("EmailIdentity", contextId(ctx), {}))
           group == New(self \o <<"Group">>, Resource("Group", groupName, {}))
           records == SesRecords(self, props)
           user == SesUser(self, ctx, props)
           grouped == Given(props, "sesGroupEnabled", TRUE)
           used == Given(props, "sesUserEnabled", TRUE)
           C == B \cup {identity}
           D == IF grouped THEN C \cup {group} ELSE C
<1>1. Takes(self, B, <<identity>>, C)
  BY ChildTakes
<1>2. Takes(self, C, <<group>>, C \cup {group})
  BY ChildTakes
<1>3. self \o <<"Identity">> \in MadeOf(C) /\ B \subseteq C /\ B \subseteq D
  BY ResourceIsMade
<1>4. grouped => self \o <<"Group">> \in MadeOf(D)
  BY ResourceIsMade
<1>5. Ses(self, ctx, props)
        = Constructor(self, ctx, <<identity>> \o records \o When(grouped, <<group>>) \o When(used, user))
  BY DEF Ses
<1> HIDE DEF identity, group, C
<1>6. Takes(self, C, records, C)
  BY <1>3, SesRecordsFollow, FollowsTakes
<1>7. Follows(self, D, user)
  BY <1>3, <1>4, SesUserFollows
<1> HIDE DEF records, user, used
<1>8. Takes(self, C, When(grouped, <<group>>), D)
  BY <1>2, WhenTakes
<1> HIDE DEF B, D, grouped
<1>9. Takes(self, D, When(used, user), D)
  BY <1>7, WhenFollows, FollowsTakes
<1>10. Takes(self, B, <<identity>> \o records, C)
  BY <1>1, <1>6, ThenTakes
<1>11. Takes(self, B, <<identity>> \o records \o When(grouped, <<group>>), D)
  BY <1>8, <1>10, ThenTakes
<1>12. Takes(self, B, <<identity>> \o records \o When(grouped, <<group>>) \o When(used, user), D)
  BY <1>9, <1>11, ThenTakes
<1>13. QED
  BY <1>5, <1>12, TakesStarts DEF B

LEMMA ListsAssociate ==
  ASSUME NEW s, NEW t, NEW u, IsList(s), IsList(t), IsList(u)
  PROVE  (s \o t) \o u = s \o (t \o u)
<1> DEFINE S == ToSet(s) \cup ToSet(t) \cup ToSet(u)
<1>1. /\ s \in Seq(ToSet(s)) /\ t \in Seq(ToSet(t)) /\ u \in Seq(ToSet(u))
      /\ ToSet(s) \subseteq S /\ ToSet(t) \subseteq S /\ ToSet(u) \subseteq S
  BY DEF IsList
<1> HIDE DEF S
<1>2. s \in Seq(S) /\ t \in Seq(S) /\ u \in Seq(S)
  BY <1>1
<1>3. QED
  BY <1>2, ConcatAssociative

(* IamRole: its inline policies, and the statements of an enabled one.     *)
LEMMA InlinePoliciesFollow ==
  ASSUME NEW root, NEW self, IsList(self), NEW B, Own(self) \subseteq B,
         self \o <<"Role">> \in MadeOf(B), NEW list, IsList(list)
  PROVE  Follows(root, B, FlattenSeq([i \in DOMAIN list |-> InlinePolicy(self, list[i])]))
<1> DEFINE ss == [i \in DOMAIN list |-> InlinePolicy(self, list[i])]
<1>1. ASSUME NEW policy PROVE Follows(root, B, InlinePolicy(self, policy))
  <2> DEFINE parse == Parse(policy.document)
             new == New(self \o <<"InlinePolicy-" \o policy.name>>,
                        Resource("Policy", << >>, {self \o <<"Role">>}))
  <2>1. Follows(root, B, <<new>>)
    BY ChildFollows
  <2>2. Follows(root, B, parse)
    BY ParseFollows
  <2>3. InlinePolicy(self, policy) = parse \o <<new>>
    BY DEF InlinePolicy
  <2> HIDE DEF parse, new
  <2>4. QED
    BY <2>1, <2>2, <2>3, BothFollow
<1>2. DOMAIN list = 1..Len(list) /\ Len(list) \in Nat
  BY DEF IsList
<1>3. ss = [i \in 1..Len(list) |-> ss[i]]
  BY <1>2
<1>4. IsList(ss) /\ DOMAIN ss = 1..Len(list)
  BY <1>2, <1>3, FunctionIsList
<1>5. \A i \in DOMAIN ss : ss[i] = InlinePolicy(self, list[i])
  BY <1>2
<1> HIDE DEF ss
<1>6. \A i \in DOMAIN ss : Follows(root, B, ss[i])
  BY <1>1, <1>5
<1>7. Follows(root, B, FlattenSeq(ss))
  BY <1>4, <1>6, FlattenFollows
<1>8. QED
  BY <1>7 DEF ss

LEMMA RoleBodyFollows ==
  ASSUME NEW self, IsList(self), NEW ctx, NEW props, Listed(props, "inlinePolicies")
  PROVE  Follows(self, Own(self), RoleBody(self, ctx, props))
<1> DEFINE B == Own(self)
           path == self \o <<"Role">>
           list == Given(props, "inlinePolicies", << >>)
           role == New(path, Resource("Role", roleName(ctx, props), {}))
           policy == New(self \o <<"Policy">>,
                         Resource("Policy", Dashed(contextId(ctx), "policy"), {path}))
           profile == New(self \o <<"InstanceProfile">>,
                          Resource("InstanceProfile", contextId(ctx), {path}))
           trust == Parse(Given(props, "assumeRolePolicyDocumentOverride", "valid"))
           parse == Parse(props.policyDocuments)
           inline == FlattenSeq([i \in DOMAIN list |-> InlinePolicy(self, list[i])])
           given1 == "policyDocuments" \in DOMAIN props
           given2 == Is(props, "instanceProfileEnabled")
           C == B \cup {role}
<1>1. Takes(self, B, <<role>>, C)
  BY ChildTakes
<1>2. {path} \subseteq MadeOf(C) /\ B \subseteq C
  BY ResourceIsMade
<1>3. Takes(self, C, <<policy>>, C \cup {policy}) /\ Takes(self, C, <<profile>>, C \cup {profile})
  BY <1>2, ChildTakes
<1>4. IsList(list)
  BY DEF Listed, IsList
<1> HIDE DEF list
<1>5. Takes(self, C, inline, C)
  BY <1>2, <1>4, InlinePoliciesFollow, FollowsTakes
<1>6. Takes(self, B, trust, B) /\ Takes(self, C, parse, C)
  BY ParseTakes
<1>7. RoleBody(self, ctx, props)
        = trust \o <<role>> \o When(given1, parse \o <<policy>>) \o inline \o When(given2, <<profile>>)
  BY DEF RoleBody, list
<1> HIDE DEF B, C, trust, role, parse, policy, inline, profile, given1, given2
<1>8. Takes(self, C, parse \o <<policy>>, C \cup {policy})
  BY <1>3, <1>6, ThenTakes
<1>9. Takes(self, C, When(given1, parse \o <<policy>>), C) /\ Takes(self, C, When(given2, <<profile>>), C)
  BY <1>3, <1>8, WhenFollows, FollowsTakes DEF Takes
<1>10. Takes(self, B, trust \o <<role>>, C)
  BY <1>1, <1>6, ThenTakes
<1>11. Takes(self, B, trust \o <<role>> \o When(given1, parse \o <<policy>>), C)
  BY <1>9, <1>10, ThenTakes
<1>12. Takes(self, B, trust \o <<role>> \o When(given1, parse \o <<policy>>) \o inline, C)
  BY <1>5, <1>11, ThenTakes
<1>13. Takes(self, B, trust \o <<role>> \o When(given1, parse \o <<policy>>) \o inline
                      \o When(given2, <<profile>>), C)
  BY <1>9, <1>12, ThenTakes
<1>14. QED
  BY <1>7, <1>13 DEF Takes, B

LEMMA IamRoleStarts ==
  ASSUME NEW self, IsList(self), self # App, NEW ctx, NEW props, Listed(props, "inlinePolicies")
  PROVE  Starts(self, ctx, IamRole(self, ctx, props))
<1> DEFINE B == {} \cup Own(self)
           tag == AddTags(self, contextTags(ctx))
           tags == When(Given(props, "tagsEnabled", TRUE), <<tag>>)
           body == RoleBody(self, ctx, props)
           rest == When(isEnabled(ctx), body \o tags)
<1>1. Follows(self, B, body)
  BY RoleBodyFollows
<1>2. Possible(self, B, tag)
  BY OwnIsMade, AddTagsPossible
<1> HIDE DEF B, tag, body
<1>3. Follows(self, B, tags)
  BY <1>2, OneFollows, WhenFollows
<1> HIDE DEF tags
<1>4. Follows(self, B, body \o tags)
  BY <1>1, <1>3, BothFollow
<1>5. Follows(self, B, rest)
  BY <1>4, WhenFollows
<1>6. IamRole(self, ctx, props) = <<New(self, Construct)>> \o rest
  BY DEF IamRole, rest, body, tags, tag
<1> HIDE DEF rest
<1>7. Place(self, {}, self)
  BY DEF Place
<1>8. ~ isEnabled(ctx) => Idle(IamRole(self, ctx, props))
  BY JustItself DEF IamRole, When
<1>9. QED
  BY <1>5, <1>6, <1>7, <1>8, BeginFollows DEF Starts, B

LEMMA IamPolicyStarts ==
  ASSUME NEW self, IsList(self), self # App, NEW ctx, NEW props
  PROVE  Starts(self, ctx, IamPolicy(self, ctx, props))
<1> DEFINE B == {} \cup Own(self)
           tag == AddTags(self, contextTags(ctx))
           policy == New(self \o <<"Policy">>, Resource("ManagedPolicy", contextId(ctx), {}))
           source == Parse(Given(props, "sourcePolicyDocuments", "valid"))
           override == Parse(Given(props, "overridePolicyDocuments", "valid"))
           parse == source \o override
           made == isEnabled(ctx) /\ Is(props, "iamPolicyEnabled")
           rest == When(made, <<policy, tag>>)
           first == <<New(self, Construct)>>
<1>1. Possible(self, B, policy)
  BY ChildPossible
<1>2. Possible(self, B \cup {policy}, tag)
  <2>1. self \in Made(B \cup {policy})
    BY OwnIsMade, MoreMade
  <2>2. QED
    BY <2>1, AddTagsPossible
<1>3. Follows(self, B, parse) /\ IsList(source) /\ IsList(override)
  <2>1. Follows(self, B, source) /\ Follows(self, B, override)
    BY ParseFollows
  <2> HIDE DEF B, source, override
  <2>2. QED
    BY <2>1, BothFollow DEF Follows
<1>4. IamPolicy(self, ctx, props) = (first \o parse) \o rest
  <2>1. IamPolicy(self, ctx, props) = ((first \o source) \o override) \o rest
    BY DEF IamPolicy
  <2>2. IsList(first)
    <3>1. first \in Seq({New(self, Construct)})
      OBVIOUS
    <3>2. QED
      BY <3>1, SequenceIsList
  <2> HIDE DEF first, source, override, rest
  <2>3. (first \o source) \o override = first \o (source \o override)
    BY <1>3, <2>2, ListsAssociate
  <2>4. QED
    BY <2>1, <2>3
<1> HIDE DEF B, tag, policy, parse, made
<1>5. Follows(self, B, <<policy, tag>>)
  BY <1>1, <1>2, TwoFollow
<1>6. Follows(self, B, rest)
  BY <1>5, WhenFollows
<1> HIDE DEF rest
<1>7. Follows(self, B, parse \o rest)
  BY <1>3, <1>6, BothFollow
<1>8. Place(self, {}, self)
  BY DEF Place
<1>9. Follows(self, {}, first \o (parse \o rest)) /\ Len(first \o (parse \o rest)) # 0
      /\ (first \o (parse \o rest))[1] = New(self, Construct)
  BY <1>7, <1>8, BeginFollows DEF B
<1>10. (first \o parse) \o rest = first \o (parse \o rest)
  <2>1. IsList(first) /\ IsList(parse) /\ IsList(rest)
    <3>1. first \in Seq({New(self, Construct)})
      OBVIOUS
    <3>2. QED
      BY <3>1, <1>3, <1>6, SequenceIsList DEF Follows
  <2> HIDE DEF first
  <2>2. QED
    BY <2>1, ListsAssociate
<1>11. ASSUME ~ isEnabled(ctx) PROVE Idle(first \o (parse \o rest))
  <2>1. rest = << >>
    BY <1>11 DEF rest, made, When
  <2>2. parse \o rest = parse
    <3>1. PICK S : parse \in Seq(S)
      BY <1>3 DEF Follows, IsList
    <3>2. QED
      BY <2>1, <3>1
  <2>3. IsList(first)
    <3>1. first \in Seq({New(self, Construct)})
      OBVIOUS
    <3>2. QED
      BY <3>1, SequenceIsList
  <2>4. IsList(parse) /\ Idle(parse) /\ Idle(first)
    <3>1. Idle(source) /\ Idle(override) /\ Idle(first)
      BY ParseIsIdle, JustItself
    <3>2. IsList(parse)
      BY <1>3 DEF Follows
    <3> HIDE DEF source, override, first
    <3>3. ToSet(source \o override) = ToSet(source) \cup ToSet(override)
      BY <1>3, ListsJoin
    <3>4. Idle(source \o override)
      BY <3>1, <3>3 DEF Idle
    <3>5. QED
      BY <3>1, <3>2, <3>4 DEF parse
  <2> HIDE DEF first
  <2>5. ToSet(first \o parse) = ToSet(first) \cup ToSet(parse)
    BY <2>3, <2>4, ListsJoin
  <2>6. QED
    BY <2>2, <2>4, <2>5 DEF Idle
<1> HIDE DEF first
<1>12. QED
  BY <1>4, <1>9, <1>10, <1>11 DEF Starts

LEMMA IamUserStarts ==
  ASSUME NEW self, IsList(self), self # App, NEW ctx, NEW props
  PROVE  Starts(self, ctx, IamUser(self, ctx, props))
<1> DEFINE user == New(self \o <<"User">>, Resource("User", << >>, {}))
<1>1. Follows(self, Own(self), <<user>>)
  BY ChildFollows
<1>2. IamUser(self, ctx, props) = Constructor(self, ctx, <<user>>)
  BY DEF IamUser
<1> HIDE DEF user
<1>3. QED
  BY <1>1, <1>2, ConstructorStarts

LEMMA DynamodbStarts ==
  ASSUME NEW self, IsList(self), self # App, NEW ctx, NEW props
  PROVE  Starts(self, ctx, Dynamodb(self, ctx, props))
<1> DEFINE B == Own(self)
           path == self \o <<"Table">>
           node == Resource("ScalableTarget", << >>, {path})
           table == New(path, Resource("Table", contextId(ctx), {}))
           read == New(path \o <<"ReadScaling">>, node)
           write == New(path \o <<"WriteScaling">>, node)
           indexes == AddIndexes(props)
           scaled == Is(props, "enableAutoscaler") /\ Given(props, "billingMode", "") # "PAY_PER_REQUEST"
           C == B \cup {table}
<1>1. Takes(self, B, <<table>>, C)
  BY ChildTakes
<1>2. Takes(self, C, indexes, C)
  BY ThrowFollows, WhenFollows, FollowsTakes DEF AddIndexes
<1>3. {path} \subseteq MadeOf(C) /\ path \in Made(C) /\ IsList(path)
  BY ResourceIsMade, ChildPath
<1>4. Possible(self, C, read)
  <2> HIDE DEF C, path
  <2>1. QED
    BY <1>3, ResourcePossible
<1>5. Possible(self, C \cup {read}, write)
  <2> HIDE DEF C, path, read
  <2>1. {path} \subseteq MadeOf(C \cup {read}) /\ path \in Made(C \cup {read})
    BY <1>3, MoreMade
  <2>2. QED
    BY <1>3, <2>1, ResourcePossible
<1>6. Dynamodb(self, ctx, props)
        = Constructor(self, ctx, <<table>> \o indexes \o When(scaled, <<read, write>>))
  BY DEF Dynamodb
<1> HIDE DEF B, C, table, read, write, indexes, scaled
<1>7. Takes(self, C, When(scaled, <<read, write>>), C)
  BY <1>4, <1>5, TwoFollow, WhenFollows, FollowsTakes
<1>8. Takes(self, B, <<table>> \o indexes, C)
  BY <1>1, <1>2, ThenTakes
<1>9. Takes(self, B, <<table>> \o indexes \o When(scaled, <<read, write>>), C)
  BY <1>7, <1>8, ThenTakes
<1>10. QED
  BY <1>6, <1>9, TakesStarts DEF B

LEMMA KinesisStreamStarts ==
  ASSUME NEW self, IsList(self), self # App, NEW ctx, NEW props,
         Given(props, "consumerCount", 0) \in Nat
  PROVE  Starts(self, ctx, KinesisStream(self, ctx, props))
<1> DEFINE B == Own(self)
           n == Given(props, "consumerCount", 0)
           path == self \o <<"Stream">>
           stream == New(path, Resource("Stream", contextId(ctx), {}))
           consumers == [i \in 1..n |-> New(self \o <<"Consumer" \o ToString(i - 1)>>,
                                            Resource("StreamConsumer", << >>, {path}))]
           C == B \cup {stream}
<1>1. Takes(self, B, <<stream>>, C)
  BY ChildTakes
<1>2. {path} \subseteq MadeOf(C) /\ B \subseteq C
  BY ResourceIsMade
<1>3. KinesisStream(self, ctx, props) = Constructor(self, ctx, <<stream>> \o consumers)
  BY DEF KinesisStream
<1> HIDE DEF n, C, stream
<1>4. \A i \in 1..n : Possible(self, C, consumers[i])
  BY <1>2, ChildPossible
<1>5. consumers = [i \in 1..n |-> consumers[i]] /\ n \in Nat
  BY DEF n
<1> HIDE DEF consumers
<1>6. IsList(consumers) /\ DOMAIN consumers = 1..n
  BY <1>5, FunctionIsList
<1>7. Takes(self, C, consumers, C)
  BY <1>4, <1>6, EachFollows, FollowsTakes
<1>8. QED
  BY <1>1, <1>3, <1>7, ThenTakes, TakesStarts

LEMMA RedshiftClusterStarts ==
  ASSUME NEW self, IsList(self), self # App, NEW ctx, NEW props
  PROVE  Starts(self, ctx, RedshiftCluster(self, ctx, props))
<1> DEFINE B == Own(self)
           subnetsPath == self \o <<"SubnetGroup">>
           paramsPath == self \o <<"ParamGroup">>
           subnets == New(subnetsPath, Resource("ClusterSubnetGroup", << >>, {}))
           params == New(paramsPath, Resource("ClusterParameterGroup", << >>, {}))
           cluster == New(self \o <<"Cluster">>,
                          Resource("Cluster", clusterIdentifier(ctx, props), {subnetsPath, paramsPath}))
<1>1. Possible(self, B, subnets) /\ Possible(self, B \cup {subnets}, params)
  BY ChildPossible
<1>2. Possible(self, B \cup {subnets, params}, cluster)
  <2>1. {subnetsPath, paramsPath} \subseteq MadeOf(B \cup {subnets, params})
    BY ResourceIsMade
  <2>2. QED
    BY <2>1, ChildPossible
<1>3. RedshiftCluster(self, ctx, props) = Constructor(self, ctx, <<subnets, params, cluster>>)
  BY DEF RedshiftCluster
<1> HIDE DEF B, subnets, params, cluster
<1>4. Follows(self, B, <<subnets, params, cluster>>)
  BY <1>1, <1>2, ThreeFollow
<1>5. QED
  BY <1>3, <1>4, ConstructorStarts DEF B

LEMMA AuroraDsqlStarts ==
  ASSUME NEW self, IsList(self), self # App, NEW ctx, NEW props
  PROVE  Starts(self, ctx, AuroraDsql(self, ctx, props))
<1> DEFINE cluster == New(self \o <<"Cluster">>, Resource("DsqlCluster", << >>, {}))
<1>1. Follows(self, Own(self), <<cluster>>)
  BY ChildFollows
<1>2. AuroraDsql(self, ctx, props) = Constructor(self, ctx, <<cluster>>)
  BY DEF AuroraDsql
<1> HIDE DEF cluster
<1>3. QED
  BY <1>1, <1>2, ConstructorStarts

(* The event buses, rules, trails, alarms and flow logs.                   *)
LEMMA EventbridgeStarts ==
  ASSUME NEW self, IsList(self), self # App, NEW ctx, NEW props
  PROVE  Starts(self, ctx, Eventbridge(self, ctx, props))
<1> DEFINE B == Own(self)
           path == self \o <<"EventBus">>
           bus == New(path, Resource("EventBus", eventBusName(ctx, props), {}))
           policy == New(self \o <<"Policy">>, Resource("EventBusPolicy", << >>, {path}))
           parse == Parse(props.policyDocument)
           documented == "policyDocument" \in DOMAIN props
           C == B \cup {bus}
<1>1. Takes(self, B, <<bus>>, C)
  BY ChildTakes
<1>2. {path} \subseteq MadeOf(C) /\ B \subseteq C
  BY ResourceIsMade
<1>3. Takes(self, C, <<policy>>, C \cup {policy})
  BY <1>2, ChildTakes
<1>4. Takes(self, C, parse, C)
  BY ParseTakes
<1>5. Eventbridge(self, ctx, props)
        = Constructor(self, ctx, <<bus>> \o When(documented, parse \o <<policy>>))
  BY DEF Eventbridge
<1> HIDE DEF B, C, bus, policy, parse, documented
<1>6. Takes(self, C, parse \o <<policy>>, C \cup {policy})
  BY <1>3, <1>4, ThenTakes
<1>7. Takes(self, C, When(documented, parse \o <<policy>>), C)
  BY <1>6, WhenFollows, FollowsTakes DEF Takes
<1>8. Takes(self, B, <<bus>> \o When(documented, parse \o <<policy>>), C)
  BY <1>1, <1>7, ThenTakes
<1>9. QED
  BY <1>5, <1>8, TakesStarts DEF B

LEMMA EventbridgeRuleStarts ==
  ASSUME NEW self, IsList(self), self # App, NEW ctx, NEW props
  PROVE  Starts(self, ctx, EventbridgeRule(self, ctx, props))
<1> DEFINE B == Own(self)
           path == self \o <<"Rule">>
           rolePath == path \o <<"EventsRole">>
           rule == New(path, Resource("Rule", contextId(ctx), {}))
           role == New(rolePath, Resource("Role", << >>, {}))
           refer == Refer(path, {rolePath})
           targeted == "targetEventBusArn" \in DOMAIN props
           C == B \cup {rule}
           D == C \cup {role}
<1>1. Takes(self, B, <<rule>>, C)
  BY ChildTakes
<1>2. path \in Made(C) /\ IsList(path)
  BY ResourceIsMade, ChildPath
<1>3. Takes(self, C, <<role>>, D)
  <2>1. {} \subseteq MadeOf(C)
    OBVIOUS
  <2> HIDE DEF C, path
  <2>2. Possible(self, C, role)
    BY <1>2, <2>1, ResourcePossible
  <2>3. QED
    BY <2>2, OneTakes
<1>4. Takes(self, D, <<refer>>, D \cup {refer})
  <2>1. path \in Made(D)
    BY ResourceIsMade
  <2>2. rolePath \in MadeOf(D)
    BY ResourceIsMade
  <2> HIDE DEF D, path, rolePath
  <2>3. Possible(self, D, refer)
    BY <2>1, <2>2 DEF Possible, Refer
  <2>4. QED
    BY <2>3, OneTakes
<1>5. EventbridgeRule(self, ctx, props)
        = Constructor(self, ctx, <<rule>> \o When(targeted, <<role, refer>>))
  BY DEF EventbridgeRule
<1> HIDE DEF B, C, D, rule, role, refer, targeted
<1>6. Takes(self, C, <<role, refer>>, D \cup {refer})
  BY <1>3, <1>4, TwoTake
<1>7. Takes(self, C, When(targeted, <<role, refer>>), C)
  BY <1>6, WhenFollows, FollowsTakes DEF Takes
<1>8. Takes(self, B, <<rule>> \o When(targeted, <<role, refer>>), C)
  BY <1>1, <1>7, ThenTakes
<1>9. QED
  BY <1>5, <1>8, TakesStarts DEF B

LEMMA CloudwatchEventsStarts ==
  ASSUME NEW self, IsList(self), self # App, NEW ctx, NEW props,
         "rules" \in DOMAIN props, Listed(props, "rules")
  PROVE  Starts(self, ctx, CloudwatchEvents(self, ctx, props))
<1> DEFINE list == props.rules
           ss == [i \in DOMAIN list |-> EventsRule(self, ctx, list[i])]
<1>1. IsList(list)
  BY DEF Listed, IsList, Given
<1> HIDE DEF list
<1>2. DOMAIN list = 1..Len(list) /\ Len(list) \in Nat
  BY <1>1 DEF IsList
<1>3. ss = [i \in 1..Len(list) |-> ss[i]]
  BY <1>2
<1>4. IsList(ss) /\ DOMAIN ss = 1..Len(list)
  BY <1>2, <1>3, FunctionIsList
<1>5. \A i \in DOMAIN ss : ss[i] = EventsRule(self, ctx, list[i])
  BY <1>2
<1>6. ASSUME NEW rule
      PROVE  Follows(self, Own(self), EventsRule(self, ctx, rule))
  <2> DEFINE parse == Parse(Given(rule, "eventPattern", "valid"))
             new == New(self \o <<"Rule-" \o rule.name>>,
                        Resource("Rule", contextId(ctx) \o <<Dash>> \o rule.text, {}))
             refuse == When(~ ToSet(rule.targets) \subseteq TargetType, <<Throw>>)
  <2>1. Follows(self, Own(self), <<new>>)
    BY ChildFollows
  <2>2. Follows(self, Own(self), parse)
    BY ParseFollows
  <2>3. Follows(self, Own(self), refuse)
    BY ThrowFollows, WhenFollows
  <2>4. EventsRule(self, ctx, rule) = parse \o <<new>> \o refuse
    BY DEF EventsRule
  <2> HIDE DEF parse, new, refuse
  <2>5. Follows(self, Own(self), parse \o <<new>>)
    BY <2>1, <2>2, BothFollow
  <2>6. QED
    BY <2>3, <2>4, <2>5, BothFollow
<1> HIDE DEF ss
<1>7. \A i \in DOMAIN ss : Follows(self, Own(self), ss[i])
  BY <1>5, <1>6
<1>8. Follows(self, Own(self), FlattenSeq(ss))
  BY <1>4, <1>7, FlattenFollows
<1>9. CloudwatchEvents(self, ctx, props) = Constructor(self, ctx, FlattenSeq(ss))
  BY DEF CloudwatchEvents, ss, list
<1>10. QED
  BY <1>8, <1>9, ConstructorStarts

LEMMA CloudTrailStarts ==
  ASSUME NEW self, IsList(self), self # App, NEW ctx, NEW props
  PROVE  Starts(self, ctx, CloudTrail(self, ctx, props))
<1> DEFINE B == Own(self)
           logsPath == self \o <<"LogGroup">>
           path == self \o <<"Trail">>
           rolePath == path \o <<"LogsRole">>
           logs == New(logsPath, Resource("LogGroup", Under("/aws/cloudtrail/", contextId(ctx)), {}))
           trail == New(path, Resource("Trail", contextId(ctx), {}))
           role == New(rolePath, Resource("Role", << >>, {}))
           refer == Refer(path, {logsPath, rolePath})
           logging == Is(props, "cloudWatchLogsEnabled")
           C == IF logging THEN B \cup {logs} ELSE B
           D == C \cup {trail}
<1>1. Takes(self, B, <<logs>>, B \cup {logs})
  BY ChildTakes
<1>2. Takes(self, C, <<trail>>, D)
  BY ChildTakes
<1>3. path \in Made(D) /\ IsList(path) /\ (logging => logsPath \in MadeOf(D))
  BY ResourceIsMade, ChildPath
<1>4. CloudTrail(self, ctx, props)
        = Constructor(self, ctx, When(logging, <<logs>>) \o <<trail>> \o When(logging, <<role, refer>>))
  BY DEF CloudTrail
<1> HIDE DEF B, D, logs, trail, path, logsPath, logging
<1>5. ASSUME logging PROVE Follows(self, D, <<role, refer>>)
  <2>1. Possible(self, D, role)
    BY <1>3, ResourcePossible
  <2>2. path \in Made(D \cup {role}) /\ logsPath \in MadeOf(D \cup {role})
    BY <1>3, <1>5, MoreMade
  <2>3. rolePath \in MadeOf(D \cup {role})
    BY ResourceIsMade
  <2> HIDE DEF rolePath, role
  <2>4. Possible(self, D \cup {role}, refer)
    BY <2>2, <2>3 DEF Possible, Refer
  <2> HIDE DEF refer
  <2>5. QED
    BY <2>1, <2>4, TwoFollow
<1> HIDE DEF role, refer
<1>6. Takes(self, B, When(logging, <<logs>>), C)
  BY <1>1, WhenTakes
<1> HIDE DEF C
<1>7. Takes(self, D, When(logging, <<role, refer>>), D)
  BY <1>5, WhenFollows, FollowsTakes
<1>8. Takes(self, B, When(logging, <<logs>>) \o <<trail>>, D)
  BY <1>2, <1>6, ThenTakes
<1>9. Takes(self, B, When(logging, <<logs>>) \o <<trail>> \o When(logging, <<role, refer>>), D)
  BY <1>7, <1>8, ThenTakes
<1>10. QED
  BY <1>4, <1>9, TakesStarts DEF B

LEMMA CloudtrailCloudwatchAlarmsStarts ==
  ASSUME NEW self, IsList(self), self # App, NEW ctx, NEW props
  PROVE  Starts(self, ctx, CloudtrailCloudwatchAlarms(self, ctx, props))
<1> DEFINE list == alarmDefinitions
           enabled == Given(props, "enabledAlarms", ToSet(alarmDefinitions))
           alarm(i) == When(list[i] \in enabled, AuditAlarm(self, ctx, list[i]))
           ss == [i \in DOMAIN list |-> alarm(i)]
<1>1. DOMAIN list = 1..14
  BY DEF alarmDefinitions
<1> HIDE DEF list, enabled
<1>2. ss = [i \in 1..14 |-> ss[i]]
  BY <1>1
<1>3. IsList(ss) /\ DOMAIN ss = 1..14
  BY <1>1, <1>2, FunctionIsList
<1>4. \A i \in DOMAIN ss : ss[i] = alarm(i)
  BY <1>1
<1>5. ASSUME NEW id PROVE Follows(self, Own(self), AuditAlarm(self, ctx, id))
  <2> DEFINE filter == New(self \o <<"Filter-" \o id>>, Resource("MetricFilter", << >>, {}))
             new == New(self \o <<"Alarm-" \o id>>, Resource("Alarm", Dashed(contextId(ctx), id), {}))
  <2>1. Possible(self, Own(self), filter) /\ Possible(self, Own(self) \cup {filter}, new)
    BY ChildPossible
  <2>2. AuditAlarm(self, ctx, id) = <<filter, new>>
    BY DEF AuditAlarm
  <2> HIDE DEF filter, new
  <2>3. QED
    BY <2>1, <2>2, TwoFollow
<1> HIDE DEF ss
<1>6. \A i \in DOMAIN ss : Follows(self, Own(self), ss[i])
  BY <1>4, <1>5, WhenFollows
<1>7. Follows(self, Own(self), FlattenSeq(ss))
  BY <1>3, <1>6, FlattenFollows
<1>8. CloudtrailCloudwatchAlarms(self, ctx, props) = Constructor(self, ctx, FlattenSeq(ss))
  BY DEF CloudtrailCloudwatchAlarms, ss, list, enabled
<1>9. QED
  BY <1>7, <1>8, ConstructorStarts

LEMMA CloudwatchFlowLogsStarts ==
  ASSUME NEW self, IsList(self), self # App, NEW ctx, NEW props
  PROVE  Starts(self, ctx, CloudwatchFlowLogs(self, ctx, props))
<1> DEFINE B == Own(self)
           logsPath == self \o <<"LogGroup">>
           rolePath == self \o <<"Role">>
           name == Dashed(Dashed(Dashed(contextId(ctx), "flow"), "logs"), "role")
           logs == New(logsPath, Resource("LogGroup", Under("/aws/vpc/flowlogs/", contextId(ctx)), {}))
           role == New(rolePath, Resource("Role", name, {}))
           flow == New(self \o <<"FlowLog">>, Resource("FlowLog", << >>, {logsPath, rolePath}))
<1>1. Possible(self, B, logs) /\ Possible(self, B \cup {logs}, role)
  BY ChildPossible
<1>2. Possible(self, B \cup {logs, role}, flow)
  <2>1. {logsPath, rolePath} \subseteq MadeOf(B \cup {logs, role})
    BY ResourceIsMade
  <2>2. QED
    BY <2>1, ChildPossible
<1>3. CloudwatchFlowLogs(self, ctx, props) = Constructor(self, ctx, <<logs, role, flow>>)
  BY DEF CloudwatchFlowLogs
<1> HIDE DEF B, logs, role, flow
<1>4. Follows(self, B, <<logs, role, flow>>)
  BY <1>1, <1>2, ThreeFollow
<1>5. QED
  BY <1>3, <1>4, ConstructorStarts DEF B

(* HttpApiGateway: its routes, its domain.                                 *)
LEMMA KeyedIsMade ==
  ASSUME NEW self, NEW prefix, NEW keys, IsList(keys), NEW k \in ToSet(keys),
         NEW n, n.type # "Construct"
  PROVE  self \o <<prefix \o k>> \in MadeOf(ToSet(Keyed(self, prefix, keys, n)))
<1>1. PICK i \in DOMAIN keys : k = keys[i]
  BY DEF ToSet
<1>2. New(self \o <<prefix \o keys[i]>>, n) \in ToSet(Keyed(self, prefix, keys, n))
  BY DEF Keyed, ToSet
<1>3. QED
  BY <1>1, <1>2, NewIsMade

LEMMA RoutesFollow ==
  ASSUME NEW root, NEW self, IsList(self), NEW B, Own(self) \subseteq B,
         self \o <<"Api">> \in MadeOf(B), NEW routes, IsList(routes), NEW integrations,
         \A k \in ToSet(integrations) : self \o <<"Integration-" \o k>> \in MadeOf(B)
  PROVE  Follows(root, B, Routes(self, routes, integrations))
<1> DEFINE route(i) == When(routes[i].integration \in ToSet(integrations), <<Route(self, routes[i])>>)
           ss == [i \in DOMAIN routes |-> route(i)]
<1>1. ASSUME NEW r, r.integration \in ToSet(integrations)
      PROVE  Follows(root, B, <<Route(self, r)>>)
  <2> DEFINE uses == {self \o <<"Api">>, self \o <<"Integration-" \o r.integration>>}
  <2>1. uses \subseteq MadeOf(B)
    BY <1>1
  <2> HIDE DEF uses
  <2>2. Route(self, r) = New(self \o <<"Route-" \o r.key>>, Resource("Route", << >>, uses))
    BY DEF Route, uses
  <2>3. Follows(root, B, <<New(self \o <<"Route-" \o r.key>>, Resource("Route", << >>, uses))>>)
    BY <2>1, ChildFollows
  <2>4. QED
    BY <2>2, <2>3
<1>2. DOMAIN routes = 1..Len(routes) /\ Len(routes) \in Nat
  BY DEF IsList
<1>3. ss = [i \in 1..Len(routes) |-> ss[i]]
  BY <1>2
<1>4. IsList(ss) /\ DOMAIN ss = 1..Len(routes)
  BY <1>2, <1>3, FunctionIsList
<1>5. \A i \in DOMAIN ss : ss[i] = route(i)
  BY <1>2
<1> HIDE DEF ss
<1>6. ASSUME NEW i \in DOMAIN ss PROVE Follows(root, B, ss[i])
  <2> DEFINE called == routes[i].integration \in ToSet(integrations)
  <2>1. called => Follows(root, B, <<Route(self, routes[i])>>)
    BY <1>1
  <2>2. ss[i] = When(called, <<Route(self, routes[i])>>)
    BY <1>5
  <2> HIDE DEF called
  <2>3. QED
    BY <2>1, <2>2, WhenFollows
<1>7. Follows(root, B, FlattenSeq(ss))
  BY <1>4, <1>6, FlattenFollows
<1>8. QED
  BY <1>7 DEF Routes, ss

LEMMA CustomDomainFollows ==
  ASSUME NEW root, NEW self, IsList(self), NEW B, Own(self) \subseteq B,
         self \o <<"Api">> \in MadeOf(B), self \o <<"DefaultStage">> \in MadeOf(B),
         NEW props, Listed(props, "route53ZoneIds")
  PROVE  Follows(root, B, CustomDomain(self, props))
<1> DEFINE path == self \o <<"Domain">>
           zones == Given(props, "route53ZoneIds", << >>)
           uses == {self \o <<"Api">>, self \o <<"DefaultStage">>, path}
           domain == New(path, Resource("DomainName", << >>, {}))
           mapping == New(self \o <<"Mapping">>, Resource("ApiMapping", << >>, uses))
           aliases == [i \in DOMAIN zones |-> New(self \o <<"DnsAlias" \o ToString(i)>>,
                                                 Resource("RecordSet", << >>, {path}))]
           C == B \cup {domain}
           D == C \cup {mapping}
<1>1. Takes(root, B, <<domain>>, C)
  BY ChildTakes
<1>2. path \in MadeOf(C) /\ path \in MadeOf(D) /\ B \subseteq C /\ B \subseteq D
  BY ResourceIsMade
<1>3. uses \subseteq MadeOf(C)
  <2> HIDE DEF C, path
  <2>1. MadeOf(B) \subseteq MadeOf(C)
    BY <1>2, MoreMade
  <2>2. QED
    BY <1>2, <2>1
<1>4. Takes(root, C, <<mapping>>, D)
  BY <1>2, <1>3, ChildTakes
<1>5. IsList(zones)
  BY DEF Listed, IsList
<1> HIDE DEF zones, C, D, domain, mapping, uses
<1>6. DOMAIN zones = 1..Len(zones) /\ Len(zones) \in Nat
  BY <1>5 DEF IsList
<1>7. \A i \in DOMAIN zones : Possible(root, D, aliases[i])
  BY <1>2, ChildPossible
<1>8. aliases = [i \in 1..Len(zones) |-> aliases[i]]
  BY <1>6
<1>9. CustomDomain(self, props) = <<domain, mapping>> \o aliases
  BY DEF CustomDomain, domain, mapping, zones, uses
<1> HIDE DEF aliases
<1>10. IsList(aliases) /\ DOMAIN aliases = DOMAIN zones
  BY <1>6, <1>8, FunctionIsList
<1>11. Takes(root, D, aliases, D)
  BY <1>7, <1>10, EachFollows, FollowsTakes
<1>12. Takes(root, B, <<domain, mapping>>, D)
  BY <1>1, <1>4, TwoTake
<1>13. QED
  BY <1>9, <1>11, <1>12, ThenTakes DEF Takes

LEMMA HttpApiGatewayStarts ==
  ASSUME NEW self, IsList(self), self # App, NEW ctx, NEW props,
         \A option \in {"stages", "vpcLinks", "integrations", "routes", "route53ZoneIds"} :
           Listed(props, option)
  PROVE  Starts(self, ctx, HttpApiGateway(self, ctx, props))
<1> DEFINE B == Own(self)
           apiPath == self \o <<"Api">>
           logsPath == self \o <<"AccessLogs">>
           body == Is(props, "openApiBody")
           logging == Given(props, "accessLoggingEnabled", TRUE)
           dns == Is(props, "dnsName") /\ Is(props, "acmCertificateArn")
           uses == {apiPath} \cup IF logging THEN {logsPath} ELSE {}
           node == Resource("Stage", << >>, uses)
           integration == Resource("Integration", << >>, {apiPath})
           integrations == Given(props, "integrations", << >>)
           routes == Given(props, "routes", << >>)
           logs == New(logsPath, Resource("LogGroup", Under("/aws/apigateway/", contextId(ctx)), {}))
           api == New(apiPath, Resource("Api", IF body THEN << >> ELSE contextId(ctx), {}))
           stage == New(self \o <<"DefaultStage">>, node)
           stages == Keyed(self, "Stage-", Given(props, "stages", << >>), node)
           links == Keyed(self, "VpcLink-", Given(props, "vpcLinks", << >>), Resource("VpcLink", << >>, {}))
           calls == Keyed(self, "Integration-", integrations, integration)
           routed == calls \o Routes(self, routes, integrations)
           C == IF logging THEN B \cup {logs} ELSE B
           D == C \cup {api}
           E == D \cup {stage}
<1>1. Takes(self, B, <<logs>>, B \cup {logs})
  BY ChildTakes
<1>2. Takes(self, C, <<api>>, D)
  BY ChildTakes
<1>3. uses \subseteq MadeOf(D) /\ uses \subseteq MadeOf(E) /\ B \subseteq D /\ B \subseteq E
  BY ResourceIsMade
<1>4. Takes(self, D, <<stage>>, E)
  BY <1>3, ChildTakes
<1>5. apiPath \in MadeOf(E) /\ self \o <<"DefaultStage">> \in MadeOf(E)
  BY ResourceIsMade
<1>6. self \in Made(E)
  BY <1>3, OwnIsMade, MoreMade
<1>7. /\ IsList(Given(props, "stages", << >>)) /\ IsList(Given(props, "vpcLinks", << >>))
      /\ IsList(integrations) /\ IsList(routes) /\ Listed(props, "route53ZoneIds")
  BY DEF Listed, IsList
<1>8. /\ Ready(E, node) /\ Ready(E, integration) /\ Ready(E, Resource("VpcLink", << >>, {}))
      /\ integration.type # "Construct"
  <2>1. Ready(E, node)
    BY <1>3, ResourceReady
  <2>2. Ready(E, integration) /\ integration.type # "Construct"
    <3>1. {apiPath} \subseteq MadeOf(E)
      BY <1>5
    <3> HIDE DEF E, apiPath
    <3>2. /\ Ready(E, Resource("Integration", << >>, {apiPath}))
          /\ Resource("Integration", << >>, {apiPath}).type = "Integration"
      BY <3>1, ResourceReady
    <3>3. QED
      BY <3>2
  <2>3. Ready(E, Resource("VpcLink", << >>, {}))
    BY ResourceReady
  <2>4. QED
    BY <2>1, <2>2, <2>3
<1>9. Follows(self, E, UntagApi(self, ctx))
  <2> DEFINE untag == RemoveTags(apiPath, DOMAIN contextTags(ctx))
  <2>1. api \in E /\ api.does = "new" /\ api.path = apiPath /\ api.node.type = "Api"
    BY DEF New, Resource
  <2> HIDE DEF E, api
  <2>2. Possible(self, E, untag)
    BY <2>1 DEF Possible, RemoveTags
  <2> HIDE DEF untag
  <2>3. Follows(self, E, <<untag>>)
    BY <2>2, OneFollows
  <2>4. QED
    BY <2>3 DEF UntagApi, untag
<1>10. HttpApiGateway(self, ctx, props)
        = Constructor(self, ctx,
            When(logging, <<logs>>) \o <<api, stage>> \o stages \o links \o When(~body, routed)
            \o When(dns, CustomDomain(self, props)) \o When(body, UntagApi(self, ctx)))
  BY DEF HttpApiGateway
<1> HIDE DEF B, D, E, logs, api, stage, node, integration, integrations, routes, logging, body, dns
<1>11. Takes(self, B, When(logging, <<logs>>), C)
  BY <1>1, WhenTakes
<1> HIDE DEF C
<1>12. Takes(self, C, <<api, stage>>, E)
  BY <1>2, <1>4, TwoTake
<1>13. Takes(self, E, stages, E) /\ Takes(self, E, links, E) /\ Follows(self, E, calls)
  BY <1>6, <1>7, <1>8, KeyedFollows, FollowsTakes
<1>14. Follows(self, E, routed)
  <2> DEFINE F == E \cup ToSet(calls)
  <2>1. \A k \in ToSet(integrations) : self \o <<"Integration-" \o k>> \in MadeOf(ToSet(calls))
    BY <1>7, <1>8, KeyedIsMade
  <2>2. E \subseteq F /\ ToSet(calls) \subseteq F
    OBVIOUS
  <2> HIDE DEF F, calls
  <2>3. MadeOf(E) \subseteq MadeOf(F) /\ MadeOf(ToSet(calls)) \subseteq MadeOf(F)
    BY <2>2, MoreMade
  <2>4. Own(self) \subseteq F /\ apiPath \in MadeOf(F)
    BY <1>3, <1>5, <2>2, <2>3 DEF B
  <2>5. Follows(self, F, Routes(self, routes, integrations))
    BY <1>7, <2>1, <2>3, <2>4, RoutesFollow
  <2>6. QED
    BY <1>13, <2>5, ThenFollows DEF F
<1>15. Follows(self, E, CustomDomain(self, props))
  BY <1>3, <1>5, <1>7, CustomDomainFollows DEF B
<1> HIDE DEF stages, links, routed
<1>16. /\ Takes(self, E, When(~body, routed), E) /\ Takes(self, E, When(dns, CustomDomain(self, props)), E)
       /\ Takes(self, E, When(body, UntagApi(self, ctx)), E)
  BY <1>9, <1>14, <1>15, WhenFollows, FollowsTakes
<1>17. Takes(self, B, When(logging, <<logs>>) \o <<api, stage>>, E)
  BY <1>11, <1>12, ThenTakes
<1>18. Takes(self, B, When(logging, <<logs>>) \o <<api, stage>> \o stages \o links, E)
  BY <1>13, <1>17, ThenTakes
<1>19. Takes(self, B, When(logging, <<logs>>) \o <<api, stage>> \o stages \o links
                      \o When(~body, routed) \o When(dns, CustomDomain(self, props)), E)
  BY <1>16, <1>18, ThenTakes
<1>20. Takes(self, B, When(logging, <<logs>>) \o <<api, stage>> \o stages \o links
                      \o When(~body, routed) \o When(dns, CustomDomain(self, props))
                      \o When(body, UntagApi(self, ctx)), E)
  BY <1>16, <1>19, ThenTakes
<1>21. QED
  BY <1>10, <1>20, TakesStarts DEF B

-----------------------------------------------------------------------------
(* What a constructor says of tags and of redrive policies.                *)

\* Resources of no type in K, and no tags but those of the context; where APIs may be,
\* every node is right below the construct.
Tame(self, ctx, K, e) ==
  \/ e.does \in {"throw", "refer", "redrive"}
  \/ e.does = "add" /\ e.tags = contextTags(ctx)
  \/ /\ e.does = "new" /\ e.node.type \notin K
     /\ "Api" \notin K => /\ Front(e.path) = self
                          /\ e.node.type = "Api" => e.path = self \o <<"Api">>

AllTame(self, ctx, K, ss) == IsList(ss) /\ \A e \in ToSet(ss) : Tame(self, ctx, K, e)

\* No class but HttpApiGateway makes an API, and only Sns makes subscriptions and a queue.
Most == {"Api", "Subscription"}

\* No tags are added but those of the context, only an API that has a body loses tags, and
\* nothing is below it; whoever makes resources tags itself, unless told not to; and an
\* API that has a body loses the tags of the context.
Tagging(self, ctx, props, ss) ==
  \A e \in ToSet(ss) :
    /\ e.does = "add" => e.tags = contextTags(ctx)
    /\ e.does = "remove" => /\ Is(props, "openApiBody")
                            /\ \A d \in ToSet(ss) : d.does = "new" => Front(d.path) # e.path
    /\ e.does = "new" /\ e.node.type # "Construct" /\ Given(props, "tagsEnabled", TRUE)
         => AddTags(self, contextTags(ctx)) \in ToSet(ss)
    /\ e.does = "new" /\ e.node.type = "Api" /\ Is(props, "openApiBody")
         => RemoveTags(e.path, DOMAIN contextTags(ctx)) \in ToSet(ss)

\* Whoever makes subscriptions and a queue ends with their redrive policy.
Target(self, props) == IF "redrivePolicy" \in DOMAIN props THEN External ELSE self \o <<"Dlq">>
Redriving(self, props, ss) ==
  \/ \A e \in ToSet(ss) : e.does = "new" => e.node.type # "Subscription"
  \/ \A e \in ToSet(ss) : e.does = "new" => e.node.type # "Queue"
  \/ RedriveEnds(self, Target(self, props), ss, Len(ss))

Marks(self, ctx, props, ss) == Tagging(self, ctx, props, ss) /\ Redriving(self, props, ss)

LEMMA TameThen ==
  ASSUME NEW self, NEW ctx, NEW K, NEW s, NEW t, AllTame(self, ctx, K, s), AllTame(self, ctx, K, t)
  PROVE  AllTame(self, ctx, K, s \o t)
<1>1. IsList(s \o t) /\ ToSet(s \o t) = ToSet(s) \cup ToSet(t)
  BY ListsJoin DEF AllTame
<1>2. QED
  BY <1>1 DEF AllTame

LEMMA TameNothing == ASSUME NEW self, NEW ctx, NEW K PROVE AllTame(self, ctx, K, << >>)
BY NothingFollows DEF AllTame, Follows

LEMMA TameWhen ==
  ASSUME NEW self, NEW ctx, NEW K, NEW c, NEW s, c => AllTame(self, ctx, K, s)
  PROVE  AllTame(self, ctx, K, When(c, s))
BY TameNothing DEF When

LEMMA TameOne ==
  ASSUME NEW self, NEW ctx, NEW K, NEW e, Tame(self, ctx, K, e)
  PROVE  AllTame(self, ctx, K, <<e>>)
<1>1. <<e>> \in Seq({e}) /\ ToSet(<<e>>) = {e}
  BY DEF ToSet
<1>2. QED
  BY <1>1, SequenceIsList DEF AllTame

LEMMA TameTwo ==
  ASSUME NEW self, NEW ctx, NEW K, NEW d, NEW e, Tame(self, ctx, K, d), Tame(self, ctx, K, e)
  PROVE  AllTame(self, ctx, K, <<d, e>>)
<1>1. <<d, e>> \in Seq({d, e}) /\ ToSet(<<d, e>>) = {d, e}
  BY DEF ToSet
<1>2. QED
  BY <1>1, SequenceIsList DEF AllTame

LEMMA TameThree ==
  ASSUME NEW self, NEW ctx, NEW K, NEW d, NEW e, NEW f,
         Tame(self, ctx, K, d), Tame(self, ctx, K, e), Tame(self, ctx, K, f)
  PROVE  AllTame(self, ctx, K, <<d, e, f>>)
<1>1. <<d, e, f>> \in Seq({d, e, f}) /\ ToSet(<<d, e, f>>) = {d, e, f}
  BY DEF ToSet
<1>2. QED
  BY <1>1, SequenceIsList DEF AllTame

LEMMA TameFive ==
  ASSUME NEW self, NEW ctx, NEW K, NEW a, NEW b, NEW d, NEW e, NEW f, Tame(self, ctx, K, a),
         Tame(self, ctx, K, b), Tame(self, ctx, K, d), Tame(self, ctx, K, e), Tame(self, ctx, K, f)
  PROVE  AllTame(self, ctx, K, <<a, b, d, e, f>>)
<1>1. <<a, b, d, e, f>> \in Seq({a, b, d, e, f}) /\ ToSet(<<a, b, d, e, f>>) = {a, b, d, e, f}
  BY DEF ToSet
<1>2. QED
  BY <1>1, SequenceIsList DEF AllTame

LEMMA TameNew ==
  ASSUME NEW self, NEW ctx, NEW K, "Api" \in K, NEW p, NEW type, type \notin K, NEW name, NEW refs
  PROVE  Tame(self, ctx, K, New(p, Resource(type, name, refs)))
BY DEF Tame, New, Resource

LEMMA TameConstruct ==
  ASSUME NEW self, NEW ctx, NEW K, "Api" \in K, "Construct" \notin K, NEW p
  PROVE  Tame(self, ctx, K, New(p, Construct))
BY DEF Tame, New, Resource, Construct

LEMMA TameThrow ==
  ASSUME NEW self, NEW ctx, NEW K
  PROVE  Tame(self, ctx, K, Throw) /\ AllTame(self, ctx, K, <<Throw>>)
<1>1. Tame(self, ctx, K, Throw)
  BY DEF Tame, Throw
<1>2. QED
  BY <1>1, TameOne

LEMMA TameParse ==
  ASSUME NEW self, NEW ctx, NEW K, NEW json
  PROVE  AllTame(self, ctx, K, Parse(json))
BY TameThrow, TameWhen DEF Parse

LEMMA TameRefer ==
  ASSUME NEW self, NEW ctx, NEW K, NEW p, NEW refs
  PROVE  Tame(self, ctx, K, Refer(p, refs))
BY DEF Tame, Refer

LEMMA TameAdd ==
  ASSUME NEW self, NEW ctx, NEW K, NEW p
  PROVE  Tame(self, ctx, K, AddTags(p, contextTags(ctx)))
BY DEF Tame, AddTags

\* Lists that are made one element, or one list, at a time.
LEMMA TameEach ==
  ASSUME NEW self, NEW ctx, NEW K, NEW n \in Nat, NEW s, s = [i \in 1..n |-> s[i]],
         \A i \in 1..n : Tame(self, ctx, K, s[i])
  PROVE  AllTame(self, ctx, K, s)
<1>1. IsList(s) /\ DOMAIN s = 1..n
  BY FunctionIsList
<1>2. QED
  BY <1>1 DEF AllTame, ToSet

LEMMA TameFlatten ==
  ASSUME NEW self, NEW ctx, NEW K, NEW ss, IsList(ss), \A i \in DOMAIN ss : AllTame(self, ctx, K, ss[i])
  PROVE  AllTame(self, ctx, K, FlattenSeq(ss))
<1>1. Len(ss) \in Nat /\ DOMAIN ss = 1..Len(ss)
  BY DEF IsList
<1>2. CASE Len(ss) = 0
  <2>1. ss = << >>
    BY <1>1, <1>2 DEF IsList
  <2>2. FlattenSeq(ss) = << >>
    BY <1>2, <2>1 DEF FlattenSeq
  <2>3. QED
    BY <2>2, TameNothing
<1>3. CASE Len(ss) # 0
  <2>1. PICK f : Flattens(f, ss, Len(ss)) /\ FlattenSeq(ss) = f[Len(ss)]
    BY <1>1, <1>3, FlattenIs
  <2> DEFINE n == Len(ss)
             Wrong == {k \in 1..n : ~ AllTame(self, ctx, K, f[k])}
  <2>2. Wrong = {}
    <3>1. SUFFICES ASSUME Wrong # {} PROVE FALSE
      OBVIOUS
    <3>2. Wrong \in SUBSET Nat
      BY <1>1
    <3> HIDE DEF Wrong
    <3>3. PICK k \in Wrong : k = 0 \/ k - 1 \notin Wrong
      BY <3>1, <3>2, First
    <3>4. k \in 1..n /\ ~ AllTame(self, ctx, K, f[k])
      BY DEF Wrong
    <3>5. f[k] = IF k = 1 THEN ss[k] ELSE f[k-1] \o ss[k]
      BY <2>1, <3>4 DEF Flattens
    <3>6. AllTame(self, ctx, K, ss[k])
      BY <1>1, <3>4
    <3>7. CASE k = 1
      BY <3>4, <3>5, <3>6, <3>7
    <3>8. CASE k # 1
      <4>1. k - 1 \in 1..n /\ k # 0
        BY <1>1, <3>4, <3>8
      <4>2. AllTame(self, ctx, K, f[k - 1])
        BY <3>3, <4>1 DEF Wrong
      <4>3. AllTame(self, ctx, K, f[k - 1] \o ss[k])
        BY <3>6, <4>2, TameThen
      <4>4. QED
        BY <3>4, <3>5, <3>8, <4>3
    <3>9. QED
      BY <3>7, <3>8
  <2>3. n \in 1..n
    BY <1>1, <1>3
  <2>4. QED
    BY <2>1, <2>2, <2>3
<1>4. QED
  BY <1>2, <1>3

LEMMA ConstructorHas ==
  ASSUME NEW self, NEW ctx, NEW body, IsList(body)
  PROVE  LET ss == Constructor(self, ctx, body)
             rest == ToSet(body) \cup {AddTags(self, contextTags(ctx))}
         IN  /\ isEnabled(ctx) => IsList(ss) /\ ToSet(ss) = Own(self) \cup rest
             /\ ~ isEnabled(ctx) => IsList(ss) /\ ToSet(ss) = Own(self)
<1> DEFINE first == <<New(self, Construct)>>
           tag == <<AddTags(self, contextTags(ctx))>>
<1>1. /\ IsList(first) /\ ToSet(first) = Own(self)
      /\ IsList(tag) /\ ToSet(tag) = {AddTags(self, contextTags(ctx))}
  <2>1. first \in Seq({New(self, Construct)}) /\ ToSet(first) = Own(self)
    BY DEF ToSet, Own
  <2>2. tag \in Seq({AddTags(self, contextTags(ctx))}) /\ ToSet(tag) = {AddTags(self, contextTags(ctx))}
    BY DEF ToSet
  <2>3. QED
    BY <2>1, <2>2, SequenceIsList
<1>2. Constructor(self, ctx, body) = first \o When(isEnabled(ctx), body \o tag)
  BY DEF Constructor
<1>3. first \o << >> = first
  OBVIOUS
<1> HIDE DEF first, tag
<1>4. IsList(body \o tag) /\ ToSet(body \o tag) = ToSet(body) \cup ToSet(tag)
  BY <1>1, ListsJoin
<1>5. IsList(first \o (body \o tag)) /\ ToSet(first \o (body \o tag)) = ToSet(first) \cup ToSet(body \o tag)
  BY <1>1, <1>4, ListsJoin
<1>6. CASE isEnabled(ctx)
  BY <1>1, <1>2, <1>4, <1>5, <1>6 DEF When
<1>7. CASE ~ isEnabled(ctx)
  BY <1>1, <1>2, <1>3, <1>7 DEF When
<1>8. QED
  BY <1>6, <1>7

\* Who makes its own node and nothing untamed marks.
LEMMA ConstructorTagging ==
  ASSUME NEW self, NEW ctx, NEW props, NEW K, "Api" \in K, NEW body, AllTame(self, ctx, K, body)
  PROVE  Tagging(self, ctx, props, Constructor(self, ctx, body))
<1> DEFINE ss == Constructor(self, ctx, body)
           tag == AddTags(self, contextTags(ctx))
<1>1. /\ isEnabled(ctx) => ToSet(ss) = Own(self) \cup (ToSet(body) \cup {tag})
      /\ ~ isEnabled(ctx) => ToSet(ss) = Own(self)
  BY ConstructorHas DEF AllTame
<1>2. tag.does = "add" /\ tag.tags = contextTags(ctx)
  BY DEF AddTags
<1>3. \A e \in Own(self) : e.does = "new" /\ e.node.type = "Construct"
  BY DEF Own, New, Construct, Resource
<1>4. \A e \in ToSet(body) :
        /\ e.does = "add" => e.tags = contextTags(ctx)
        /\ e.does # "remove"
        /\ e.does = "new" => e.node.type # "Api"
  BY DEF AllTame, Tame
<1> HIDE DEF ss, tag
<1>5. ASSUME NEW e \in ToSet(ss)
      PROVE  /\ e.does = "add" => e.tags = contextTags(ctx)
             /\ e.does # "remove"
             /\ e.does = "new" /\ e.node.type # "Construct" => tag \in ToSet(ss)
             /\ e.does = "new" => e.node.type # "Api"
  BY <1>1, <1>2, <1>3, <1>4
<1>6. QED
  BY <1>5 DEF Tagging, ss, tag

LEMMA NoPairRedriving ==
  ASSUME NEW self, NEW ctx, NEW props, NEW K, "Subscription" \in K \/ "Queue" \in K,
         NEW body, AllTame(self, ctx, K, body)
  PROVE  Redriving(self, props, Constructor(self, ctx, body))
<1> DEFINE ss == Constructor(self, ctx, body)
           tag == AddTags(self, contextTags(ctx))
<1>1. ToSet(ss) \subseteq Own(self) \cup (ToSet(body) \cup {tag})
  <2>1. /\ isEnabled(ctx) => ToSet(ss) = Own(self) \cup (ToSet(body) \cup {tag})
        /\ ~ isEnabled(ctx) => ToSet(ss) = Own(self)
    BY ConstructorHas DEF AllTame
  <2> HIDE DEF ss, tag
  <2>2. QED
    BY <2>1
<1>2. \A e \in ToSet(body) : e.does = "new" => e.node.type \notin K
  BY DEF AllTame, Tame
<1>3. tag.does = "add"
  BY DEF AddTags
<1>4. \A e \in Own(self) : e.node.type = "Construct"
  BY DEF Own, New, Construct, Resource
<1> HIDE DEF ss, tag
<1>5. CASE "Subscription" \in K
  <2>1. \A e \in ToSet(ss) : e.does = "new" => e.node.type # "Subscription"
    BY <1>1, <1>2, <1>3, <1>4, <1>5
  <2>2. QED
    BY <2>1 DEF Redriving, ss
<1>6. CASE "Queue" \in K
  <2>1. \A e \in ToSet(ss) : e.does = "new" => e.node.type # "Queue"
    BY <1>1, <1>2, <1>3, <1>4, <1>6
  <2>2. QED
    BY <2>1 DEF Redriving, ss
<1>7. QED
  BY <1>5, <1>6

LEMMA TameMarks ==
  ASSUME NEW self, NEW ctx, NEW props, NEW body, AllTame(self, ctx, Most, body)
  PROVE  Marks(self, ctx, props, Constructor(self, ctx, body))
BY ConstructorTagging, NoPairRedriving DEF Marks, Most

LEMMA MostTame ==
  ASSUME NEW self, NEW ctx, NEW p
  PROVE  /\ Tame(self, ctx, Most, New(p, Construct))
         /\ \A type, name, refs : type \notin Most => Tame(self, ctx, Most, New(p, Resource(type, name, refs)))
BY TameNew, TameConstruct DEF Most

LEMMA KmsKeyMarks ==
  ASSUME NEW self, NEW ctx, NEW props
  PROVE  Marks(self, ctx, props, KmsKey(self, ctx, props))
BY TameMarks, TameThen, TameParse, TameTwo, MostTame DEF KmsKey, Most

LEMMA TameNode ==
  ASSUME NEW self, NEW ctx, NEW K, "Api" \in K, NEW p, NEW n, n.type \notin K
  PROVE  Tame(self, ctx, K, New(p, n))
BY DEF Tame, New

LEMMA LambdaFunctionMarks ==
  ASSUME NEW self, NEW ctx, NEW props
  PROVE  Marks(self, ctx, props, LambdaFunction(self, ctx, props))
BY TameMarks, TameThen, TameWhen, TameParse, TameThrow, TameOne, MostTame DEF LambdaFunction, Most

LEMMA StepFunctionsMarks ==
  ASSUME NEW self, NEW ctx, NEW props
  PROVE  Marks(self, ctx, props, StepFunctions(self, ctx, props))
BY TameMarks, TameThen, TameWhen, TameParse, TameOne, MostTame DEF StepFunctions, Most

LEMMA SecretMarks ==
  ASSUME NEW self, NEW ctx, NEW props
  PROVE  Marks(self, ctx, props, Secret(self, ctx, props))
BY TameMarks, TameThen, TameWhen, TameOne, TameTwo, MostTame DEF Secret, Most

LEMMA S3WebsiteMarks ==
  ASSUME NEW self, NEW ctx, NEW props
  PROVE  Marks(self, ctx, props, S3Website(self, ctx, props))
BY TameMarks, TameThen, TameWhen, TameOne, TameTwo, MostTame DEF S3Website, Most

LEMMA S3BucketMarks ==
  ASSUME NEW self, NEW ctx, NEW props
  PROVE  Marks(self, ctx, props, S3Bucket(self, ctx, props))
BY TameMarks, TameThen, TameParse, TameOne, MostTame DEF S3Bucket, BucketBody, Most

LEMMA IamUserMarks ==
  ASSUME NEW self, NEW ctx, NEW props
  PROVE  Marks(self, ctx, props, IamUser(self, ctx, props))
BY TameMarks, TameOne, MostTame DEF IamUser, Most

LEMMA DynamodbMarks ==
  ASSUME NEW self, NEW ctx, NEW props
  PROVE  Marks(self, ctx, props, Dynamodb(self, ctx, props))
BY TameMarks, TameThen, TameWhen, TameThrow, TameOne, TameTwo, MostTame DEF Dynamodb, AddIndexes, Most

LEMMA RedshiftClusterMarks ==
  ASSUME NEW self, NEW ctx, NEW props
  PROVE  Marks(self, ctx, props, RedshiftCluster(self, ctx, props))
BY TameMarks, TameThree, MostTame DEF RedshiftCluster, Most

LEMMA AuroraDsqlMarks ==
  ASSUME NEW self, NEW ctx, NEW props
  PROVE  Marks(self, ctx, props, AuroraDsql(self, ctx, props))
BY TameMarks, TameOne, MostTame DEF AuroraDsql, Most

LEMMA EventbridgeMarks ==
  ASSUME NEW self, NEW ctx, NEW props
  PROVE  Marks(self, ctx, props, Eventbridge(self, ctx, props))
BY TameMarks, TameThen, TameWhen, TameParse, TameOne, MostTame DEF Eventbridge, Most

LEMMA EventbridgeRuleMarks ==
  ASSUME NEW self, NEW ctx, NEW props
  PROVE  Marks(self, ctx, props, EventbridgeRule(self, ctx, props))
BY TameMarks, TameThen, TameWhen, TameOne, TameTwo, TameRefer, MostTame DEF EventbridgeRule, Most

LEMMA CloudTrailMarks ==
  ASSUME NEW self, NEW ctx, NEW props
  PROVE  Marks(self, ctx, props, CloudTrail(self, ctx, props))
BY TameMarks, TameThen, TameWhen, TameOne, TameTwo, TameRefer, MostTame DEF CloudTrail, Most

LEMMA CloudwatchFlowLogsMarks ==
  ASSUME NEW self, NEW ctx, NEW props
  PROVE  Marks(self, ctx, props, CloudwatchFlowLogs(self, ctx, props))
BY TameMarks, TameThree, MostTame DEF CloudwatchFlowLogs, Most

LEMMA PipelineTame ==
  ASSUME NEW self, NEW ctx, NEW root, NEW name, NEW dlq, NEW key
  PROVE  /\ AllTame(self, ctx, Most, DlqAlarms(root, name, dlq, key))
         /\ AllTame(self, ctx, Most, DlqToTarget(root, name, dlq, key))
BY TameTwo, TameThree, MostTame DEF DlqAlarms, DlqToTarget, Most

LEMMA SfnErrorNotificationMarks ==
  ASSUME NEW self, NEW ctx, NEW props
  PROVE  Marks(self, ctx, props, SfnErrorNotification(self, ctx, props))
BY TameMarks, TameThen, TameOne, PipelineTame, MostTame DEF SfnErrorNotification, Most

LEMMA LambdaErrorNotificationMarks ==
  ASSUME NEW self, NEW ctx, NEW props
  PROVE  Marks(self, ctx, props, LambdaErrorNotification(self, ctx, props))
BY TameMarks, TameThen, TameOne, PipelineTame, MostTame DEF LambdaErrorNotification, Most

LEMMA SqsQueueMarks ==
  ASSUME NEW self, NEW ctx, NEW props
  PROVE  Marks(self, ctx, props, SqsQueue(self, ctx, props))
<1> DEFINE redrive == IF Is(props, "dlqEnabled") THEN {self \o <<"Dlq">>} ELSE {}
           queue == [Resource("Queue", queueName(ctx, props), {}) EXCEPT !.redrive = redrive]
<1>1. queue.type = "Queue"
  BY DEF Resource
<1>2. Tame(self, ctx, Most, New(self \o <<"Queue">>, queue))
  BY <1>1, TameNode DEF Most
<1>3. QED
  BY <1>2, TameMarks, TameThen, TameWhen, TameOne, MostTame DEF SqsQueue, Most

LEMMA TameConstructor ==
  ASSUME NEW self, NEW ctx, NEW p, NEW body, AllTame(self, ctx, Most, body)
  PROVE  AllTame(self, ctx, Most, Constructor(p, ctx, body))
BY TameThen, TameWhen, TameOne, TameAdd, MostTame DEF Constructor

LEMMA S3LogStorageMarks ==
  ASSUME NEW self, NEW ctx, NEW props
  PROVE  Marks(self, ctx, props, S3LogStorage(self, ctx, props))
BY TameMarks, TameThen, TameWhen, TameParse, TameOne, TameTwo, TameConstructor, MostTame DEF S3LogStorage, LogStorageBody, S3Bucket, BucketBody, Most

LEMMA SlackbotMarks ==
  ASSUME NEW self, NEW ctx, NEW props
  PROVE  Marks(self, ctx, props, Slackbot(self, ctx, props))
<1> DEFINE K == {"Api", "Queue"}
<1>1. \A p, type, name, refs : type \notin K => Tame(self, ctx, K, New(p, Resource(type, name, refs)))
  BY TameNew
<1>2. \A type \in {"Topic", "Role", "LogGroup", "Function", "Subscription"} : type \notin K
  OBVIOUS
<1>3. "Api" \in K /\ "Queue" \in K
  OBVIOUS
<1> HIDE DEF K
<1>4. QED
  BY <1>1, <1>2, <1>3, TameFive, ConstructorTagging, NoPairRedriving DEF Slackbot, Marks

\* Lists of a statement, or of statements, for each element of a list.
LEMMA TameEachOf ==
  ASSUME NEW self, NEW ctx, NEW K, NEW list, IsList(list), NEW s, s = [i \in DOMAIN list |-> s[i]],
         \A i \in DOMAIN list : AllTame(self, ctx, K, s[i])
  PROVE  AllTame(self, ctx, K, FlattenSeq(s))
<1>1. DOMAIN list = 1..Len(list) /\ Len(list) \in Nat
  BY DEF IsList
<1>2. s = [i \in 1..Len(list) |-> s[i]]
  BY <1>1
<1>3. IsList(s) /\ DOMAIN s = DOMAIN list
  BY <1>1, <1>2, FunctionIsList
<1>4. QED
  BY <1>3, TameFlatten

LEMMA ExpressSfnErrorNotificationMarks ==
  ASSUME NEW self, NEW ctx, NEW props, "stepFunctions" \in DOMAIN props, Listed(props, "stepFunctions")
  PROVE  Marks(self, ctx, props, ExpressSfnErrorNotification(self, ctx, props))
<1> DEFINE list == props.stepFunctions
           ss == [i \in DOMAIN list |-> ExpressMachine(self, ctx, list[i])]
<1>1. IsList(list)
  BY DEF Listed, IsList, Given
<1>2. \A entry : AllTame(self, ctx, Most, ExpressMachine(self, ctx, entry))
  BY TameThen, TameOne, PipelineTame, MostTame DEF ExpressMachine, Most
<1>3. \A i \in DOMAIN list : AllTame(self, ctx, Most, ss[i])
  BY <1>2
<1>4. ss = [i \in DOMAIN list |-> ss[i]]
  OBVIOUS
<1>5. ExpressSfnErrorNotification(self, ctx, props) = Constructor(self, ctx, FlattenSeq(ss))
  BY DEF ExpressSfnErrorNotification
<1> HIDE DEF list, ss
<1>6. AllTame(self, ctx, Most, FlattenSeq(ss))
  BY <1>1, <1>3, <1>4, TameEachOf
<1>7. QED
  BY <1>5, <1>6, TameMarks

LEMMA CloudwatchEventsMarks ==
  ASSUME NEW self, NEW ctx, NEW props, "rules" \in DOMAIN props, Listed(props, "rules")
  PROVE  Marks(self, ctx, props, CloudwatchEvents(self, ctx, props))
<1> DEFINE list == props.rules
           ss == [i \in DOMAIN list |-> EventsRule(self, ctx, list[i])]
<1>1. IsList(list)
  BY DEF Listed, IsList, Given
<1>2. \A rule : AllTame(self, ctx, Most, EventsRule(self, ctx, rule))
  BY TameThen, TameWhen, TameParse, TameThrow, TameOne, MostTame DEF EventsRule, Most
<1>3. \A i \in DOMAIN list : AllTame(self, ctx, Most, ss[i])
  BY <1>2
<1>4. ss = [i \in DOMAIN list |-> ss[i]]
  OBVIOUS
<1>5. CloudwatchEvents(self, ctx, props) = Constructor(self, ctx, FlattenSeq(ss))
  BY DEF CloudwatchEvents
<1> HIDE DEF list, ss
<1>6. AllTame(self, ctx, Most, FlattenSeq(ss))
  BY <1>1, <1>3, <1>4, TameEachOf
<1>7. QED
  BY <1>5, <1>6, TameMarks

LEMMA CloudtrailCloudwatchAlarmsMarks ==
  ASSUME NEW self, NEW ctx, NEW props
  PROVE  Marks(self, ctx, props, CloudtrailCloudwatchAlarms(self, ctx, props))
<1> DEFINE list == alarmDefinitions
           enabled == Given(props, "enabledAlarms", ToSet(alarmDefinitions))
           ss == [i \in 1..14 |-> When(list[i] \in enabled, AuditAlarm(self, ctx, list[i]))]
<1>1. DOMAIN list = 1..14
  BY DEF alarmDefinitions
<1>2. \A id : AllTame(self, ctx, Most, AuditAlarm(self, ctx, id))
  BY TameTwo, MostTame DEF AuditAlarm, Most
<1>3. \A c, id : AllTame(self, ctx, Most, When(c, AuditAlarm(self, ctx, id)))
  BY <1>2, TameWhen
<1>4. CloudtrailCloudwatchAlarms(self, ctx, props) = Constructor(self, ctx, FlattenSeq(ss))
  BY <1>1 DEF CloudtrailCloudwatchAlarms
<1> HIDE DEF enabled, list
<1>5. \A i \in 1..14 : AllTame(self, ctx, Most, ss[i])
  BY <1>3
<1>6. ss = [i \in 1..14 |-> ss[i]]
  OBVIOUS
<1> HIDE DEF ss
<1>7. IsList(ss) /\ DOMAIN ss = 1..14
  BY <1>6, FunctionIsList
<1>8. AllTame(self, ctx, Most, FlattenSeq(ss))
  BY <1>5, <1>7, TameFlatten
<1>9. QED
  BY <1>4, <1>8, TameMarks

LEMMA KinesisStreamMarks ==
  ASSUME NEW self, NEW ctx, NEW props, Given(props, "consumerCount", 0) \in Nat
  PROVE  Marks(self, ctx, props, KinesisStream(self, ctx, props))
<1> DEFINE stream == self \o <<"Stream">>
           n == Given(props, "consumerCount", 0)
           new == New(stream, Resource("Stream", contextId(ctx), {}))
           s == [i \in 1..n |-> New(self \o <<"Consumer" \o ToString(i - 1)>>,
                                    Resource("StreamConsumer", << >>, {stream}))]
<1>1. AllTame(self, ctx, Most, <<new>>) /\ \A i \in 1..n : Tame(self, ctx, Most, s[i])
  BY TameOne, MostTame DEF Most
<1>2. s = [i \in 1..n |-> s[i]]
  OBVIOUS
<1>3. KinesisStream(self, ctx, props) = Constructor(self, ctx, <<new>> \o s)
  BY DEF KinesisStream
<1> HIDE DEF s, n, new
<1>4. AllTame(self, ctx, Most, s)
  BY <1>1, <1>2, TameEach DEF n
<1>5. QED
  BY <1>1, <1>3, <1>4, TameThen, TameMarks

LEMMA SesMarks ==
  ASSUME NEW self, NEW ctx, NEW props
  PROVE  Marks(self, ctx, props, Ses(self, ctx, props))
<1>1. AllTame(self, ctx, Most, SesRecords(self, props))
  <2> DEFINE zone == Is(props, "zoneId") /\ Is(props, "zoneName")
             record == Resource("RecordSet", << >>, {self \o <<"Identity">>})
             first == New(self \o <<"VerificationRecord">>, record)
             rest == [i \in 1..3 |-> New(self \o <<"DkimRecord" \o ToString(i)>>, record)]
  <2>1. AllTame(self, ctx, Most, <<first>>) /\ \A i \in 1..3 : Tame(self, ctx, Most, rest[i])
    BY TameOne, MostTame DEF Most
  <2>2. rest = [i \in 1..3 |-> rest[i]]
    OBVIOUS
  <2>3. SesRecords(self, props) = When(Is(props, "verifyDomain") /\ zone, <<first>>)
                                  \o When(Is(props, "verifyDkim") /\ zone, rest)
    BY DEF SesRecords
  <2> HIDE DEF first, rest, zone
  <2>4. AllTame(self, ctx, Most, rest)
    BY <2>1, <2>2, TameEach
  <2>5. QED
    BY <2>1, <2>3, <2>4, TameWhen, TameThen
<1>2. AllTame(self, ctx, Most, SesUser(self, ctx, props))
  BY TameThen, TameWhen, TameParse, TameOne, MostTame DEF SesUser, Most
<1>3. QED
  BY <1>1, <1>2, TameMarks, TameThen, TameWhen, TameOne, MostTame DEF Ses, Most

\* Who makes nothing untamed marks if it tags itself whenever it makes a resource.
LEMMA TaggedMarks ==
  ASSUME NEW self, NEW ctx, NEW props, NEW ss, AllTame(self, ctx, Most, ss),
         \A e \in ToSet(ss) : e.does = "new" /\ e.node.type # "Construct" /\ Given(props, "tagsEnabled", TRUE)
           => AddTags(self, contextTags(ctx)) \in ToSet(ss)
  PROVE  Marks(self, ctx, props, ss)
<1>1. \A e \in ToSet(ss) : /\ e.does = "add" => e.tags = contextTags(ctx)
                           /\ e.does # "remove"
                           /\ e.does = "new" => e.node.type \notin Most
  BY DEF AllTame, Tame, Most
<1>2. Tagging(self, ctx, props, ss)
  BY <1>1 DEF Tagging, Most
<1>3. Redriving(self, props, ss)
  BY <1>1 DEF Redriving, Most
<1>4. QED
  BY <1>2, <1>3 DEF Marks

LEMMA ParseIsTame ==
  ASSUME NEW self, NEW ctx, NEW K, NEW json
  PROVE  IsList(Parse(json)) /\ AllTame(self, ctx, K, Parse(json))
BY TameParse DEF AllTame

LEMMA RoleBodyTame ==
  ASSUME NEW self, NEW ctx, NEW props, Listed(props, "inlinePolicies")
  PROVE  AllTame(self, ctx, Most, RoleBody(self, ctx, props))
<1> DEFINE list == Given(props, "inlinePolicies", << >>)
           ss == [i \in DOMAIN list |-> InlinePolicy(self, list[i])]
           inline == FlattenSeq(ss)
           role == self \o <<"Role">>
<1>1. IsList(list)
  BY DEF Listed, IsList
<1>2. \A policy : AllTame(self, ctx, Most, InlinePolicy(self, policy))
  BY TameThen, TameParse, TameOne, MostTame DEF InlinePolicy, Most
<1>3. ss = [i \in DOMAIN list |-> ss[i]] /\ \A i \in DOMAIN list : AllTame(self, ctx, Most, ss[i])
  BY <1>2
<1>4. RoleBody(self, ctx, props)
      = Parse(Given(props, "assumeRolePolicyDocumentOverride", "valid"))
        \o <<New(role, Resource("Role", roleName(ctx, props), {}))>>
        \o When("policyDocuments" \in DOMAIN props,
                Parse(props.policyDocuments)
                \o <<New(self \o <<"Policy">>,
                         Resource("Policy", Dashed(contextId(ctx), "policy"), {role}))>>)
        \o inline
        \o When(Is(props, "instanceProfileEnabled"),
                <<New(self \o <<"InstanceProfile">>,
                      Resource("InstanceProfile", contextId(ctx), {role}))>>)
  BY DEF RoleBody
<1> HIDE DEF list, ss
<1>5. AllTame(self, ctx, Most, inline)
  BY <1>1, <1>3, TameEachOf
<1> HIDE DEF inline
<1>6. QED
  BY <1>4, <1>5, TameThen, TameWhen, TameParse, TameOne, MostTame DEF Most

LEMMA IamRoleMarks ==
  ASSUME NEW self, NEW ctx, NEW props, Listed(props, "inlinePolicies")
  PROVE  Marks(self, ctx, props, IamRole(self, ctx, props))
<1> DEFINE tag == AddTags(self, contextTags(ctx))
           tags == When(Given(props, "tagsEnabled", TRUE), <<tag>>)
           body == RoleBody(self, ctx, props)
           first == <<New(self, Construct)>>
           rest == When(isEnabled(ctx), body \o tags)
<1>1. AllTame(self, ctx, Most, body)
  BY RoleBodyTame
<1>2. AllTame(self, ctx, Most, <<tag>>) /\ AllTame(self, ctx, Most, first)
  BY TameOne, TameAdd, MostTame
<1>3. AllTame(self, ctx, Most, tags)
  BY <1>2, TameWhen
<1>4. AllTame(self, ctx, Most, body \o tags)
  BY <1>1, <1>3, TameThen
<1>5. AllTame(self, ctx, Most, rest)
  BY <1>4, TameWhen
<1>6. IamRole(self, ctx, props) = first \o rest
  BY DEF IamRole
<1>7. tag \in ToSet(<<tag>>)
  BY DEF ToSet
<1>8. \A e \in ToSet(first) : e.does = "new" => e.node.type = "Construct"
  BY DEF ToSet, New, Construct, Resource
<1>9. Given(props, "tagsEnabled", TRUE) => tag \in ToSet(tags)
  BY <1>7 DEF When
<1> HIDE DEF tag, tags, body, first
<1>10. ToSet(body \o tags) = ToSet(body) \cup ToSet(tags)
  BY <1>1, <1>3, ListsJoin DEF AllTame
<1>11. Given(props, "tagsEnabled", TRUE) => rest = << >> \/ tag \in ToSet(rest)
  BY <1>9, <1>10 DEF When
<1> HIDE DEF rest
<1>12. ToSet(first \o rest) = ToSet(first) \cup ToSet(rest)
  BY <1>2, <1>5, ListsJoin DEF AllTame
<1>13. rest = << >> => ToSet(rest) = {}
  BY DEF ToSet
<1>14. \A e \in ToSet(first \o rest) :
         e.does = "new" /\ e.node.type # "Construct" /\ Given(props, "tagsEnabled", TRUE)
           => tag \in ToSet(first \o rest)
  BY <1>8, <1>11, <1>12, <1>13
<1>15. AllTame(self, ctx, Most, first \o rest)
  BY <1>2, <1>5, TameThen
<1>16. QED
  BY <1>6, <1>14, <1>15, TaggedMarks DEF tag

LEMMA IamPolicyMarks ==
  ASSUME NEW self, NEW ctx, NEW props
  PROVE  Marks(self, ctx, props, IamPolicy(self, ctx, props))
<1> DEFINE tag == AddTags(self, contextTags(ctx))
           policy == New(self \o <<"Policy">>, Resource("ManagedPolicy", contextId(ctx), {}))
           source == Parse(Given(props, "sourcePolicyDocuments", "valid"))
           override == Parse(Given(props, "overridePolicyDocuments", "valid"))
           made == isEnabled(ctx) /\ Is(props, "iamPolicyEnabled")
           both == <<policy, tag>>
           rest == When(made, both)
           first == <<New(self, Construct)>>
<1>1. /\ AllTame(self, ctx, Most, first) /\ AllTame(self, ctx, Most, both)
      /\ AllTame(self, ctx, Most, source) /\ AllTame(self, ctx, Most, override)
  BY TameOne, TameTwo, TameAdd, TameParse, MostTame DEF Most
<1>2. IamPolicy(self, ctx, props) = ((first \o source) \o override) \o rest
  BY DEF IamPolicy
<1>3. tag \in ToSet(both)
  <2>1. both[2] = tag /\ 2 \in DOMAIN both
    OBVIOUS
  <2> HIDE DEF both
  <2>2. QED
    BY <2>1 DEF ToSet
<1>4. \A e \in ToSet(first) : e.does = "new" => e.node.type = "Construct"
  BY DEF ToSet, New, Construct, Resource
<1>5. /\ \A e \in ToSet(source) : e.does # "new"
      /\ \A e \in ToSet(override) : e.does # "new"
  BY DEF ToSet, Parse, When, Throw
<1> HIDE DEF tag, policy, source, override, made, both, first
<1>6. AllTame(self, ctx, Most, rest) /\ (rest = << >> \/ tag \in ToSet(rest))
  BY <1>1, <1>3, TameWhen DEF When
<1> HIDE DEF rest
<1> DEFINE front == (first \o source) \o override
           ss == front \o rest
<1>7. ToSet(front) = (ToSet(first) \cup ToSet(source)) \cup ToSet(override) /\ AllTame(self, ctx, Most, front)
  <2>1. ToSet(first \o source) = ToSet(first) \cup ToSet(source) /\ AllTame(self, ctx, Most, first \o source)
    BY <1>1, ListsJoin, TameThen DEF AllTame
  <2>2. QED
    BY <1>1, <2>1, ListsJoin, TameThen DEF AllTame
<1> HIDE DEF front
<1>8. ToSet(ss) = ToSet(front) \cup ToSet(rest) /\ AllTame(self, ctx, Most, ss)
  BY <1>6, <1>7, ListsJoin, TameThen DEF AllTame
<1>9. rest = << >> => ToSet(rest) = {}
  BY DEF ToSet
<1> HIDE DEF ss
<1>10. \A e \in ToSet(ss) : e.does = "new" /\ e.node.type # "Construct" => tag \in ToSet(ss)
  BY <1>4, <1>5, <1>6, <1>7, <1>8, <1>9
<1>11. AllTame(self, ctx, Most, ss) /\ IamPolicy(self, ctx, props) = ss
  BY <1>2, <1>8 DEF ss, front
<1>12. QED
  BY <1>10, <1>11, TaggedMarks DEF tag

LEMMA SubscriptionTame ==
  ASSUME NEW self, NEW ctx, NEW K, "Api" \in K, {"Topic", "Subscription", "Construct"} \cap K = {},
         NEW i, NEW subscriber
  PROVE  AllTame(self, ctx, K, addSubscription(self, i, subscriber))
<1> DEFINE topic == self \o <<"Topic">>
           node == Resource("Subscription", << >>, {topic})
           imported == self \o << (IF subscriber.protocol = "sqs" THEN "SubQueue" ELSE "SubLambda")
                                  \o ToString(i) >>
           import == New(imported, Construct)
           sub == New(imported \o <<"Sub">>, node)
           direct == New(topic \o <<subscriber.endpoint>>, node)
<1>1. Tame(self, ctx, K, import) /\ Tame(self, ctx, K, sub) /\ Tame(self, ctx, K, direct)
  BY TameNew, TameConstruct
<1>2. \/ addSubscription(self, i, subscriber) = <<import, sub>>
      \/ addSubscription(self, i, subscriber) = <<direct>>
      \/ addSubscription(self, i, subscriber) = <<Throw>>
  <2>1. CASE subscriber.protocol \in {"sqs", "lambda"}
    BY <2>1 DEF addSubscription, Protocol
  <2>2. CASE subscriber.protocol \in Protocol \ {"sqs", "lambda"}
    BY <2>2 DEF addSubscription
  <2>3. CASE subscriber.protocol \notin Protocol
    BY <2>3 DEF addSubscription, Protocol
  <2>4. QED
    BY <2>1, <2>2, <2>3 DEF Protocol
<1> HIDE DEF import, sub, direct
<1>3. QED
  BY <1>1, <1>2, TameTwo, TameOne, TameThrow

LEMMA SnsTame ==
  ASSUME NEW self, NEW ctx, NEW K, "Api" \in K, {"Topic", "Subscription", "Construct"} \cap K = {},
         NEW props, Listed(props, "subscribers")
  PROVE  AllTame(self, ctx, K, SnsTopic(self, ctx, props) \o SnsSubscriptions(self, props))
<1> DEFINE list == Given(props, "subscribers", << >>)
           ss == [i \in DOMAIN list |-> addSubscription(self, i, list[i])]
<1>1. IsList(list)
  BY DEF Listed, IsList
<1>2. ss = [i \in DOMAIN list |-> ss[i]] /\ \A i \in DOMAIN list : AllTame(self, ctx, K, ss[i])
  BY SubscriptionTame
<1>3. SnsSubscriptions(self, props) = FlattenSeq(ss) \o Parse(Given(props, "deliveryPolicy", "valid"))
  BY DEF SnsSubscriptions
<1> HIDE DEF list, ss
<1>4. AllTame(self, ctx, K, FlattenSeq(ss))
  BY <1>1, <1>2, TameEachOf
<1>5. Tame(self, ctx, K, New(self \o <<"Topic">>, Resource("Topic", topicName(ctx, props), {})))
  BY TameNew
<1>6. AllTame(self, ctx, K, SnsTopic(self, ctx, props))
  BY <1>5, TameThen, TameOne, TameParse DEF SnsTopic
<1>7. QED
  BY <1>3, <1>4, <1>6, TameThen, TameParse

LEMMA SnsDlqTame ==
  ASSUME NEW self, NEW ctx, NEW props
  PROVE  AllTame(self, ctx, {"Api"}, SnsDlq(self, ctx, props))
<1> DEFINE K == {"Api"}
<1>1. \A p, name : Tame(self, ctx, K, New(p, Resource("Queue", name, {})))
  BY TameNew
<1>2. \A target : Tame(self, ctx, K, Redrive(self, target))
  BY DEF Tame, Redrive
<1> HIDE DEF K
<1>3. AllTame(self, ctx, K, SnsDlq(self, ctx, props))
  BY <1>1, <1>2, TameThen, TameWhen, TameOne, TameParse DEF SnsDlq
<1>4. QED
  BY <1>3 DEF K

\* The last elements of a list are those of the list put at its end.
LEMMA ListEnds ==
  ASSUME NEW s, NEW t, IsList(s), IsList(t)
  PROVE  /\ IsList(s \o t) /\ Len(s) \in Nat /\ Len(t) \in Nat /\ Len(s \o t) = Len(s) + Len(t)
         /\ \A i \in 1..Len(t) : (s \o t)[Len(s) + i] = t[i]
<1>1. PICK S : s \in Seq(S) /\ t \in Seq(S)
  BY ListsIn
<1>2. /\ s \o t \in Seq(S) /\ Len(s) \in Nat /\ Len(t) \in Nat /\ Len(s \o t) = Len(s) + Len(t)
      /\ \A i \in 1..Len(t) : (s \o t)[Len(s) + i] = t[i]
  BY <1>1
<1>3. IsList(s \o t)
  BY <1>2, SequenceIsList
<1>4. QED
  BY <1>2, <1>3

\* A list that ends with x is one longer than what is before it.
LEMMA ElementEnds ==
  ASSUME NEW s, IsList(s), NEW x
  PROVE  /\ IsList(s \o <<x>>) /\ Len(s) \in Nat /\ Len(s \o <<x>>) = Len(s) + 1
         /\ (s \o <<x>>)[Len(s) + 1] = x
<1>1. <<x>> \in Seq({x}) /\ Len(<<x>>) = 1 /\ <<x>>[1] = x
  OBVIOUS
<1>2. IsList(<<x>>)
  BY <1>1, SequenceIsList
<1> DEFINE t == <<x>>
<1> HIDE DEF t
<1>3. IsList(t) /\ Len(t) = 1 /\ t[1] = x
  BY <1>1, <1>2 DEF t
<1>4. /\ IsList(s \o t) /\ Len(s) \in Nat /\ Len(s \o t) = Len(s) + Len(t)
      /\ \A i \in 1..Len(t) : (s \o t)[Len(s) + i] = t[i]
  BY <1>3, ListEnds
<1>5. 1 \in 1..Len(t)
  BY <1>3
<1>6. IsList(s \o t) /\ Len(s) \in Nat /\ Len(s \o t) = Len(s) + 1 /\ (s \o t)[Len(s) + 1] = x
  BY <1>3, <1>4, <1>5
<1>7. QED
  BY <1>6 DEF t

LEMMA SnsRedrives ==
  ASSUME NEW self, NEW ctx, isEnabled(ctx), NEW props, Is(props, "sqsDlqEnabled"),
         NEW made, IsList(made)
  PROVE  LET ss == Constructor(self, ctx, made \o SnsDlq(self, ctx, props))
         IN  RedriveEnds(self, Target(self, props), ss, Len(ss))
<1> DEFINE path == self \o <<"Dlq">>
           target == Target(self, props)
           redrive == Redrive(self, target)
           tag == AddTags(self, contextTags(ctx))
           dlq == New(path, Resource("Queue", Fifo(contextId(Derived(ctx, "dlq")), Is(props, "sqsDlqFifo")), {}))
           front == <<dlq>> \o Parse(Given(props, "redrivePolicy", "valid"))
           first == <<New(self, Construct)>>
           body == made \o (front \o <<redrive>>)
           rest == body \o <<tag>>
           ss == first \o rest
<1>1. Constructor(self, ctx, made \o SnsDlq(self, ctx, props)) = ss
  BY DEF Constructor, SnsDlq, When, Target
<1>2. IsList(front)
  <2>1. <<dlq>> \in Seq({dlq})
    OBVIOUS
  <2> HIDE DEF dlq
  <2>2. IsList(<<dlq>>)
    BY <2>1, SequenceIsList
  <2>3. QED
    BY <2>2, ParseIsTame, ListsJoin
<1>3. IsList(first)
  <2>1. first \in Seq({New(self, Construct)})
    OBVIOUS
  <2>2. QED
    BY <2>1, SequenceIsList
<1>4. tag.does = "add"
  BY DEF AddTags
<1> DEFINE dlqs == front \o <<redrive>>
<1> HIDE DEF front, first, tag, target, redrive
<1>5. IsList(dlqs) /\ Len(front) \in Nat /\ Len(dlqs) = Len(front) + 1 /\ dlqs[Len(front) + 1] = redrive
  BY <1>2, ElementEnds
<1> HIDE DEF dlqs
<1>6. /\ IsList(body) /\ Len(made) \in Nat /\ Len(body) = Len(made) + Len(dlqs)
      /\ \A i \in 1..Len(dlqs) : body[Len(made) + i] = dlqs[i]
  BY <1>5, ListEnds DEF dlqs
<1>7. /\ Len(body) \in Nat /\ Len(body) \in 1..Len(body) /\ body[Len(body)] = redrive
  BY <1>5, <1>6
<1> HIDE DEF body
<1>8. IsList(rest) /\ Len(rest) = Len(body) + 1 /\ rest[Len(body) + 1] = tag
  BY <1>6, ElementEnds
<1>9. rest[Len(body)] = redrive
  <2>1. <<tag>> \in Seq({tag})
    OBVIOUS
  <2>2. IsList(<<tag>>)
    BY <2>1, SequenceIsList
  <2>3. PICK S : body \in Seq(S) /\ <<tag>> \in Seq(S)
    BY <1>6, <2>2, ListsIn
  <2>4. QED
    BY <1>7, <2>3
<1> HIDE DEF rest
<1>10. /\ Len(first) \in Nat /\ Len(ss) = Len(first) + Len(rest)
       /\ \A i \in 1..Len(rest) : ss[Len(first) + i] = rest[i]
  BY <1>3, <1>8, ListEnds
<1> HIDE DEF ss
<1> DEFINE n == Len(ss)
<1>11. n - 1 \in 1..n /\ n \in Nat /\ ss[n - 1] = redrive /\ ss[n] = tag
  <2>1. /\ n = Len(first) + (Len(body) + 1) /\ n - 1 = Len(first) + Len(body)
        /\ Len(body) \in 1..Len(rest) /\ Len(body) + 1 \in 1..Len(rest)
    BY <1>7, <1>8, <1>10
  <2>2. ss[Len(first) + Len(body)] = redrive /\ ss[Len(first) + (Len(body) + 1)] = tag
    BY <1>8, <1>9, <1>10, <2>1
  <2>3. QED
    BY <1>7, <1>10, <2>1, <2>2
<1>12. \A i \in 1..n : i > n - 1 => ss[i].does = "add"
  <2>1. \A i \in 1..n : i > n - 1 => i = n
    BY <1>11
  <2>2. QED
    BY <1>4, <1>11, <2>1
<1>13. RedriveEnds(self, target, ss, n)
  BY <1>11, <1>12 DEF RedriveEnds, redrive
<1>14. QED
  BY <1>1, <1>13 DEF target

LEMMA SnsMarks ==
  ASSUME NEW self, NEW ctx, NEW props, Listed(props, "subscribers")
  PROVE  Marks(self, ctx, props, Sns(self, ctx, props))
<1> DEFINE made == SnsTopic(self, ctx, props) \o SnsSubscriptions(self, props)
           dlq == SnsDlq(self, ctx, props)
<1>1. Sns(self, ctx, props) = Constructor(self, ctx, made \o dlq)
  BY DEF Sns
<1>2. AllTame(self, ctx, {"Api"}, made)
  <2>1. "Api" \in {"Api"} /\ {"Topic", "Subscription", "Construct"} \cap {"Api"} = {}
    OBVIOUS
  <2> HIDE DEF made
  <2>2. QED
    BY <2>1, SnsTame DEF made
<1>3. AllTame(self, ctx, {"Api", "Queue"}, made)
  <2>1. "Api" \in {"Api", "Queue"} /\ {"Topic", "Subscription", "Construct"} \cap {"Api", "Queue"} = {}
    OBVIOUS
  <2> HIDE DEF made
  <2>2. QED
    BY <2>1, SnsTame DEF made
<1>4. AllTame(self, ctx, {"Api"}, dlq)
  BY SnsDlqTame
<1>5. ~ Is(props, "sqsDlqEnabled") => AllTame(self, ctx, {"Api", "Queue"}, dlq)
  BY TameNothing DEF SnsDlq, When
<1>6. isEnabled(ctx) /\ Is(props, "sqsDlqEnabled") /\ IsList(made)
      => Redriving(self, props, Constructor(self, ctx, made \o dlq))
  <2> HIDE DEF made
  <2>1. QED
    BY SnsRedrives DEF Redriving
<1> HIDE DEF made, dlq
<1>7. Tagging(self, ctx, props, Constructor(self, ctx, made \o dlq))
  <2> DEFINE K == {"Api"}
  <2>1. AllTame(self, ctx, K, made \o dlq)
    BY <1>2, <1>4, TameThen
  <2>2. "Api" \in K
    OBVIOUS
  <2> HIDE DEF K
  <2>3. QED
    BY <2>1, <2>2, ConstructorTagging
<1>8. CASE ~ Is(props, "sqsDlqEnabled")
  <2> DEFINE K == {"Api", "Queue"}
  <2>1. AllTame(self, ctx, K, made \o dlq)
    BY <1>3, <1>5, <1>8, TameThen
  <2>2. "Queue" \in K
    OBVIOUS
  <2> HIDE DEF K
  <2>3. QED
    BY <1>1, <1>7, <2>1, <2>2, NoPairRedriving DEF Marks
<1>9. CASE ~ isEnabled(ctx)
  <2> DEFINE K == {"Api", "Queue"}
  <2>1. Constructor(self, ctx, made \o dlq) = Constructor(self, ctx, << >>)
    BY <1>9 DEF Constructor, When
  <2>2. "Queue" \in K
    OBVIOUS
  <2> HIDE DEF K
  <2>3. Redriving(self, props, Constructor(self, ctx, << >>))
    BY <2>2, TameNothing, NoPairRedriving
  <2>4. QED
    BY <1>1, <1>7, <2>1, <2>3 DEF Marks
<1>10. CASE isEnabled(ctx) /\ Is(props, "sqsDlqEnabled")
  BY <1>1, <1>2, <1>6, <1>7, <1>10 DEF Marks, AllTame
<1>11. QED
  BY <1>8, <1>9, <1>10

\* Where APIs may be, every node is made right below the construct.
LEMMA TameChild ==
  ASSUME NEW self, IsList(self), NEW ctx, NEW x, NEW n, n.type \notin {"Api", "Subscription"}
  PROVE  Tame(self, ctx, {"Subscription"}, New(self \o <<x>>, n))
<1>1. Front(self \o <<x>>) = self
  BY ChildPath
<1>2. QED
  BY <1>1 DEF Tame, New

LEMMA KeyedTame ==
  ASSUME NEW self, IsList(self), NEW ctx, NEW prefix, NEW keys, IsList(keys),
         NEW n, n.type \notin {"Api", "Subscription"}
  PROVE  AllTame(self, ctx, {"Subscription"}, Keyed(self, prefix, keys, n))
<1> DEFINE s == Keyed(self, prefix, keys, n)
<1>1. DOMAIN keys = 1..Len(keys) /\ Len(keys) \in Nat
  BY DEF IsList
<1>2. s = [i \in 1..Len(keys) |-> New(self \o <<prefix \o keys[i]>>, n)]
  BY <1>1 DEF Keyed
<1>3. \A i \in 1..Len(keys) : Tame(self, ctx, {"Subscription"}, New(self \o <<prefix \o keys[i]>>, n))
  BY TameChild
<1> HIDE DEF s
<1>4. s = [i \in 1..Len(keys) |-> s[i]] /\ \A i \in 1..Len(keys) : Tame(self, ctx, {"Subscription"}, s[i])
  BY <1>2, <1>3
<1>5. AllTame(self, ctx, {"Subscription"}, s)
  BY <1>1, <1>4, TameEach
<1>6. QED
  BY <1>5 DEF s

LEMMA RoutesTame ==
  ASSUME NEW self, IsList(self), NEW ctx, NEW routes, IsList(routes), NEW integrations
  PROVE  AllTame(self, ctx, {"Subscription"}, Routes(self, routes, integrations))
<1> DEFINE K == {"Subscription"}
           ss == [i \in DOMAIN routes |->
                    When(routes[i].integration \in ToSet(integrations), <<Route(self, routes[i])>>)]
<1>1. \A r : Tame(self, ctx, K, Route(self, r))
  <2>1. \A refs : Resource("Route", << >>, refs).type \notin {"Api", "Subscription"}
    BY DEF Resource
  <2>2. QED
    BY <2>1, TameChild DEF Route
<1>2. \A i \in DOMAIN routes : AllTame(self, ctx, K, ss[i])
  <2> HIDE DEF K
  <2>1. \A r, c : AllTame(self, ctx, K, When(c, <<Route(self, r)>>))
    BY <1>1, TameOne, TameWhen
  <2>2. QED
    BY <2>1
<1>3. ss = [i \in DOMAIN routes |-> ss[i]]
  OBVIOUS
<1>4. Routes(self, routes, integrations) = FlattenSeq(ss)
  BY DEF Routes
<1> HIDE DEF ss, K
<1>5. AllTame(self, ctx, K, FlattenSeq(ss))
  BY <1>2, <1>3, TameEachOf
<1>6. QED
  BY <1>4, <1>5 DEF K

LEMMA CustomDomainTame ==
  ASSUME NEW self, IsList(self), NEW ctx, NEW props, Listed(props, "route53ZoneIds")
  PROVE  AllTame(self, ctx, {"Subscription"}, CustomDomain(self, props))
<1> DEFINE K == {"Subscription"}
           path == self \o <<"Domain">>
           zones == Given(props, "route53ZoneIds", << >>)
           uses == {self \o <<"Api">>, self \o <<"DefaultStage">>, path}
           domain == New(path, Resource("DomainName", << >>, {}))
           mapping == New(self \o <<"Mapping">>, Resource("ApiMapping", << >>, uses))
           aliases == [i \in DOMAIN zones |-> New(self \o <<"DnsAlias" \o ToString(i)>>,
                                                 Resource("RecordSet", << >>, {path}))]
<1>1. \A x, type, refs : type \notin {"Api", "Subscription"}
        => Tame(self, ctx, K, New(self \o <<x>>, Resource(type, << >>, refs)))
  <2>1. \A type, refs : Resource(type, << >>, refs).type = type
    BY DEF Resource
  <2>2. QED
    BY <2>1, TameChild
<1>2. IsList(zones)
  BY DEF Listed, IsList
<1>3. Tame(self, ctx, K, domain) /\ Tame(self, ctx, K, mapping)
  BY <1>1
<1>4. \A i \in DOMAIN zones : Tame(self, ctx, K, aliases[i])
  BY <1>1
<1>5. CustomDomain(self, props) = <<domain, mapping>> \o aliases
  BY DEF CustomDomain
<1>6. DOMAIN zones = 1..Len(zones) /\ Len(zones) \in Nat
  BY <1>2 DEF IsList
<1>7. aliases = [i \in 1..Len(zones) |-> aliases[i]]
  BY <1>6
<1> HIDE DEF aliases, domain, mapping, zones, K
<1>8. AllTame(self, ctx, K, aliases)
  BY <1>4, <1>6, <1>7, TameEach
<1>9. QED
  BY <1>3, <1>5, <1>8, TameTwo, TameThen DEF K

\* What is made before the tags are taken off the API.
HttpFront(self, ctx, props) ==
  LET api     == self \o <<"Api">>
      logs    == self \o <<"AccessLogs">>
      body    == Is(props, "openApiBody")
      logging == Given(props, "accessLoggingEnabled", TRUE)
      stage   == Resource("Stage", << >>, {api} \cup IF logging THEN {logs} ELSE {})
      integrations == Given(props, "integrations", << >>)
  IN  When(logging, <<New(logs, Resource("LogGroup", Under("/aws/apigateway/", contextId(ctx)), {}))>>)
      \o << New(api, Resource("Api", IF body THEN << >> ELSE contextId(ctx), {})),
            New(self \o <<"DefaultStage">>, stage) >>
      \o Keyed(self, "Stage-", Given(props, "stages", << >>), stage)
      \o Keyed(self, "VpcLink-", Given(props, "vpcLinks", << >>), Resource("VpcLink", << >>, {}))
      \o When(~body,
              Keyed(self, "Integration-", integrations, Resource("Integration", << >>, {api}))
              \o Routes(self, Given(props, "routes", << >>), integrations))
      \o When(Is(props, "dnsName") /\ Is(props, "acmCertificateArn"), CustomDomain(self, props))

LEMMA HttpFrontTame ==
  ASSUME NEW self, IsList(self), NEW ctx, NEW props,
         \A option \in {"stages", "vpcLinks", "integrations", "routes", "route53ZoneIds"} :
           Listed(props, option)
  PROVE  AllTame(self, ctx, {"Subscription"}, HttpFront(self, ctx, props))
<1> DEFINE K == {"Subscription"}
           apiPath == self \o <<"Api">>
           logsPath == self \o <<"AccessLogs">>
           body == Is(props, "openApiBody")
           logging == Given(props, "accessLoggingEnabled", TRUE)
           dns == Is(props, "dnsName") /\ Is(props, "acmCertificateArn")
           uses == {apiPath} \cup IF logging THEN {logsPath} ELSE {}
           node == Resource("Stage", << >>, uses)
           integrations == Given(props, "integrations", << >>)
           routes == Given(props, "routes", << >>)
           logs == New(logsPath, Resource("LogGroup", Under("/aws/apigateway/", contextId(ctx)), {}))
           api == New(apiPath, Resource("Api", IF body THEN << >> ELSE contextId(ctx), {}))
           stage == New(self \o <<"DefaultStage">>, node)
           stages == Keyed(self, "Stage-", Given(props, "stages", << >>), node)
           links == Keyed(self, "VpcLink-", Given(props, "vpcLinks", << >>), Resource("VpcLink", << >>, {}))
           calls == Keyed(self, "Integration-", integrations, Resource("Integration", << >>, {apiPath}))
           routed == calls \o Routes(self, routes, integrations)
<1>1. \A name, refs : /\ Resource("Stage", name, refs).type \notin {"Api", "Subscription"}
                      /\ Resource("LogGroup", name, refs).type \notin {"Api", "Subscription"}
                      /\ Resource("VpcLink", name, refs).type \notin {"Api", "Subscription"}
                      /\ Resource("Integration", name, refs).type \notin {"Api", "Subscription"}
  BY DEF Resource
<1>2. /\ IsList(Given(props, "stages", << >>)) /\ IsList(Given(props, "vpcLinks", << >>))
      /\ IsList(integrations) /\ IsList(routes) /\ Listed(props, "route53ZoneIds")
  BY DEF Listed, IsList
<1>3. Tame(self, ctx, K, api)
  <2>1. Front(self \o <<"Api">>) = self
    BY ChildPath
  <2>2. QED
    BY <2>1 DEF Tame, New, Resource
<1>4. Tame(self, ctx, K, logs) /\ Tame(self, ctx, K, stage)
  BY <1>1, TameChild
<1>5. /\ AllTame(self, ctx, K, stages) /\ AllTame(self, ctx, K, links) /\ AllTame(self, ctx, K, calls)
      /\ AllTame(self, ctx, K, Routes(self, routes, integrations))
      /\ AllTame(self, ctx, K, CustomDomain(self, props))
  BY <1>1, <1>2, KeyedTame, RoutesTame, CustomDomainTame
<1>6. HttpFront(self, ctx, props)
      = When(logging, <<logs>>) \o <<api, stage>> \o stages \o links \o When(~body, routed)
        \o When(dns, CustomDomain(self, props))
  BY DEF HttpFront
<1> HIDE DEF logs, api, stage, stages, links, calls, K, logging, body, dns, integrations, routes
<1>7. QED
  BY <1>3, <1>4, <1>5, <1>6, TameThen, TameWhen, TameOne, TameTwo DEF K

LEMMA HttpApiGatewayMarks ==
  ASSUME NEW self, IsList(self), self # App, NEW ctx, NEW props,
         \A option \in {"stages", "vpcLinks", "integrations", "routes", "route53ZoneIds"} :
           Listed(props, option)
  PROVE  Marks(self, ctx, props, HttpApiGateway(self, ctx, props))
<1> DEFINE front == HttpFront(self, ctx, props)
           body == Is(props, "openApiBody")
           api == self \o <<"Api">>
           untag == RemoveTags(api, DOMAIN contextTags(ctx))
           tag == AddTags(self, contextTags(ctx))
           rest == front \o When(body, <<untag>>)
           ss == Constructor(self, ctx, rest)
<1>1. HttpApiGateway(self, ctx, props) = ss
  BY DEF HttpApiGateway, HttpFront, UntagApi
<1>2. AllTame(self, ctx, {"Subscription"}, front)
  BY HttpFrontTame
<1>3. \A e \in ToSet(front) :
        /\ e.does = "add" => e.tags = contextTags(ctx)
        /\ e.does # "remove"
        /\ e.does = "new" => /\ Front(e.path) = self /\ e.node.type # "Subscription"
                             /\ e.node.type = "Api" => e.path = api
  BY <1>2 DEF AllTame, Tame
<1>4. IsList(front)
  BY <1>2 DEF AllTame
<1> HIDE DEF front
<1>5. IsList(When(body, <<untag>>)) /\ ToSet(When(body, <<untag>>)) = IF body THEN {untag} ELSE {}
  <2>1. <<untag>> \in Seq({untag}) /\ ToSet(<<untag>>) = {untag}
    BY DEF ToSet
  <2> HIDE DEF untag
  <2>2. IsList(<<untag>>)
    BY <2>1, SequenceIsList
  <2>3. << >> \in Seq({}) /\ ToSet(<< >>) = {}
    BY DEF ToSet
  <2>4. IsList(<< >>)
    BY <2>3, SequenceIsList
  <2>5. QED
    BY <2>1, <2>2, <2>3, <2>4 DEF When
<1>6. /\ untag.does = "remove" /\ untag.path = api /\ untag = RemoveTags(api, DOMAIN contextTags(ctx))
      /\ tag.does = "add" /\ tag.tags = contextTags(ctx) /\ tag = AddTags(self, contextTags(ctx))
  BY DEF RemoveTags, AddTags
<1>7. self # api /\ Front(self) # api
  <2>1. Len(api) = Len(self) + 1 /\ Len(self) \in Nat /\ IsList(api)
    BY ChildPath
  <2>2. IsPrefix(self, self)
    <3>1. PICK S : self \in Seq(S)
      BY DEF IsList
    <3>2. QED
      BY <3>1, PrefixElements
  <2>3. Len(Front(self)) = Len(self) - 1
    BY <2>2, AboveParent
  <2>4. QED
    BY <2>1, <2>3
<1> HIDE DEF untag, tag, api, body
<1>8. IsList(rest) /\ ToSet(rest) = ToSet(front) \cup IF body THEN {untag} ELSE {}
  BY <1>4, <1>5, ListsJoin
<1> HIDE DEF rest
<1>9. /\ isEnabled(ctx) => ToSet(ss) = Own(self) \cup (ToSet(rest) \cup {tag})
      /\ ~ isEnabled(ctx) => ToSet(ss) = Own(self)
  BY <1>8, ConstructorHas DEF tag
<1>10. \A e \in Own(self) : e.does = "new" /\ e.path = self /\ e.node.type = "Construct"
  BY DEF Own, New, Construct, Resource
<1> HIDE DEF ss
<1>11. ASSUME NEW e \in ToSet(ss)
       PROVE  /\ e.does = "add" => e.tags = contextTags(ctx)
              /\ e.does = "remove" => body /\ e = untag
              /\ e.does = "new" => Front(e.path) # api /\ e.node.type # "Subscription"
              /\ e.does = "new" /\ e.node.type # "Construct" => tag \in ToSet(ss)
              /\ e.does = "new" /\ e.node.type = "Api" /\ body => e.path = api /\ untag \in ToSet(ss)
  BY <1>3, <1>6, <1>7, <1>8, <1>9, <1>10
<1>12. Tagging(self, ctx, props, ss)
  BY <1>6, <1>11 DEF Tagging, body
<1>13. Redriving(self, props, ss)
  BY <1>11 DEF Redriving
<1>14. QED
  BY <1>1, <1>12, <1>13 DEF Marks

-----------------------------------------------------------------------------
(* What a constructor makes that is enabled.                               *)

\* Some statement makes a resource.
Bears(e)     == e.does = "new" /\ e.node.type # "Construct"
Fruitful(ss) == IsList(ss) /\ \E e \in ToSet(ss) : Bears(e)

LEMMA ListThen == ASSUME NEW s, NEW t, IsList(s), IsList(t) PROVE IsList(s \o t)
BY ListsJoin

LEMMA ListOne == ASSUME NEW e PROVE IsList(<<e>>)
<1>1. <<e>> \in Seq({e})
  OBVIOUS
<1>2. QED
  BY <1>1, SequenceIsList

LEMMA ListTwo == ASSUME NEW d, NEW e PROVE IsList(<<d, e>>)
<1>1. <<d, e>> \in Seq({d, e})
  OBVIOUS
<1>2. QED
  BY <1>1, SequenceIsList

LEMMA ListWhen ==
  ASSUME NEW c, NEW s, c => IsList(s)
  PROVE  IsList(When(c, s))
BY NothingFollows, FollowsIsList DEF When

LEMMA ListParse == ASSUME NEW json PROVE IsList(Parse(json))
BY ListOne, ListWhen DEF Parse

LEMMA FruitfulFirst ==
  ASSUME NEW s, NEW t, Fruitful(s), IsList(t)
  PROVE  Fruitful(s \o t)
BY ListsJoin DEF Fruitful

LEMMA FruitfulThen ==
  ASSUME NEW s, NEW t, IsList(s), Fruitful(t)
  PROVE  Fruitful(s \o t)
BY ListsJoin DEF Fruitful

LEMMA FruitfulWhen ==
  ASSUME NEW c, c, NEW s, Fruitful(s)
  PROVE  Fruitful(When(c, s))
BY DEF When

LEMMA FruitfulOne ==
  ASSUME NEW e, Bears(e)
  PROVE  Fruitful(<<e>>)
<1>1. <<e>> \in Seq({e}) /\ ToSet(<<e>>) = {e}
  BY DEF ToSet
<1>2. QED
  BY <1>1, ListOne DEF Fruitful

LEMMA FruitfulTwo ==
  ASSUME NEW d, NEW e, Bears(d)
  PROVE  Fruitful(<<d, e>>)
<1>1. <<d, e>> \in Seq({d, e}) /\ ToSet(<<d, e>>) = {d, e}
  BY DEF ToSet
<1>2. QED
  BY <1>1, SequenceIsList DEF Fruitful

LEMMA FruitfulThree ==
  ASSUME NEW d, NEW e, NEW f, Bears(d)
  PROVE  Fruitful(<<d, e, f>>)
<1>1. <<d, e, f>> \in Seq({d, e, f}) /\ ToSet(<<d, e, f>>) = {d, e, f}
  BY DEF ToSet
<1>2. QED
  BY <1>1, SequenceIsList DEF Fruitful

LEMMA FruitfulFive ==
  ASSUME NEW a, NEW b, NEW d, NEW e, NEW f, Bears(a)
  PROVE  Fruitful(<<a, b, d, e, f>>)
<1>1. <<a, b, d, e, f>> \in Seq({a, b, d, e, f}) /\ ToSet(<<a, b, d, e, f>>) = {a, b, d, e, f}
  BY DEF ToSet
<1>2. QED
  BY <1>1, SequenceIsList DEF Fruitful

LEMMA NewBears ==
  ASSUME NEW p, NEW type, type # "Construct", NEW name, NEW refs
  PROVE  Bears(New(p, Resource(type, name, refs)))
BY DEF Bears, New, Resource

LEMMA ConstructorFruitful ==
  ASSUME NEW self, NEW ctx, isEnabled(ctx), NEW body, Fruitful(body)
  PROVE  Fruitful(Constructor(self, ctx, body))
BY ListOne, FruitfulThen, FruitfulFirst, FruitfulWhen DEF Constructor

LEMMA FlattenFruitful ==
  ASSUME NEW ss, IsList(ss), \A i \in DOMAIN ss : IsList(ss[i]),
         NEW k \in DOMAIN ss, Fruitful(ss[k])
  PROVE  Fruitful(FlattenSeq(ss))
<1>1. Len(ss) \in Nat /\ DOMAIN ss = 1..Len(ss)
  BY DEF IsList
<1>2. PICK f : Flattens(f, ss, Len(ss)) /\ FlattenSeq(ss) = f[Len(ss)]
  BY <1>1, FlattenIs
<1> DEFINE Good(j) == IsList(f[j]) /\ (k <= j => Fruitful(f[j]))
           Wrong == {j \in 1..Len(ss) : ~ Good(j)}
<1>3. Wrong = {}
  <2>1. SUFFICES ASSUME Wrong # {} PROVE FALSE
    OBVIOUS
  <2>2. Wrong \in SUBSET Nat
    BY <1>1
  <2> HIDE DEF Wrong
  <2>3. PICK j \in Wrong : j = 0 \/ j - 1 \notin Wrong
    BY <2>1, <2>2, First
  <2>4. j \in 1..Len(ss) /\ ~ Good(j)
    BY DEF Wrong
  <2>5. f[j] = IF j = 1 THEN ss[j] ELSE f[j-1] \o ss[j]
    BY <1>2, <2>4 DEF Flattens
  <2>6. IsList(ss[j]) /\ (j = k => Fruitful(ss[j]))
    BY <1>1, <2>4
  <2>7. CASE j = 1
    <3>1. k <= j => k = j
      BY <1>1, <2>7
    <3>2. QED
      BY <2>4, <2>5, <2>6, <2>7, <3>1
  <2>8. CASE j # 1
    <3>1. j - 1 \in 1..Len(ss) /\ j # 0
      BY <1>1, <2>4, <2>8
    <3>2. Good(j - 1)
      BY <2>3, <3>1 DEF Wrong
    <3>3. k <= j => k = j \/ k <= j - 1
      BY <1>1, <2>4
    <3>4. f[j] = f[j-1] \o ss[j]
      BY <2>5, <2>8
    <3>5. IsList(f[j])
      BY <2>6, <3>2, <3>4, ListThen
    <3>6. k <= j => Fruitful(f[j])
      BY <2>6, <3>2, <3>3, <3>4, FruitfulFirst, FruitfulThen
    <3>7. QED
      BY <2>4, <3>5, <3>6
  <2>9. QED
    BY <2>7, <2>8
<1>4. Len(ss) \in 1..Len(ss) /\ k <= Len(ss)
  BY <1>1
<1>5. QED
  BY <1>2, <1>3, <1>4

\* Of a list with one list for each element of another, one list suffices.
LEMMA FruitfulEachOf ==
  ASSUME NEW list, IsList(list), list # << >>, NEW s, s = [i \in DOMAIN list |-> s[i]],
         \A i \in DOMAIN list : Fruitful(s[i])
  PROVE  Fruitful(FlattenSeq(s))
<1>1. DOMAIN list = 1..Len(list) /\ Len(list) \in Nat /\ Len(list) # 0
  BY DEF IsList
<1>2. s = [i \in 1..Len(list) |-> s[i]]
  BY <1>1
<1>3. IsList(s) /\ DOMAIN s = DOMAIN list /\ 1 \in DOMAIN s
  BY <1>1, <1>2, FunctionIsList
<1>4. QED
  BY <1>3, FlattenFruitful DEF Fruitful

LEMMA KmsKeyFruitful ==
  ASSUME NEW self, NEW ctx, isEnabled(ctx), NEW props
  PROVE  Fruitful(KmsKey(self, ctx, props))
BY NewBears, ConstructorFruitful, FruitfulThen, FruitfulTwo, ListParse DEF KmsKey

LEMMA LambdaFunctionFruitful ==
  ASSUME NEW self, NEW ctx, isEnabled(ctx), NEW props
  PROVE  Fruitful(LambdaFunction(self, ctx, props))
BY NewBears, ConstructorFruitful, FruitfulFirst, FruitfulOne, ListThen, ListWhen, ListOne, ListParse DEF LambdaFunction

LEMMA StepFunctionsFruitful ==
  ASSUME NEW self, NEW ctx, isEnabled(ctx), NEW props
  PROVE  Fruitful(StepFunctions(self, ctx, props))
BY NewBears, ConstructorFruitful, FruitfulThen, FruitfulOne, ListThen, ListWhen, ListOne, ListParse DEF StepFunctions

LEMMA SlackbotFruitful ==
  ASSUME NEW self, NEW ctx, isEnabled(ctx), NEW props
  PROVE  Fruitful(Slackbot(self, ctx, props))
BY NewBears, ConstructorFruitful, FruitfulFive DEF Slackbot

LEMMA S3BucketFruitful ==
  ASSUME NEW self, NEW ctx, isEnabled(ctx), NEW props
  PROVE  Fruitful(S3Bucket(self, ctx, props))
BY NewBears, ConstructorFruitful, FruitfulFirst, FruitfulOne, ListParse DEF S3Bucket, BucketBody

LEMMA SecretFruitful ==
  ASSUME NEW self, NEW ctx, isEnabled(ctx), NEW props
  PROVE  Fruitful(Secret(self, ctx, props))
BY NewBears, ConstructorFruitful, FruitfulFirst, FruitfulThen, FruitfulOne, ListWhen, ListOne, ListTwo DEF Secret

LEMMA S3WebsiteFruitful ==
  ASSUME NEW self, NEW ctx, isEnabled(ctx), NEW props
  PROVE  Fruitful(S3Website(self, ctx, props))
BY NewBears, ConstructorFruitful, FruitfulFirst, FruitfulTwo, ListWhen, ListOne DEF S3Website

LEMMA IamUserFruitful ==
  ASSUME NEW self, NEW ctx, isEnabled(ctx), NEW props
  PROVE  Fruitful(IamUser(self, ctx, props))
BY NewBears, ConstructorFruitful, FruitfulOne DEF IamUser

LEMMA DynamodbFruitful ==
  ASSUME NEW self, NEW ctx, isEnabled(ctx), NEW props
  PROVE  Fruitful(Dynamodb(self, ctx, props))
BY NewBears, ConstructorFruitful, FruitfulFirst, FruitfulOne, ListWhen, ListOne, ListTwo DEF Dynamodb, AddIndexes

LEMMA RedshiftClusterFruitful ==
  ASSUME NEW self, NEW ctx, isEnabled(ctx), NEW props
  PROVE  Fruitful(RedshiftCluster(self, ctx, props))
BY NewBears, ConstructorFruitful, FruitfulThree DEF RedshiftCluster

LEMMA AuroraDsqlFruitful ==
  ASSUME NEW self, NEW ctx, isEnabled(ctx), NEW props
  PROVE  Fruitful(AuroraDsql(self, ctx, props))
BY NewBears, ConstructorFruitful, FruitfulOne DEF AuroraDsql

LEMMA EventbridgeFruitful ==
  ASSUME NEW self, NEW ctx, isEnabled(ctx), NEW props
  PROVE  Fruitful(Eventbridge(self, ctx, props))
BY NewBears, ConstructorFruitful, FruitfulFirst, FruitfulOne, ListThen, ListWhen, ListOne, ListParse DEF Eventbridge

LEMMA EventbridgeRuleFruitful ==
  ASSUME NEW self, NEW ctx, isEnabled(ctx), NEW props
  PROVE  Fruitful(EventbridgeRule(self, ctx, props))
BY NewBears, ConstructorFruitful, FruitfulFirst, FruitfulOne, ListWhen, ListTwo DEF EventbridgeRule

LEMMA CloudTrailFruitful ==
  ASSUME NEW self, NEW ctx, isEnabled(ctx), NEW props
  PROVE  Fruitful(CloudTrail(self, ctx, props))
BY NewBears, ConstructorFruitful, FruitfulFirst, FruitfulThen, FruitfulOne, ListWhen, ListOne, ListTwo DEF CloudTrail

LEMMA CloudwatchFlowLogsFruitful ==
  ASSUME NEW self, NEW ctx, isEnabled(ctx), NEW props
  PROVE  Fruitful(CloudwatchFlowLogs(self, ctx, props))
BY NewBears, ConstructorFruitful, FruitfulThree DEF CloudwatchFlowLogs

LEMMA SqsQueueFruitful ==
  ASSUME NEW self, NEW ctx, isEnabled(ctx), NEW props
  PROVE  Fruitful(SqsQueue(self, ctx, props))
<1> DEFINE redrive == IF Is(props, "dlqEnabled") THEN {self \o <<"Dlq">>} ELSE {}
           queue == [Resource("Queue", queueName(ctx, props), {}) EXCEPT !.redrive = redrive]
<1>1. Bears(New(self \o <<"Queue">>, queue))
  BY DEF Bears, New, Resource
<1>2. QED
  BY <1>1, ConstructorFruitful, FruitfulThen, FruitfulOne, ListWhen, ListOne DEF SqsQueue

LEMMA S3LogStorageFruitful ==
  ASSUME NEW self, NEW ctx, isEnabled(ctx), NEW props
  PROVE  Fruitful(S3LogStorage(self, ctx, props))
BY S3BucketFruitful, ConstructorFruitful, FruitfulFirst, ListWhen, ListTwo DEF S3LogStorage, LogStorageBody

LEMMA SnsFruitful ==
  ASSUME NEW self, NEW ctx, isEnabled(ctx), NEW props,
         Listed(props, "subscribers")
  PROVE  Fruitful(Sns(self, ctx, props))
<1> DEFINE subs == SnsSubscriptions(self, props)
<1>1. IsList(SnsTopic(self, ctx, props) \o subs) /\ Fruitful(SnsTopic(self, ctx, props) \o subs)
  <2>1. Fruitful(SnsTopic(self, ctx, props))
    BY NewBears, FruitfulFirst, FruitfulOne, ListParse DEF SnsTopic
  <2>2. IsList(subs)
    <3> DEFINE list == Given(props, "subscribers", << >>)
               ss == [i \in DOMAIN list |-> addSubscription(self, i, list[i])]
    <3>1. IsList(list)
      BY DEF Listed, IsList
    <3>2. ss = [i \in DOMAIN list |-> ss[i]] /\ \A i \in DOMAIN list : AllTame(self, ctx, {"Api"}, ss[i])
      BY SubscriptionTame
    <3>3. subs = FlattenSeq(ss) \o Parse(Given(props, "deliveryPolicy", "valid"))
      BY DEF SnsSubscriptions
    <3> HIDE DEF list, ss
    <3>4. AllTame(self, ctx, {"Api"}, FlattenSeq(ss))
      BY <3>1, <3>2, TameEachOf
    <3>5. QED
      BY <3>3, <3>4, ListThen, ListParse DEF AllTame
  <2> HIDE DEF subs
  <2>3. QED
    BY <2>1, <2>2, FruitfulFirst DEF Fruitful
<1> HIDE DEF subs
<1>2. IsList(SnsDlq(self, ctx, props))
  BY SnsDlqTame DEF AllTame
<1>3. Fruitful((SnsTopic(self, ctx, props) \o subs) \o SnsDlq(self, ctx, props))
  BY <1>1, <1>2, FruitfulFirst
<1>4. QED
  BY <1>3, ConstructorFruitful DEF Sns, subs

LEMMA PipelineFruitful ==
  ASSUME NEW root, NEW name, NEW dlq, NEW key
  PROVE  /\ Fruitful(DlqAlarms(root, name, dlq, key)) /\ IsList(DlqAlarms(root, name, dlq, key))
         /\ Fruitful(DlqToTarget(root, name, dlq, key)) /\ IsList(DlqToTarget(root, name, dlq, key))
<1>1. Fruitful(DlqAlarms(root, name, dlq, key)) /\ Fruitful(DlqToTarget(root, name, dlq, key))
  BY NewBears, FruitfulTwo, FruitfulThree DEF DlqAlarms, DlqToTarget
<1>2. QED
  BY <1>1 DEF Fruitful

LEMMA SfnErrorNotificationFruitful ==
  ASSUME NEW self, NEW ctx, isEnabled(ctx), NEW props
  PROVE  Fruitful(SfnErrorNotification(self, ctx, props))
BY PipelineFruitful, ConstructorFruitful, FruitfulThen, ListThen, ListOne DEF SfnErrorNotification

LEMMA LambdaErrorNotificationFruitful ==
  ASSUME NEW self, NEW ctx, isEnabled(ctx), NEW props
  PROVE  Fruitful(LambdaErrorNotification(self, ctx, props))
BY PipelineFruitful, ConstructorFruitful, FruitfulThen, ListThen, ListOne DEF LambdaErrorNotification

LEMMA ExpressSfnErrorNotificationFruitful ==
  ASSUME NEW self, NEW ctx, isEnabled(ctx), NEW props,
         "stepFunctions" \in DOMAIN props, Listed(props, "stepFunctions"), props.stepFunctions # << >>
  PROVE  Fruitful(ExpressSfnErrorNotification(self, ctx, props))
<1> DEFINE list == props.stepFunctions
           ss == [i \in DOMAIN list |-> ExpressMachine(self, ctx, list[i])]
<1>1. IsList(list)
  BY DEF Listed, IsList, Given
<1>2. \A entry : Fruitful(ExpressMachine(self, ctx, entry))
  BY PipelineFruitful, FruitfulThen, ListThen, ListOne DEF ExpressMachine
<1>3. \A i \in DOMAIN list : Fruitful(ss[i])
  BY <1>2
<1>4. ss = [i \in DOMAIN list |-> ss[i]] /\ list # << >>
  OBVIOUS
<1>5. ExpressSfnErrorNotification(self, ctx, props) = Constructor(self, ctx, FlattenSeq(ss))
  BY DEF ExpressSfnErrorNotification
<1> HIDE DEF list, ss
<1>6. Fruitful(FlattenSeq(ss))
  BY <1>1, <1>3, <1>4, FruitfulEachOf
<1>7. QED
  BY <1>5, <1>6, ConstructorFruitful

LEMMA CloudwatchEventsFruitful ==
  ASSUME NEW self, NEW ctx, isEnabled(ctx), NEW props,
         "rules" \in DOMAIN props, Listed(props, "rules"), props.rules # << >>
  PROVE  Fruitful(CloudwatchEvents(self, ctx, props))
<1> DEFINE list == props.rules
           ss == [i \in DOMAIN list |-> EventsRule(self, ctx, list[i])]
<1>1. IsList(list)
  BY DEF Listed, IsList, Given
<1>2. \A rule : Fruitful(EventsRule(self, ctx, rule))
  BY NewBears, FruitfulFirst, FruitfulThen, FruitfulOne, ListWhen, ListOne, ListParse DEF EventsRule
<1>3. \A i \in DOMAIN list : Fruitful(ss[i])
  BY <1>2
<1>4. ss = [i \in DOMAIN list |-> ss[i]] /\ list # << >>
  OBVIOUS
<1>5. CloudwatchEvents(self, ctx, props) = Constructor(self, ctx, FlattenSeq(ss))
  BY DEF CloudwatchEvents
<1> HIDE DEF list, ss
<1>6. Fruitful(FlattenSeq(ss))
  BY <1>1, <1>3, <1>4, FruitfulEachOf
<1>7. QED
  BY <1>5, <1>6, ConstructorFruitful

LEMMA CloudtrailCloudwatchAlarmsFruitful ==
  ASSUME NEW self, NEW ctx, isEnabled(ctx), NEW props,
         ToSet(alarmDefinitions) \cap Given(props, "enabledAlarms", ToSet(alarmDefinitions)) # {}
  PROVE  Fruitful(CloudtrailCloudwatchAlarms(self, ctx, props))
<1> DEFINE list == alarmDefinitions
           enabled == Given(props, "enabledAlarms", ToSet(alarmDefinitions))
           ss == [i \in 1..14 |-> When(list[i] \in enabled, AuditAlarm(self, ctx, list[i]))]
<1>1. DOMAIN list = 1..14
  BY DEF alarmDefinitions
<1>2. \A id : Fruitful(AuditAlarm(self, ctx, id))
  BY NewBears, FruitfulTwo DEF AuditAlarm
<1>3. CloudtrailCloudwatchAlarms(self, ctx, props) = Constructor(self, ctx, FlattenSeq(ss))
  BY <1>1 DEF CloudtrailCloudwatchAlarms
<1>4. PICK k \in 1..14 : list[k] \in enabled
  <2> HIDE DEF enabled
  <2>1. ToSet(list) \cap enabled # {}
    BY DEF enabled
  <2> HIDE DEF list
  <2>2. QED
    BY <1>1, <2>1 DEF ToSet
<1> HIDE DEF enabled, list
<1>5. \A i \in 1..14 : IsList(ss[i])
  BY <1>2, ListWhen DEF Fruitful
<1>6. Fruitful(ss[k])
  BY <1>2, <1>4, FruitfulWhen
<1>7. ss = [i \in 1..14 |-> ss[i]]
  OBVIOUS
<1> HIDE DEF ss
<1>8. IsList(ss) /\ DOMAIN ss = 1..14
  BY <1>7, FunctionIsList
<1>9. Fruitful(FlattenSeq(ss))
  BY <1>4, <1>5, <1>6, <1>8, FlattenFruitful
<1>10. QED
  BY <1>3, <1>9, ConstructorFruitful

LEMMA KinesisStreamFruitful ==
  ASSUME NEW self, NEW ctx, isEnabled(ctx), NEW props, Given(props, "consumerCount", 0) \in Nat
  PROVE  Fruitful(KinesisStream(self, ctx, props))
<1> DEFINE stream == self \o <<"Stream">>
           n == Given(props, "consumerCount", 0)
           new == New(stream, Resource("Stream", contextId(ctx), {}))
           s == [i \in 1..n |-> New(self \o <<"Consumer" \o ToString(i - 1)>>,
                                    Resource("StreamConsumer", << >>, {stream}))]
<1>1. Fruitful(<<new>>)
  BY NewBears, FruitfulOne
<1>2. s = [i \in 1..n |-> s[i]]
  OBVIOUS
<1>3. KinesisStream(self, ctx, props) = Constructor(self, ctx, <<new>> \o s)
  BY DEF KinesisStream
<1> HIDE DEF s, new
<1>4. n \in Nat
  OBVIOUS
<1> HIDE DEF n
<1>5. IsList(s)
  BY <1>2, <1>4, FunctionIsList
<1>6. QED
  BY <1>1, <1>3, <1>5, FruitfulFirst, ConstructorFruitful

LEMMA SesFruitful ==
  ASSUME NEW self, NEW ctx, isEnabled(ctx), NEW props
  PROVE  Fruitful(Ses(self, ctx, props))
<1> DEFINE zone == Is(props, "zoneId") /\ Is(props, "zoneName")
           record == Resource("RecordSet", << >>, {self \o <<"Identity">>})
           rest == [i \in 1..3 |-> New(self \o <<"DkimRecord" \o ToString(i)>>, record)]
           identity == New(self \o <<"Identity">>, Resource("EmailIdentity", contextId(ctx), {}))
           group == New(self \o <<"Group">>, Resource("Group",
                        Given(props, "sesGroupName", Dashed(contextId(ctx), "ses")), {}))
<1>1. IsList(SesRecords(self, props))
  <2>1. SesRecords(self, props)
        = When(Is(props, "verifyDomain") /\ zone, <<New(self \o <<"VerificationRecord">>, record)>>)
          \o When(Is(props, "verifyDkim") /\ zone, rest)
    BY DEF SesRecords
  <2>2. rest = [i \in 1..3 |-> rest[i]]
    OBVIOUS
  <2> HIDE DEF rest, zone, record
  <2>3. IsList(rest)
    BY <2>2, FunctionIsList
  <2>4. QED
    BY <2>1, <2>3, ListThen, ListWhen, ListOne
<1>2. IsList(SesUser(self, ctx, props))
  BY ListThen, ListWhen, ListParse, ListOne DEF SesUser
<1>3. Bears(identity)
  BY NewBears
<1>4. Ses(self, ctx, props)
      = Constructor(self, ctx,
          <<identity>> \o SesRecords(self, props)
          \o When(Given(props, "sesGroupEnabled", TRUE), <<group>>)
          \o When(Given(props, "sesUserEnabled", TRUE), SesUser(self, ctx, props)))
  BY DEF Ses
<1> HIDE DEF identity, group
<1>5. QED
  BY <1>1, <1>2, <1>3, <1>4, ConstructorFruitful, FruitfulFirst, FruitfulOne, ListWhen, ListOne

LEMMA IamRoleFruitful ==
  ASSUME NEW self, NEW ctx, isEnabled(ctx), NEW props,
         Listed(props, "inlinePolicies")
  PROVE  Fruitful(IamRole(self, ctx, props))
<1> DEFINE list == Given(props, "inlinePolicies", << >>)
           ss == [i \in DOMAIN list |-> InlinePolicy(self, list[i])]
           inline == FlattenSeq(ss)
           role == self \o <<"Role">>
<1>1. IsList(list)
  BY DEF Listed, IsList
<1>2. \A policy : AllTame(self, ctx, Most, InlinePolicy(self, policy))
  BY TameThen, TameParse, TameOne, MostTame DEF InlinePolicy, Most
<1>3. ss = [i \in DOMAIN list |-> ss[i]] /\ \A i \in DOMAIN list : AllTame(self, ctx, Most, ss[i])
  BY <1>2
<1>4. RoleBody(self, ctx, props)
      = Parse(Given(props, "assumeRolePolicyDocumentOverride", "valid"))
        \o <<New(role, Resource("Role", roleName(ctx, props), {}))>>
        \o When("policyDocuments" \in DOMAIN props,
                Parse(props.policyDocuments)
                \o <<New(self \o <<"Policy">>,
                         Resource("Policy", Dashed(contextId(ctx), "policy"), {role}))>>)
        \o inline
        \o When(Is(props, "instanceProfileEnabled"),
                <<New(self \o <<"InstanceProfile">>,
                      Resource("InstanceProfile", contextId(ctx), {role}))>>)
  BY DEF RoleBody
<1> HIDE DEF list, ss
<1>5. IsList(inline)
  BY <1>1, <1>3, TameEachOf DEF AllTame
<1> HIDE DEF inline
<1>6. Fruitful(RoleBody(self, ctx, props))
  BY <1>4, <1>5, NewBears, FruitfulFirst, FruitfulThen, FruitfulOne, ListThen, ListWhen, ListParse, ListOne
<1>7. QED
  BY <1>6, FruitfulFirst, FruitfulThen, FruitfulWhen, ListOne, ListWhen DEF IamRole

LEMMA IamPolicyFruitful ==
  ASSUME NEW self, NEW ctx, isEnabled(ctx), NEW props, Is(props, "iamPolicyEnabled")
  PROVE  Fruitful(IamPolicy(self, ctx, props))
BY NewBears, FruitfulThen, FruitfulWhen, FruitfulTwo, ListThen, ListOne, ListParse DEF IamPolicy

LEMMA HttpApiGatewayFruitful ==
  ASSUME NEW self, NEW ctx, isEnabled(ctx), NEW props, IsList(self),
         \A option \in {"stages", "vpcLinks", "integrations", "routes", "route53ZoneIds"} :
           Listed(props, option)
  PROVE  Fruitful(HttpApiGateway(self, ctx, props))
<1> DEFINE K == {"Subscription"}
           apiPath == self \o <<"Api">>
           logsPath == self \o <<"AccessLogs">>
           body == Is(props, "openApiBody")
           logging == Given(props, "accessLoggingEnabled", TRUE)
           dns == Is(props, "dnsName") /\ Is(props, "acmCertificateArn")
           uses == {apiPath} \cup IF logging THEN {logsPath} ELSE {}
           node == Resource("Stage", << >>, uses)
           integrations == Given(props, "integrations", << >>)
           routes == Given(props, "routes", << >>)
           logs == New(logsPath, Resource("LogGroup", Under("/aws/apigateway/", contextId(ctx)), {}))
           api == New(apiPath, Resource("Api", IF body THEN << >> ELSE contextId(ctx), {}))
           stage == New(self \o <<"DefaultStage">>, node)
           stages == Keyed(self, "Stage-", Given(props, "stages", << >>), node)
           links == Keyed(self, "VpcLink-", Given(props, "vpcLinks", << >>), Resource("VpcLink", << >>, {}))
           calls == Keyed(self, "Integration-", integrations, Resource("Integration", << >>, {apiPath}))
           routed == calls \o Routes(self, routes, integrations)
<1>1. \A name, refs : /\ Resource("Stage", name, refs).type \notin {"Api", "Subscription"}
                      /\ Resource("VpcLink", name, refs).type \notin {"Api", "Subscription"}
                      /\ Resource("Integration", name, refs).type \notin {"Api", "Subscription"}
  BY DEF Resource
<1>2. /\ IsList(Given(props, "stages", << >>)) /\ IsList(Given(props, "vpcLinks", << >>))
      /\ IsList(integrations) /\ IsList(routes) /\ Listed(props, "route53ZoneIds")
  BY DEF Listed, IsList
<1>3. Bears(api)
  BY NewBears
<1>4. /\ IsList(stages) /\ IsList(links) /\ IsList(calls)
      /\ IsList(Routes(self, routes, integrations)) /\ IsList(CustomDomain(self, props))
  BY <1>1, <1>2, KeyedTame, RoutesTame, CustomDomainTame DEF AllTame
<1>5. HttpApiGateway(self, ctx, props)
      = Constructor(self, ctx,
          When(logging, <<logs>>) \o <<api, stage>> \o stages \o links \o When(~body, routed)
          \o When(dns, CustomDomain(self, props)) \o When(body, UntagApi(self, ctx)))
  BY DEF HttpApiGateway
<1>6. IsList(UntagApi(self, ctx))
  BY ListOne DEF UntagApi
<1>7. IsList(routed)
  BY <1>4, ListThen
<1> HIDE DEF logs, api, stage, stages, links, calls, K, logging, body, dns, integrations, routes, routed
<1>8. QED
  BY <1>3, <1>4, <1>5, <1>6, <1>7, ConstructorFruitful, FruitfulFirst, FruitfulThen, FruitfulTwo, ListWhen, ListOne

-----------------------------------------------------------------------------
(* What a constructor leaves of tags and of redrive policies.              *)

\* A node t[p] of the construct c: no tags but the construct's own, and once the constructor
\* has returned all of them on the construct or off the API, and a redrive policy.
NodeMarked(t, p, c, own, props, threw) ==
  /\ \A k \in DOMAIN t[p].adds : k \in DOMAIN own /\ t[p].adds[k] = own[k]
  /\ t[p].removes # {} => Is(props, "openApiBody")
  /\ ~ threw =>
       /\ t[p].type # "Construct" /\ Given(props, "tagsEnabled", TRUE)
            => DOMAIN own \subseteq DOMAIN t[c].adds
       /\ t[p].type = "Api" /\ Is(props, "openApiBody") => DOMAIN own \subseteq t[p].removes
       /\ t[p].type = "Subscription" /\ c \o <<"Dlq">> \in DOMAIN t /\ t[c \o <<"Dlq">>].type = "Queue"
            => t[p].redrive = {Target(c, props)}

LEMMA NewNodeMarked ==
  ASSUME NEW T, Rooted(T), NEW self, IsList(self), self # App, self \notin DOMAIN T,
         Front(self) \in DOMAIN T, T[Front(self)].removes = {},
         NEW ctx, NEW props, NEW ss, Starts(self, ctx, ss), Marks(self, ctx, props, ss),
         NEW t, t = Run(T, ss).tree, NEW threw, ~ threw => ~ Run(T, ss).threw,
         NEW p \in DOMAIN t \ DOMAIN T
  PROVE  NodeMarked(t, p, self, contextTags(ctx), props, threw) /\ t[Front(p)].removes = {}
<1> DEFINE own == contextTags(ctx)
           B == ToSet(ss)
           dlq == self \o <<"Dlq">>
<1>1. Follows(self, {}, ss) /\ Len(ss) # 0 /\ ss[1] = New(self, Construct)
  BY DEF Starts
<1>2. ss[1].does = "new" /\ ss[1].path = self
  BY <1>1 DEF New
<1>3. Grown(self, T, t) /\ self \in DOMAIN t
  BY <1>1, <1>2, RunGrows
<1>4. /\ Traced(T, t, B)
      /\ ~ threw => /\ Applied(t, B)
                    /\ \A target : RedriveEnds(self, target, ss, Len(ss)) => Redirected(T, t, target)
  BY <1>1, RunTraces
<1>5. Tagging(self, ctx, props, ss) /\ Redriving(self, props, ss)
  BY DEF Marks
<1>6. PICK d \in B : d.does = "new" /\ d.path = p /\ d.node.type = t[p].type
  BY <1>4 DEF Traced
<1> HIDE DEF B, own, dlq
<1>7. \A k \in DOMAIN t[p].adds : k \in DOMAIN own /\ t[p].adds[k] = own[k]
  <2>1. ASSUME NEW k \in DOMAIN t[p].adds PROVE k \in DOMAIN own /\ t[p].adds[k] = own[k]
    <3>1. PICK e \in B : e.does = "add" /\ e.path = p /\ k \in DOMAIN e.tags /\ t[p].adds[k] = e.tags[k]
      BY <1>4 DEF Traced
    <3>2. e.tags = own
      BY <1>5, <3>1 DEF Tagging, B, own
    <3>3. QED
      BY <3>1, <3>2
  <2>2. QED
    BY <2>1
<1>8. ASSUME NEW q \in DOMAIN t \ DOMAIN T, t[q].removes # {}
      PROVE  Is(props, "openApiBody") /\ Front(p) # q
  <2>1. PICK e \in B : e.does = "remove" /\ e.path = q
    BY <1>4, <1>8 DEF Traced
  <2>2. QED
    BY <1>5, <1>6, <2>1 DEF Tagging, B
<1>9. ASSUME ~ threw, t[p].type # "Construct", Given(props, "tagsEnabled", TRUE)
      PROVE  DOMAIN own \subseteq DOMAIN t[self].adds
  <2> DEFINE tag == AddTags(self, own)
  <2>1. tag \in B
    BY <1>5, <1>6, <1>9 DEF Tagging, B, own
  <2>2. tag.does = "add" /\ tag.path = self /\ tag.tags = own
    BY DEF AddTags
  <2> HIDE DEF tag
  <2>3. QED
    BY <1>4, <1>9, <2>1, <2>2 DEF Applied
<1>10. ASSUME ~ threw, t[p].type = "Api", Is(props, "openApiBody")
       PROVE  DOMAIN own \subseteq t[p].removes
  <2> DEFINE untag == RemoveTags(p, DOMAIN own)
  <2>1. untag \in B
    BY <1>5, <1>6, <1>10 DEF Tagging, B, own
  <2>2. untag.does = "remove" /\ untag.path = p /\ untag.keys = DOMAIN own
    BY DEF RemoveTags
  <2> HIDE DEF untag
  <2>3. QED
    BY <1>4, <1>10, <2>1, <2>2 DEF Applied
<1>11. ASSUME ~ threw, t[p].type = "Subscription", dlq \in DOMAIN t, t[dlq].type = "Queue"
       PROVE  t[p].redrive = {Target(self, props)}
  <2>1. dlq \notin DOMAIN T
    BY ChildPath, NothingBelowFree DEF dlq
  <2>2. PICK q \in B : q.does = "new" /\ q.path = dlq /\ q.node.type = t[dlq].type
    BY <1>4, <1>11, <2>1 DEF Traced
  <2>3. RedriveEnds(self, Target(self, props), ss, Len(ss))
    BY <1>5, <1>6, <1>11, <2>2 DEF Redriving, B, dlq
  <2>4. QED
    BY <1>4, <1>11, <2>3 DEF Redirected
<1>12. t[Front(p)].removes = {}
  <2>1. IsList(p) /\ IsPrefix(self, p)
    BY <1>3 DEF Grown, Rooted
  <2>2. CASE p = self
    BY <1>3, <2>2 DEF Grown
  <2>3. CASE p # self
    <3>1. p # App
      BY DEF Rooted
    <3>2. IsPrefix(self, Front(p)) /\ Front(p) \in DOMAIN t
      BY <1>3, <2>1, <2>3, <3>1, AboveParent DEF Grown, Rooted
    <3>3. Front(p) \notin DOMAIN T
      BY <3>2, NothingBelowFree
    <3>4. QED
      BY <1>8, <3>2, <3>3
  <2>4. QED
    BY <2>2, <2>3
<1>13. t[p].removes # {} => Is(props, "openApiBody")
  BY <1>8
<1>14. QED
  BY <1>7, <1>9, <1>10, <1>11, <1>12, <1>13 DEF NodeMarked, own, dlq

-----------------------------------------------------------------------------
(* The steps of an app.                                                    *)
LEMMA AppendIsChild ==
  ASSUME NEW p, IsList(p), NEW x
  PROVE  Append(p, x) = p \o <<x>>
<1> DEFINE S == ToSet(p) \cup {x}
<1>1. p \in Seq(ToSet(p)) /\ ToSet(p) \subseteq S /\ x \in S
  BY DEF IsList
<1> HIDE DEF S
<1>2. p \in Seq(S)
  BY <1>1
<1>3. QED
  BY <1>1, <1>2, AppendIsConcat

(* A free id is one of a node that is there.                               *)
LEMMA FreeIs ==
  ASSUME Rooted(tree), DOMAIN given \subseteq DOMAIN tree, NEW self \in Free
  PROVE  /\ IsList(self) /\ self # App /\ self \notin DOMAIN tree
         /\ Front(self) \in DOMAIN tree /\ Front(self) \in {App} \cup DOMAIN given
<1>1. PICK scope \in Scopes, id \in Ids : self = Append(scope, id)
  BY DEF Free
<1>2. scope \in DOMAIN tree /\ IsList(scope) /\ scope \in {App} \cup DOMAIN given
  BY DEF Scopes, Rooted
<1>3. self = scope \o <<id>>
  BY <1>1, <1>2, AppendIsChild
<1>4. self \notin DOMAIN tree
  BY DEF Free
<1>5. IsList(self) /\ self # App /\ Front(self) = scope
  BY <1>2, <1>3, ChildPath
<1>6. QED
  BY <1>2, <1>4, <1>5

(* Whatever class is constructed, its statements start with its own node   *)
(* and rely only on what was made before, and they tag and redrive.        *)
\* Nothing but its context and its props keeps a constructor from making a resource.
Yields(ctx, class, props, ss) == isEnabled(ctx) /\ ~ AsksForNothing(class, props) => Fruitful(ss)

LEMMA EveryClassStarts ==
  ASSUME Rooted(tree), DOMAIN given \subseteq DOMAIN tree, NewConstruct
  PROVE  \E self \in Free, i \in DOMAIN nodes : \E class, props, ss :
           /\ Starts(self, nodes[i].ctx, ss) /\ Marks(self, nodes[i].ctx, props, ss)
           /\ Yields(nodes[i].ctx, class, props, ss)
           /\ Built(self, class, i, props, ss)
<1>1. PICK self \in Free, i \in DOMAIN nodes :
       \/ \E props \in Options.SqsQueue : NewSqsQueue(self, i, props)
       \/ \E props \in Options.Sns : NewSns(self, i, props)
       \/ \E props \in Options.SfnErrorNotification : NewSfnErrorNotification(self, i, props)
       \/ \E props \in Options.LambdaErrorNotification : NewLambdaErrorNotification(self, i, props)
       \/ \E props \in Options.ExpressSfnErrorNotification : NewExpressSfnErrorNotification(self, i, props)
       \/ \E props \in Options.LambdaFunction : NewLambdaFunction(self, i, props)
       \/ \E props \in Options.StepFunctions : NewStepFunctions(self, i, props)
       \/ \E props \in Options.HttpApiGateway : NewHttpApiGateway(self, i, props)
       \/ \E props \in Options.Slackbot : NewSlackbot(self, i, props)
       \/ \E props \in Options.S3Bucket : NewS3Bucket(self, i, props)
       \/ \E props \in Options.S3LogStorage : NewS3LogStorage(self, i, props)
       \/ \E props \in Options.Secret : NewSecret(self, i, props)
       \/ \E props \in Options.KmsKey : NewKmsKey(self, i, props)
       \/ \E props \in Options.S3Website : NewS3Website(self, i, props)
       \/ \E props \in Options.Ses : NewSes(self, i, props)
       \/ \E props \in Options.IamRole : NewIamRole(self, i, props)
       \/ \E props \in Options.IamPolicy : NewIamPolicy(self, i, props)
       \/ \E props \in Options.IamUser : NewIamUser(self, i, props)
       \/ \E props \in Options.Dynamodb : NewDynamodb(self, i, props)
       \/ \E props \in Options.KinesisStream : NewKinesisStream(self, i, props)
       \/ \E props \in Options.RedshiftCluster : NewRedshiftCluster(self, i, props)
       \/ \E props \in Options.AuroraDsql : NewAuroraDsql(self, i, props)
       \/ \E props \in Options.Eventbridge : NewEventbridge(self, i, props)
       \/ \E props \in Options.EventbridgeRule : NewEventbridgeRule(self, i, props)
       \/ \E props \in Options.CloudwatchEvents : NewCloudwatchEvents(self, i, props)
       \/ \E props \in Options.CloudTrail : NewCloudTrail(self, i, props)
       \/ \E props \in Options.CloudtrailCloudwatchAlarms : NewCloudtrailCloudwatchAlarms(self, i, props)
       \/ \E props \in Options.CloudwatchFlowLogs : NewCloudwatchFlowLogs(self, i, props)
  BY DEF NewConstruct
<1>2. IsList(self) /\ self # App
  BY FreeIs
<1>3. CASE \E props \in Options.SqsQueue : NewSqsQueue(self, i, props)
  BY <1>2, <1>3, SqsQueueStarts, SqsQueueMarks, SqsQueueFruitful DEF AsksForNothing, Yields, NewSqsQueue
<1>4. CASE \E props \in Options.Sns : NewSns(self, i, props)
  BY <1>2, <1>4, AppAssumption, SnsStarts, SnsMarks, SnsFruitful DEF AsksForNothing, Yields, NewSns
<1>5. CASE \E props \in Options.SfnErrorNotification : NewSfnErrorNotification(self, i, props)
  BY <1>2, <1>5, SfnErrorNotificationStarts, SfnErrorNotificationMarks, SfnErrorNotificationFruitful DEF AsksForNothing, Yields, NewSfnErrorNotification
<1>6. CASE \E props \in Options.LambdaErrorNotification : NewLambdaErrorNotification(self, i, props)
  BY <1>2, <1>6, LambdaErrorNotificationStarts, LambdaErrorNotificationMarks, LambdaErrorNotificationFruitful DEF AsksForNothing, Yields, NewLambdaErrorNotification
<1>7. CASE \E props \in Options.ExpressSfnErrorNotification : NewExpressSfnErrorNotification(self, i, props)
  BY <1>2, <1>7, AppAssumption, ExpressSfnErrorNotificationStarts, ExpressSfnErrorNotificationMarks, ExpressSfnErrorNotificationFruitful DEF AsksForNothing, Yields, NewExpressSfnErrorNotification
<1>8. CASE \E props \in Options.LambdaFunction : NewLambdaFunction(self, i, props)
  BY <1>2, <1>8, LambdaFunctionStarts, LambdaFunctionMarks, LambdaFunctionFruitful DEF AsksForNothing, Yields, NewLambdaFunction
<1>9. CASE \E props \in Options.StepFunctions : NewStepFunctions(self, i, props)
  BY <1>2, <1>9, StepFunctionsStarts, StepFunctionsMarks, StepFunctionsFruitful DEF AsksForNothing, Yields, NewStepFunctions
<1>10. CASE \E props \in Options.HttpApiGateway : NewHttpApiGateway(self, i, props)
  BY <1>2, <1>10, AppAssumption, HttpApiGatewayStarts, HttpApiGatewayMarks, HttpApiGatewayFruitful DEF AsksForNothing, Yields, NewHttpApiGateway
<1>11. CASE \E props \in Options.Slackbot : NewSlackbot(self, i, props)
  BY <1>2, <1>11, SlackbotStarts, SlackbotMarks, SlackbotFruitful DEF AsksForNothing, Yields, NewSlackbot
<1>12. CASE \E props \in Options.S3Bucket : NewS3Bucket(self, i, props)
  BY <1>2, <1>12, S3BucketStarts, S3BucketMarks, S3BucketFruitful DEF AsksForNothing, Yields, NewS3Bucket
<1>13. CASE \E props \in Options.S3LogStorage : NewS3LogStorage(self, i, props)
  BY <1>2, <1>13, S3LogStorageStarts, S3LogStorageMarks, S3LogStorageFruitful DEF AsksForNothing, Yields, NewS3LogStorage
<1>14. CASE \E props \in Options.Secret : NewSecret(self, i, props)
  BY <1>2, <1>14, SecretStarts, SecretMarks, SecretFruitful DEF AsksForNothing, Yields, NewSecret
<1>15. CASE \E props \in Options.KmsKey : NewKmsKey(self, i, props)
  BY <1>2, <1>15, KmsKeyStarts, KmsKeyMarks, KmsKeyFruitful DEF AsksForNothing, Yields, NewKmsKey
<1>16. CASE \E props \in Options.S3Website : NewS3Website(self, i, props)
  BY <1>2, <1>16, S3WebsiteStarts, S3WebsiteMarks, S3WebsiteFruitful DEF AsksForNothing, Yields, NewS3Website
<1>17. CASE \E props \in Options.Ses : NewSes(self, i, props)
  BY <1>2, <1>17, SesStarts, SesMarks, SesFruitful DEF AsksForNothing, Yields, NewSes
<1>18. CASE \E props \in Options.IamRole : NewIamRole(self, i, props)
  BY <1>2, <1>18, AppAssumption, IamRoleStarts, IamRoleMarks, IamRoleFruitful DEF AsksForNothing, Yields, NewIamRole
<1>19. CASE \E props \in Options.IamPolicy : NewIamPolicy(self, i, props)
  BY <1>2, <1>19, IamPolicyStarts, IamPolicyMarks, IamPolicyFruitful DEF AsksForNothing, Yields, NewIamPolicy
<1>20. CASE \E props \in Options.IamUser : NewIamUser(self, i, props)
  BY <1>2, <1>20, IamUserStarts, IamUserMarks, IamUserFruitful DEF AsksForNothing, Yields, NewIamUser
<1>21. CASE \E props \in Options.Dynamodb : NewDynamodb(self, i, props)
  BY <1>2, <1>21, DynamodbStarts, DynamodbMarks, DynamodbFruitful DEF AsksForNothing, Yields, NewDynamodb
<1>22. CASE \E props \in Options.KinesisStream : NewKinesisStream(self, i, props)
  BY <1>2, <1>22, AppAssumption, KinesisStreamStarts, KinesisStreamMarks, KinesisStreamFruitful DEF AsksForNothing, Yields, NewKinesisStream
<1>23. CASE \E props \in Options.RedshiftCluster : NewRedshiftCluster(self, i, props)
  BY <1>2, <1>23, RedshiftClusterStarts, RedshiftClusterMarks, RedshiftClusterFruitful DEF AsksForNothing, Yields, NewRedshiftCluster
<1>24. CASE \E props \in Options.AuroraDsql : NewAuroraDsql(self, i, props)
  BY <1>2, <1>24, AuroraDsqlStarts, AuroraDsqlMarks, AuroraDsqlFruitful DEF AsksForNothing, Yields, NewAuroraDsql
<1>25. CASE \E props \in Options.Eventbridge : NewEventbridge(self, i, props)
  BY <1>2, <1>25, EventbridgeStarts, EventbridgeMarks, EventbridgeFruitful DEF AsksForNothing, Yields, NewEventbridge
<1>26. CASE \E props \in Options.EventbridgeRule : NewEventbridgeRule(self, i, props)
  BY <1>2, <1>26, EventbridgeRuleStarts, EventbridgeRuleMarks, EventbridgeRuleFruitful DEF AsksForNothing, Yields, NewEventbridgeRule
<1>27. CASE \E props \in Options.CloudwatchEvents : NewCloudwatchEvents(self, i, props)
  BY <1>2, <1>27, AppAssumption, CloudwatchEventsStarts, CloudwatchEventsMarks, CloudwatchEventsFruitful DEF AsksForNothing, Yields, NewCloudwatchEvents
<1>28. CASE \E props \in Options.CloudTrail : NewCloudTrail(self, i, props)
  BY <1>2, <1>28, CloudTrailStarts, CloudTrailMarks, CloudTrailFruitful DEF AsksForNothing, Yields, NewCloudTrail
<1>29. CASE \E props \in Options.CloudtrailCloudwatchAlarms : NewCloudtrailCloudwatchAlarms(self, i, props)
  BY <1>2, <1>29, CloudtrailCloudwatchAlarmsStarts, CloudtrailCloudwatchAlarmsMarks, CloudtrailCloudwatchAlarmsFruitful DEF AsksForNothing, Yields, NewCloudtrailCloudwatchAlarms
<1>30. CASE \E props \in Options.CloudwatchFlowLogs : NewCloudwatchFlowLogs(self, i, props)
  BY <1>2, <1>30, CloudwatchFlowLogsStarts, CloudwatchFlowLogsMarks, CloudwatchFlowLogsFruitful DEF AsksForNothing, Yields, NewCloudwatchFlowLogs
<1>31. QED
  BY <1>1, <1>3, <1>4, <1>5, <1>6, <1>7, <1>8, <1>9, <1>10, <1>11, <1>12, <1>13, <1>14,
     <1>15, <1>16, <1>17, <1>18, <1>19, <1>20, <1>21, <1>22, <1>23, <1>24, <1>25,
     <1>26, <1>27, <1>28, <1>29, <1>30

-----------------------------------------------------------------------------
(* What holds of every app.                                                *)

(* Of two nodes above one node, one is above the other.                    *)
LEMMA AboveCompare ==
  ASSUME NEW p, IsList(p), NEW q, IsList(q), NEW r, IsList(r), IsPrefix(r, p)
  PROVE  /\ IsPrefix(q, r) => IsPrefix(q, p)
         /\ IsPrefix(q, p) => IsPrefix(q, r) \/ IsPrefix(r, q)
<1> DEFINE S == ToSet(p) \cup ToSet(q) \cup ToSet(r)
<1>1. /\ p \in Seq(ToSet(p)) /\ q \in Seq(ToSet(q)) /\ r \in Seq(ToSet(r))
      /\ ToSet(p) \subseteq S /\ ToSet(q) \subseteq S /\ ToSet(r) \subseteq S
  BY DEF IsList
<1> HIDE DEF S
<1>2. p \in Seq(S) /\ q \in Seq(S) /\ r \in Seq(S)
  BY <1>1
<1>3. Len(p) \in Nat /\ Len(q) \in Nat /\ Len(r) \in Nat
  BY <1>2
<1>4. Len(r) <= Len(p) /\ \A i \in 1..Len(r) : r[i] = p[i]
  BY <1>2, PrefixElements
<1>5. ASSUME IsPrefix(q, r) PROVE IsPrefix(q, p)
  <2>1. Len(q) <= Len(r) /\ \A i \in 1..Len(q) : q[i] = r[i]
    BY <1>2, <1>5, PrefixElements
  <2>2. Len(q) <= Len(p) /\ \A i \in 1..Len(q) : q[i] = p[i]
    BY <1>3, <1>4, <2>1
  <2>3. QED
    BY <1>2, <2>2, PrefixElements
<1>6. ASSUME IsPrefix(q, p) PROVE IsPrefix(q, r) \/ IsPrefix(r, q)
  <2>1. Len(q) <= Len(p) /\ \A i \in 1..Len(q) : q[i] = p[i]
    BY <1>2, <1>6, PrefixElements
  <2>2. CASE Len(q) <= Len(r)
    <3>1. \A i \in 1..Len(q) : q[i] = r[i]
      BY <1>3, <1>4, <2>1, <2>2
    <3>2. QED
      BY <1>2, <2>2, <3>1, PrefixElements
  <2>3. CASE Len(r) <= Len(q)
    <3>1. \A i \in 1..Len(r) : r[i] = q[i]
      BY <1>3, <1>4, <2>1, <2>3
    <3>2. QED
      BY <1>2, <2>3, <3>1, PrefixElements
  <2>4. QED
    BY <1>3, <2>2, <2>3
<1>7. QED
  BY <1>5, <1>6

LEMMA AboveItself ==
  ASSUME NEW p, IsList(p)
  PROVE  IsPrefix(p, p)
<1>1. p \in Seq(ToSet(p))
  BY DEF IsList
<1>2. QED
  BY <1>1, PrefixElements

\* A resource refers to resources that lie below the same constructs of the app.
Resolved(t, C) ==
  \A p \in DOMAIN t : t[p].type # "Construct" =>
    \A r \in (t[p].refs \cup t[p].redrive) \ {External} :
      /\ r \in DOMAIN t /\ t[r].type # "Construct"
      /\ \A c \in C : IsPrefix(c, p) <=> IsPrefix(c, r)

NodesOK(t) ==
  \A p \in DOMAIN t :
    /\ DOMAIN t[p] = NodeFields
    /\ t[p].type = "Construct" => t[p].name = << >>
    /\ t[p].type # "Api" => t[p].removes = {}

Inv ==
  /\ IsList(nodes)
  /\ Rooted(tree)
  /\ NodesOK(tree)
  /\ failed \subseteq DOMAIN given
  /\ DOMAIN given \subseteq DOMAIN tree
  /\ \A c \in DOMAIN given : given[c].ctx \in DOMAIN nodes
  /\ Resolved(tree, DOMAIN given)

LEMMA InitInv == Init => Inv
<1> SUFFICES ASSUME Init PROVE Inv
  OBVIOUS
<1>1. nodes = << >> /\ tree = [p \in {App} |-> Construct] /\ given = EmptyMap /\ failed = {}
  BY DEF Init, Chain!Init
<1>2. DOMAIN given = {}
  BY <1>1 DEF EmptyMap
<1>3. IsList(nodes)
  BY <1>1, NothingFollows, FollowsIsList
<1>4. DOMAIN tree = {App} /\ tree[App] = Construct
  BY <1>1
<1>5. Rooted(tree)
  BY <1>4, AppIsList DEF Rooted
<1>6. NodesOK(tree)
  BY <1>4 DEF NodesOK, Construct, Resource, NodeFields
<1>7. Resolved(tree, DOMAIN given)
  BY <1>4 DEF Resolved, Construct, Resource
<1>8. QED
  BY <1>1, <1>2, <1>3, <1>5, <1>6, <1>7 DEF Inv

(* The new nodes refer to new nodes.                                       *)
LEMMA GrownResolved ==
  ASSUME NEW T, Rooted(T), NEW C, C \subseteq DOMAIN T, Resolved(T, C),
         NEW self, IsList(self), self \notin DOMAIN T, NEW t, Grown(self, T, t)
  PROVE  Resolved(t, C \cup {self})
<1> SUFFICES ASSUME NEW p \in DOMAIN t, t[p].type # "Construct",
                    NEW r \in (t[p].refs \cup t[p].redrive) \ {External}
             PROVE  /\ r \in DOMAIN t /\ t[r].type # "Construct"
                    /\ \A c \in C \cup {self} : IsPrefix(c, p) <=> IsPrefix(c, r)
  BY DEF Resolved
<1>1. CASE p \in DOMAIN T
  <2>1. t[p] = T[p]
    BY <1>1 DEF Grown
  <2>2. r \in DOMAIN T /\ T[r].type # "Construct" /\ \A c \in C : IsPrefix(c, p) <=> IsPrefix(c, r)
    BY <1>1, <2>1 DEF Resolved
  <2>3. r \in DOMAIN t /\ t[r] = T[r]
    BY <2>2 DEF Grown
  <2>4. ~ IsPrefix(self, p) /\ ~ IsPrefix(self, r)
    BY <1>1, <2>2, NothingBelowFree
  <2>5. QED
    BY <2>2, <2>3, <2>4
<1>2. CASE p \notin DOMAIN T
  <2>1. r \in DOMAIN t \ DOMAIN T /\ t[r].type # "Construct"
    BY <1>2 DEF Grown
  <2>2. \A q \in DOMAIN t : IsList(q)
    BY DEF Grown, Rooted
  <2>3. IsPrefix(self, p) /\ IsPrefix(self, r)
    BY <1>2, <2>1 DEF Grown
  <2>4. ASSUME NEW c \in C, NEW q \in {p, r} PROVE IsPrefix(c, q) <=> IsPrefix(c, self)
    <3>1. IsList(c) /\ c \in DOMAIN T /\ IsList(q) /\ IsPrefix(self, q)
      BY <2>1, <2>2, <2>3 DEF Rooted
    <3>2. ~ IsPrefix(self, c)
      BY <3>1, NothingBelowFree
    <3>3. QED
      BY <3>1, <3>2, AboveCompare
  <2>5. QED
    BY <2>1, <2>3, <2>4
<1>3. QED
  BY <1>1, <1>2

\* The step that constructs.
Constructs(self, i, class, props) ==
  /\ Grown(self, tree, tree') /\ self \in DOMAIN tree'
  /\ ~ isEnabled(nodes[i].ctx) =>
       \A p \in DOMAIN tree' \ DOMAIN tree : tree'[p].type = "Construct"
  /\ given' = Spread(given, [p \in {self} |-> [class |-> class, ctx |-> i, props |-> props]])
  /\ failed \subseteq failed' /\ failed' \subseteq failed \cup {self}
  /\ nodes' = nodes
  /\ tree'[self].type = "Construct"
  /\ tree[Front(self)].removes = {} =>
       \A p \in DOMAIN tree' \ DOMAIN tree :
         /\ NodeMarked(tree', p, self, contextTags(nodes[i].ctx), props, self \in failed')
         /\ tree'[Front(p)].removes = {}
  /\ isEnabled(nodes[i].ctx) /\ ~ AsksForNothing(class, props) /\ self \notin failed'
       => \E p \in DOMAIN tree' \ DOMAIN tree : tree'[p].type # "Construct"

LEMMA ConstructStep ==
  ASSUME Inv, NewConstruct
  PROVE  \E self \in Free, i \in DOMAIN nodes : \E class, props : Constructs(self, i, class, props)
<1>1. Rooted(tree) /\ DOMAIN given \subseteq DOMAIN tree
  BY DEF Inv
<1>2. PICK self \in Free, i \in DOMAIN nodes : \E class, props, ss :
        /\ Starts(self, nodes[i].ctx, ss) /\ Marks(self, nodes[i].ctx, props, ss)
        /\ Yields(nodes[i].ctx, class, props, ss)
        /\ Built(self, class, i, props, ss)
  BY <1>1, EveryClassStarts
<1>3. PICK class, props, ss : /\ Starts(self, nodes[i].ctx, ss) /\ Marks(self, nodes[i].ctx, props, ss)
                              /\ Yields(nodes[i].ctx, class, props, ss)
                              /\ Built(self, class, i, props, ss)
  BY <1>2
<1> DEFINE s == Run(tree, ss)
<1>4. IsList(self) /\ self # App /\ self \notin DOMAIN tree /\ Front(self) \in DOMAIN tree
  BY <1>1, FreeIs
<1>5. Follows(self, {}, ss) /\ Len(ss) # 0 /\ ss[1].does = "new" /\ ss[1].path = self
  BY <1>3 DEF Starts, New
<1>6. Grown(self, tree, s.tree) /\ self \in DOMAIN s.tree
  BY <1>1, <1>4, <1>5, RunGrows
<1>7. /\ tree' = s.tree /\ nodes' = nodes
      /\ given' = Spread(given, [p \in {self} |-> [class |-> class, ctx |-> i, props |-> props]])
      /\ failed' = failed \cup IF s.threw THEN {self} ELSE {}
  BY <1>3 DEF Built
<1>8. ~ isEnabled(nodes[i].ctx) =>
        \A p \in DOMAIN s.tree \ DOMAIN tree : s.tree[p].type = "Construct"
  BY <1>3, <1>5, IdleRun DEF Starts, Follows
<1> HIDE DEF s
<1>9. failed \subseteq failed' /\ failed' \subseteq failed \cup {self}
  BY <1>7
<1>10. Grown(self, tree, tree') /\ self \in DOMAIN tree'
  BY <1>6, <1>7
<1>11. ~ isEnabled(nodes[i].ctx) =>
         \A p \in DOMAIN tree' \ DOMAIN tree : tree'[p].type = "Construct"
  BY <1>7, <1>8
<1>12. tree'[self].type = "Construct"
  <2>1. ss[1] = New(self, Construct)
    BY <1>3 DEF Starts
  <2>2. QED
    BY <1>1, <1>4, <1>5, <1>7, <2>1, RunTraces DEF s
<1>13. ASSUME tree[Front(self)].removes = {}, NEW p \in DOMAIN tree' \ DOMAIN tree
       PROVE  /\ NodeMarked(tree', p, self, contextTags(nodes[i].ctx), props, self \in failed')
              /\ tree'[Front(p)].removes = {}
  <2>1. PICK t : t = tree'
    OBVIOUS
  <2>2. PICK threw : threw = (self \in failed')
    OBVIOUS
  <2>3. t = Run(tree, ss).tree /\ (~ threw => ~ Run(tree, ss).threw)
    BY <1>7, <2>1, <2>2 DEF s
  <2>4. p \in DOMAIN t \ DOMAIN tree
    BY <2>1
  <2>5. NodeMarked(t, p, self, contextTags(nodes[i].ctx), props, threw) /\ t[Front(p)].removes = {}
    BY <1>1, <1>3, <1>4, <1>13, <2>3, <2>4, NewNodeMarked
  <2>6. QED
    BY <2>1, <2>2, <2>5 DEF NodeMarked
<1>14. ASSUME isEnabled(nodes[i].ctx), ~ AsksForNothing(class, props), self \notin failed'
       PROVE  \E p \in DOMAIN tree' \ DOMAIN tree : tree'[p].type # "Construct"
  <2>1. ~ s.threw /\ failed' = failed \cup IF s.threw THEN {self} ELSE {}
    BY <1>7, <1>14
  <2>2. Has(tree, s.tree, ToSet(ss))
    BY <1>1, <1>4, <1>5, <2>1, RunGrows DEF s
  <2>3. PICK e \in ToSet(ss) : e.does = "new" /\ e.node.type # "Construct"
    BY <1>3, <1>14 DEF Yields, Fruitful, Bears
  <2>4. QED
    BY <1>7, <2>2, <2>3 DEF Has
<1>15. Constructs(self, i, class, props)
  BY <1>7, <1>9, <1>10, <1>11, <1>12, <1>13, <1>14 DEF Constructs
<1>16. QED
  BY <1>15

LEMMA ConstructInv == Inv /\ NewConstruct => Inv'
<1> SUFFICES ASSUME Inv, NewConstruct PROVE Inv'
  OBVIOUS
<1>1. PICK self \in Free, i \in DOMAIN nodes : \E class, props : Constructs(self, i, class, props)
  BY ConstructStep
<1>2. PICK class, props :
        /\ Grown(self, tree, tree') /\ self \in DOMAIN tree'
        /\ given' = Spread(given, [p \in {self} |-> [class |-> class, ctx |-> i, props |-> props]])
        /\ failed' \subseteq failed \cup {self}
        /\ nodes' = nodes
  BY <1>1 DEF Constructs
<1>3. IsList(self) /\ self \notin DOMAIN tree
  BY FreeIs DEF Inv
<1>4. /\ DOMAIN given' = DOMAIN given \cup {self}
      /\ \A c \in DOMAIN given' : given'[c].ctx \in DOMAIN nodes
  <2> DEFINE new == [p \in {self} |-> [class |-> class, ctx |-> i, props |-> props]]
  <2>1. DOMAIN new = {self} /\ new[self].ctx = i
    OBVIOUS
  <2> HIDE DEF new
  <2>2. given' = [k \in DOMAIN given \cup DOMAIN new |-> IF k \in DOMAIN new THEN new[k] ELSE given[k]]
    BY <1>2 DEF Spread, new
  <2>3. QED
    BY <2>1, <2>2 DEF Inv
<1>5. Rooted(tree') /\ DOMAIN tree \subseteq DOMAIN tree' /\ \A p \in DOMAIN tree : tree'[p] = tree[p]
  BY <1>2 DEF Grown
<1>6. NodesOK(tree')
  <2>1. ASSUME NEW p \in DOMAIN tree'
        PROVE  /\ DOMAIN tree'[p] = NodeFields
               /\ tree'[p].type = "Construct" => tree'[p].name = << >>
               /\ tree'[p].type # "Api" => tree'[p].removes = {}
    <3>1. CASE p \in DOMAIN tree
      BY <3>1, <1>5 DEF Inv, NodesOK
    <3>2. CASE p \notin DOMAIN tree
      BY <3>2, <1>2 DEF Grown
    <3>3. QED
      BY <3>1, <3>2
  <2>2. QED
    BY <2>1 DEF NodesOK
<1>7. Resolved(tree', DOMAIN given')
  BY <1>2, <1>3, <1>4, GrownResolved DEF Inv
<1>8. failed' \subseteq DOMAIN given' /\ DOMAIN given' \subseteq DOMAIN tree'
  BY <1>2, <1>4, <1>5 DEF Inv
<1>9. IsList(nodes') /\ \A c \in DOMAIN given' : given'[c].ctx \in DOMAIN nodes'
  BY <1>2, <1>4 DEF Inv
<1>10. QED
  BY <1>5, <1>6, <1>7, <1>8, <1>9 DEF Inv

LEMMA ContextsInv == Inv /\ UseContexts => Inv'
<1> SUFFICES ASSUME Inv, UseContexts PROVE Inv'
  OBVIOUS
<1>1. UNCHANGED <<tree, given, failed>> /\ Chain!Next
  BY DEF UseContexts
<1>2. \E n : nodes' = Append(nodes, n)
  BY <1>1 DEF Chain!Next, Chain!Make, Chain!Bridge, Chain!Extend
<1>3. IsList(nodes') /\ DOMAIN nodes \subseteq DOMAIN nodes'
  <2>1. PICK n : nodes' = Append(nodes, n)
    BY <1>2
  <2> DEFINE S == ToSet(nodes) \cup {n}
  <2>2. nodes \in Seq(ToSet(nodes)) /\ ToSet(nodes) \subseteq S /\ n \in S
    BY DEF Inv, IsList
  <2> HIDE DEF S
  <2>3. nodes \in Seq(S)
    BY <2>2
  <2>4. nodes' \in Seq(S) /\ DOMAIN nodes \subseteq DOMAIN nodes'
    BY <2>1, <2>2, <2>3
  <2>5. QED
    BY <2>4, SequenceIsList
<1>4. QED
  BY <1>1, <1>3 DEF Inv

LEMMA TagAppInv == Inv /\ TagApp => Inv'
<1> SUFFICES ASSUME Inv, TagApp PROVE Inv'
  OBVIOUS
<1>1. UNCHANGED <<nodes, given, failed>>
  BY DEF TagApp
<1>2. PICK tags \in AppTags : tree' = Effect(tree, AddTags(App, tags))
  BY DEF TagApp
<1>3. tree' = [tree EXCEPT ![App].adds = Spread(@, tags)]
  BY <1>2 DEF Effect, AddTags
<1>4. /\ DOMAIN tree' = DOMAIN tree
      /\ \A p \in DOMAIN tree :
           /\ DOMAIN tree'[p] = NodeFields
           /\ tree'[p].type = tree[p].type /\ tree'[p].name = tree[p].name
           /\ tree'[p].refs = tree[p].refs /\ tree'[p].redrive = tree[p].redrive
           /\ tree'[p].removes = tree[p].removes
  BY <1>3 DEF Inv, NodesOK, NodeFields
<1>5. Rooted(tree')
  BY <1>4 DEF Inv, Rooted
<1>6. NodesOK(tree')
  BY <1>4 DEF Inv, NodesOK
<1>7. Resolved(tree', DOMAIN given)
  BY <1>4 DEF Inv, Resolved
<1>8. QED
  BY <1>1, <1>4, <1>5, <1>6, <1>7 DEF Inv

LEMMA InvHolds == Spec => []Inv
<1>1. Init => Inv
  BY InitInv
<1>2. Inv /\ [Next]_appVars => Inv'
  <2> SUFFICES ASSUME Inv, [Next]_appVars PROVE Inv'
    OBVIOUS
  <2>1. CASE UseContexts
    BY <2>1, ContextsInv
  <2>2. CASE NewConstruct
    BY <2>2, ConstructInv
  <2>3. CASE TagApp
    BY <2>3, TagAppInv
  <2>4. CASE UNCHANGED appVars
    BY <2>4 DEF appVars, Inv
  <2>5. QED
    BY <2>1, <2>2, <2>3, <2>4 DEF Next
<1>3. QED
  BY <1>1, <1>2, PTL DEF Spec

-----------------------------------------------------------------------------
(* What is enabled.                                                        *)

(* A context made from props is enabled if they say nothing else.          *)
LEMMA MadeEnabled ==
  ASSUME NEW props
  PROVE  Chain!makeContext(props).enabled = IF "enabled" \in DOMAIN props THEN props.enabled ELSE TRUE
<1> DEFINE given1     == Chain!Spread(Chain!CONTEXT_DEFAULTS, props)
           idFull     == Chain!computeIdFull(given1)
           id         == Chain!applyLengthLimit(idFull, given1.idLengthLimit)
           outputs    == [id |-> id, idFull |-> idFull, tags |-> Chain!computeTags(given1, id)]
<1>1. Chain!makeContext(props) = Chain!Spread(given1, outputs)
  BY DEF Chain!makeContext
<1>2. DOMAIN outputs = {"id", "idFull", "tags"}
  OBVIOUS
<1>3. "enabled" \in DOMAIN Chain!CONTEXT_DEFAULTS /\ Chain!CONTEXT_DEFAULTS.enabled = TRUE
  <2>1. "enabled" \in DOMAIN Chain!OptionDefaults /\ Chain!OptionDefaults.enabled = TRUE
    BY DEF Chain!OptionDefaults
  <2> DEFINE labels == [l \in Chain!Label |-> << >>]
  <2>2. Chain!CONTEXT_DEFAULTS = Chain!Spread(labels, Chain!OptionDefaults)
    BY DEF Chain!CONTEXT_DEFAULTS
  <2> HIDE DEF labels
  <2>3. QED
    BY <2>1, <2>2 DEF Chain!Spread
<1>4. /\ "enabled" \in DOMAIN given1
      /\ given1.enabled = IF "enabled" \in DOMAIN props THEN props.enabled ELSE TRUE
  <2> HIDE DEF idFull, id, outputs
  <2>1. QED
    BY <1>3 DEF Chain!Spread
<1> HIDE DEF given1, outputs
<1>5. QED
  BY <1>1, <1>2, <1>4 DEF Chain!Spread

LEMMA ExtendedEnabled ==
  ASSUME NEW base, NEW overrides
  PROVE  Chain!extendContext(base, overrides).enabled
           = (base.enabled /\ Chain!Given(overrides, "enabled", TRUE))
<1> DEFINE replaced == [f \in Chain!ReplacedField |-> Chain!Given(overrides, f, base[f])]
           labels   == [l \in Chain!Label |-> IF Chain!Given(overrides, l, << >>) # << >>
                                              THEN overrides[l] ELSE base[l]]
           merged   == [enabled    |-> base.enabled /\ Chain!Given(overrides, "enabled", TRUE),
                        attributes |-> base.attributes \o Chain!Given(overrides, "attributes", << >>),
                        tags       |-> Chain!Spread(base.tags,
                                                    Chain!Given(overrides, "tags", Chain!EmptyMap)),
                        additionalTagMap |->
                          Chain!Spread(base.additionalTagMap,
                                       Chain!Given(overrides, "additionalTagMap", Chain!EmptyMap))]
           props    == Chain!mergeOverrides(base, overrides)
<1>1. props = Chain!Spread(Chain!Spread(replaced, labels), merged)
  BY DEF Chain!mergeOverrides
<1>2. "enabled" \in DOMAIN merged
  OBVIOUS
<1>3. merged.enabled = (base.enabled /\ Chain!Given(overrides, "enabled", TRUE))
  OBVIOUS
<1> HIDE DEF replaced, labels, merged, props
<1>4. "enabled" \in DOMAIN props /\ props.enabled = merged.enabled
  BY <1>1, <1>2 DEF Chain!Spread
<1>5. Chain!extendContext(base, overrides) = Chain!makeContext(props)
  BY DEF Chain!extendContext, props
<1>6. QED
  BY <1>3, <1>4, <1>5, MadeEnabled

\* A context is enabled exactly when nothing on its path was told otherwise.
NodeSticky(i) ==
  /\ nodes[i].up \subseteq 1..(i - 1)
  /\ isEnabled(nodes[i].ctx) =>
       \A j \in Chain!GivenOn(i, "enabled") : nodes[j].args.enabled
  /\ ~ isEnabled(nodes[i].ctx) =>
       \E j \in Chain!GivenOn(i, "enabled") : ~ nodes[j].args.enabled

Sticky == \A i \in DOMAIN nodes : NodeSticky(i)

(* Contexts are only added, and each is as it was made.                    *)
LEMMA ContextAdded ==
  ASSUME IsList(nodes), NEW n, nodes' = Append(nodes, n)
  PROVE  /\ DOMAIN nodes = 1..Len(nodes) /\ Len(nodes) \in Nat
         /\ DOMAIN nodes' = 1..(Len(nodes) + 1)
         /\ \A i \in DOMAIN nodes : i \in DOMAIN nodes' /\ nodes'[i] = nodes[i]
         /\ nodes'[Len(nodes) + 1] = n
<1> DEFINE S == ToSet(nodes) \cup {n}
<1>1. nodes \in Seq(ToSet(nodes)) /\ ToSet(nodes) \subseteq S /\ n \in S
  BY DEF IsList
<1> HIDE DEF S
<1>2. nodes \in Seq(S)
  BY <1>1
<1>3. QED
  BY <1>1, <1>2

LEMMA StickyStays ==
  ASSUME Sticky, NEW i \in DOMAIN nodes, IsList(nodes),
         \A j \in DOMAIN nodes : nodes'[j] = nodes[j]
  PROVE  NodeSticky(i)' /\ \A f : Chain!GivenOn(i, f)' = Chain!GivenOn(i, f)
<1>1. DOMAIN nodes = 1..Len(nodes) /\ Len(nodes) \in Nat
  BY DEF IsList
<1>2. NodeSticky(i)
  BY DEF Sticky
<1>3. nodes'[i] = nodes[i] /\ nodes[i].up \cup {i} \subseteq DOMAIN nodes
  BY <1>1, <1>2 DEF NodeSticky
<1>4. \A j \in nodes[i].up \cup {i} : nodes'[j] = nodes[j]
  BY <1>3
<1>5. \A f : Chain!GivenOn(i, f)' = Chain!GivenOn(i, f)
  BY <1>3, <1>4 DEF Chain!GivenOn, Chain!Path
<1>6. \A j \in Chain!GivenOn(i, "enabled") : nodes'[j] = nodes[j]
  BY <1>4 DEF Chain!GivenOn, Chain!Path
<1>7. QED
  BY <1>2, <1>3, <1>5, <1>6 DEF NodeSticky

(* A root.                                                                 *)
LEMMA MakeSticky ==
  ASSUME IsList(nodes), Sticky, NEW props, Chain!Make(props)
  PROVE  Sticky'
<1> DEFINE n == [up |-> {}, args |-> props, ctx |-> Chain!makeContext(props)]
<1>0. PICK k : k = Len(nodes) + 1
  OBVIOUS
<1>1. nodes' = Append(nodes, n)
  BY DEF Chain!Make
<1>2. n.up = {} /\ n.args = props /\ n.ctx = Chain!makeContext(props)
  OBVIOUS
<1> HIDE DEF n
<1>3. /\ DOMAIN nodes = 1..Len(nodes) /\ Len(nodes) \in Nat
      /\ DOMAIN nodes' = 1..k
      /\ \A i \in DOMAIN nodes : i \in DOMAIN nodes' /\ nodes'[i] = nodes[i]
      /\ nodes'[k] = n
  BY <1>0, <1>1, ContextAdded
<1>4. ASSUME NEW i \in DOMAIN nodes PROVE NodeSticky(i)'
  BY <1>3, <1>4, StickyStays
<1>5. NodeSticky(k)'
  <2>1. nodes'[k].up = {} /\ nodes'[k].args = props /\ nodes'[k].ctx = Chain!makeContext(props)
    BY <1>2, <1>3
  <2>2. ASSUME isEnabled(nodes'[k].ctx), NEW j \in Chain!GivenOn(k, "enabled")'
        PROVE  nodes'[j].args.enabled
    <3>1. j = k /\ "enabled" \in DOMAIN props
      BY <2>1 DEF Chain!GivenOn, Chain!Path
    <3>2. Chain!makeContext(props).enabled = props.enabled
      BY <3>1, MadeEnabled
    <3>3. QED
      BY <2>1, <2>2, <3>1, <3>2 DEF isEnabled
  <2>3. ASSUME ~ isEnabled(nodes'[k].ctx)
        PROVE  \E j \in Chain!GivenOn(k, "enabled")' : ~ nodes'[j].args.enabled
    <3>1. ~ Chain!makeContext(props).enabled
      BY <2>1, <2>3, Zenon DEF isEnabled
    <3>2. "enabled" \in DOMAIN props /\ ~ props.enabled
      BY <3>1, MadeEnabled
    <3>3. k \in Chain!GivenOn(k, "enabled")' /\ ~ nodes'[k].args.enabled
      BY <2>1, <3>2 DEF Chain!GivenOn, Chain!Path
    <3>4. QED
      BY <3>3
  <2>4. QED
    BY <2>1, <2>2, <2>3 DEF NodeSticky
<1>6. ASSUME NEW i \in DOMAIN nodes' PROVE NodeSticky(i)'
  <2>1. i \in DOMAIN nodes \/ i = k
    BY <1>0, <1>3
  <2>2. QED
    BY <1>4, <1>5, <2>1
<1>7. QED
  BY <1>6 DEF Sticky

(* An extension: disabled if its base is, or if told to.                   *)
LEMMA ExtendSticky ==
  ASSUME IsList(nodes), Sticky, NEW b \in DOMAIN nodes, NEW overrides, Chain!Extend(b, overrides)
  PROVE  Sticky'
<1> DEFINE n == [up |-> nodes[b].up \cup {b}, args |-> overrides,
                 ctx |-> Chain!extendContext(nodes[b].ctx, overrides)]
<1>0. PICK k : k = Len(nodes) + 1
  OBVIOUS
<1>1. nodes' = Append(nodes, n)
  BY DEF Chain!Extend
<1>2. /\ n.up = nodes[b].up \cup {b} /\ n.args = overrides
      /\ n.ctx = Chain!extendContext(nodes[b].ctx, overrides)
  OBVIOUS
<1> HIDE DEF n
<1>3. /\ DOMAIN nodes = 1..Len(nodes) /\ Len(nodes) \in Nat
      /\ DOMAIN nodes' = 1..k
      /\ \A i \in DOMAIN nodes : i \in DOMAIN nodes' /\ nodes'[i] = nodes[i]
      /\ nodes'[k] = n
  BY <1>0, <1>1, ContextAdded
<1>4. ASSUME NEW i \in DOMAIN nodes PROVE NodeSticky(i)'
  BY <1>3, <1>4, StickyStays
<1>5. NodeSticky(b) /\ b \in Nat /\ b <= Len(nodes)
  BY <1>3 DEF Sticky
<1>6. NodeSticky(k)'
  <2>1. /\ nodes'[k].up = nodes[b].up \cup {b} /\ nodes'[k].args = overrides
        /\ nodes'[k].ctx = Chain!extendContext(nodes[b].ctx, overrides)
    BY <1>2, <1>3
  <2>2. nodes'[k].up \subseteq 1..(k - 1)
    BY <1>0, <1>3, <1>5, <2>1 DEF NodeSticky
  <2>3. ASSUME isEnabled(nodes'[k].ctx), NEW j \in Chain!GivenOn(k, "enabled")'
        PROVE  nodes'[j].args.enabled
    <3>1. isEnabled(nodes[b].ctx) /\ Chain!Given(overrides, "enabled", TRUE)
      <4>1. Chain!extendContext(nodes[b].ctx, overrides).enabled
        BY <2>1, <2>3, Zenon DEF isEnabled
      <4>2. Chain!extendContext(nodes[b].ctx, overrides).enabled
              = (nodes[b].ctx.enabled /\ Chain!Given(overrides, "enabled", TRUE))
        BY ExtendedEnabled
      <4>3. nodes[b].ctx.enabled /\ Chain!Given(overrides, "enabled", TRUE)
        BY <4>1, <4>2, Zenon
      <4>4. QED
        BY <4>3 DEF isEnabled
    <3>2. CASE j = k
      <4>1. "enabled" \in DOMAIN overrides
        BY <2>1, <3>2 DEF Chain!GivenOn
      <4>2. QED
        BY <2>1, <3>1, <3>2, <4>1 DEF Chain!Given
    <3>3. CASE j # k
      <4>1. j \in nodes[b].up \cup {b} /\ "enabled" \in DOMAIN nodes'[j].args
        BY <2>1, <3>3 DEF Chain!GivenOn, Chain!Path
      <4>2. j \in DOMAIN nodes
        BY <1>3, <1>5, <4>1 DEF NodeSticky
      <4>3. nodes'[j] = nodes[j]
        BY <1>3, <4>2
      <4>4. j \in Chain!GivenOn(b, "enabled")
        BY <4>1, <4>3 DEF Chain!GivenOn, Chain!Path
      <4>5. QED
        BY <1>5, <3>1, <4>3, <4>4 DEF NodeSticky
    <3>4. QED
      BY <3>2, <3>3
  <2>4. ASSUME ~ isEnabled(nodes'[k].ctx)
        PROVE  \E j \in Chain!GivenOn(k, "enabled")' : ~ nodes'[j].args.enabled
    <3>1. ~ isEnabled(nodes[b].ctx) \/ ~ Chain!Given(overrides, "enabled", TRUE)
      <4>1. ~ Chain!extendContext(nodes[b].ctx, overrides).enabled
        BY <2>1, <2>4, Zenon DEF isEnabled
      <4>2. Chain!extendContext(nodes[b].ctx, overrides).enabled
              = (nodes[b].ctx.enabled /\ Chain!Given(overrides, "enabled", TRUE))
        BY ExtendedEnabled
      <4>3. ~ (nodes[b].ctx.enabled /\ Chain!Given(overrides, "enabled", TRUE))
        BY <4>1, <4>2, Zenon
      <4>4. QED
        BY <4>3 DEF isEnabled
    <3>2. CASE ~ Chain!Given(overrides, "enabled", TRUE)
      <4>1. "enabled" \in DOMAIN overrides /\ ~ overrides.enabled
        BY <3>2 DEF Chain!Given
      <4>2. k \in Chain!GivenOn(k, "enabled")' /\ ~ nodes'[k].args.enabled
        BY <2>1, <4>1 DEF Chain!GivenOn, Chain!Path
      <4>3. QED
        BY <4>2
    <3>3. CASE ~ isEnabled(nodes[b].ctx)
      <4>1. PICK j \in Chain!GivenOn(b, "enabled") : ~ nodes[j].args.enabled
        BY <1>5, <3>3 DEF NodeSticky
      <4>2. j \in nodes[b].up \cup {b} /\ "enabled" \in DOMAIN nodes[j].args
        BY DEF Chain!GivenOn, Chain!Path
      <4>3. j \in DOMAIN nodes
        BY <1>3, <1>5, <4>2 DEF NodeSticky
      <4>4. nodes'[j] = nodes[j]
        BY <1>3, <4>3
      <4>5. j \in Chain!GivenOn(k, "enabled")'
        BY <2>1, <4>2, <4>4 DEF Chain!GivenOn, Chain!Path
      <4>6. QED
        BY <4>1, <4>4, <4>5
    <3>4. QED
      BY <3>1, <3>2, <3>3
  <2>5. QED
    BY <2>2, <2>3, <2>4 DEF NodeSticky
<1>7. ASSUME NEW i \in DOMAIN nodes' PROVE NodeSticky(i)'
  <2>1. i \in DOMAIN nodes \/ i = k
    BY <1>0, <1>3
  <2>2. QED
    BY <1>4, <1>6, <2>1
<1>8. QED
  BY <1>7 DEF Sticky

\* Every resource has an owner, the lowest of the constructs of the app above it, and the
\* owner's context is enabled.
OwnedBy(p, c) ==
  /\ IsPrefix(c, p)
  /\ isEnabled(nodes[given[c].ctx].ctx)
  /\ \A d \in DOMAIN given : IsPrefix(d, p) => IsPrefix(d, c)

Owned ==
  \A p \in DOMAIN tree : tree[p].type # "Construct" => \E c \in DOMAIN given : OwnedBy(p, c)

LEMMA OwnedStays ==
  ASSUME Inv, Inv', Owned, NewConstruct
  PROVE  Owned'
<1>1. PICK self \in Free, i \in DOMAIN nodes : \E class, props : Constructs(self, i, class, props)
  BY ConstructStep
<1>2. PICK class, props :
        /\ Grown(self, tree, tree') /\ self \in DOMAIN tree'
        /\ ~ isEnabled(nodes[i].ctx) => \A p \in DOMAIN tree' \ DOMAIN tree : tree'[p].type = "Construct"
        /\ given' = Spread(given, [p \in {self} |-> [class |-> class, ctx |-> i, props |-> props]])
        /\ nodes' = nodes
  BY <1>1 DEF Constructs
<1>3. IsList(self) /\ self \notin DOMAIN tree
  BY FreeIs DEF Inv
<1>4. /\ DOMAIN given' = DOMAIN given \cup {self}
      /\ given'[self].ctx = i
      /\ \A c \in DOMAIN given : given'[c] = given[c]
  <2> DEFINE new == [p \in {self} |-> [class |-> class, ctx |-> i, props |-> props]]
  <2>1. DOMAIN new = {self} /\ new[self].ctx = i
    OBVIOUS
  <2> HIDE DEF new
  <2>2. given' = [k \in DOMAIN given \cup DOMAIN new |-> IF k \in DOMAIN new THEN new[k] ELSE given[k]]
    BY <1>2 DEF Spread, new
  <2>3. self \notin DOMAIN given
    BY <1>3 DEF Inv
  <2>4. QED
    BY <2>1, <2>2, <2>3
<1>5. SUFFICES ASSUME NEW p \in DOMAIN tree', tree'[p].type # "Construct"
               PROVE  \E c \in DOMAIN given' : OwnedBy(p, c)'
  BY DEF Owned
<1>6. CASE p \in DOMAIN tree
  <2>1. tree'[p] = tree[p]
    BY <1>2, <1>6 DEF Grown
  <2>2. PICK c \in DOMAIN given : OwnedBy(p, c)
    BY <1>5, <1>6, <2>1 DEF Owned
  <2>3. ~ IsPrefix(self, p)
    BY <1>3, <1>6, NothingBelowFree DEF Inv
  <2>4. OwnedBy(p, c)'
    BY <1>2, <1>4, <2>2, <2>3 DEF OwnedBy
  <2>5. QED
    BY <1>4, <2>2, <2>4
<1>7. CASE p \notin DOMAIN tree
  <2>1. IsPrefix(self, p) /\ isEnabled(nodes[i].ctx)
    BY <1>2, <1>5, <1>7 DEF Grown
  <2>2. IsList(p)
    BY <1>2 DEF Grown, Rooted
  <2>3. ASSUME NEW d \in DOMAIN given', IsPrefix(d, p) PROVE IsPrefix(d, self)
    <3>1. CASE d = self
      BY <1>3, <3>1, AboveItself
    <3>2. CASE d \in DOMAIN given
      <4>1. d \in DOMAIN tree /\ IsList(d)
        BY <3>2 DEF Inv, Rooted
      <4>2. ~ IsPrefix(self, d)
        BY <1>3, <4>1, NothingBelowFree DEF Inv
      <4>3. QED
        BY <1>3, <2>1, <2>2, <2>3, <4>1, <4>2, AboveCompare
    <3>3. QED
      BY <1>4, <3>1, <3>2
  <2>4. OwnedBy(p, self)'
    BY <1>2, <1>4, <2>1, <2>3 DEF OwnedBy
  <2>5. QED
    BY <1>4, <2>4
<1>8. QED
  BY <1>6, <1>7

LEMMA SwitchHolds == Spec => [](Sticky /\ Owned)
<1>1. Init => Sticky /\ Owned
  <2> SUFFICES ASSUME Init PROVE Sticky /\ Owned
    OBVIOUS
  <2>1. nodes = << >> /\ DOMAIN tree = {App} /\ tree[App] = Construct
    BY DEF Init, Chain!Init
  <2>2. QED
    BY <2>1 DEF Sticky, Owned, Construct, Resource
<1>2. Inv /\ Inv' /\ Sticky /\ Owned /\ [Next]_appVars => Sticky' /\ Owned'
  <2> SUFFICES ASSUME Inv, Inv', Sticky, Owned, [Next]_appVars PROVE Sticky' /\ Owned'
    OBVIOUS
  <2>1. CASE UseContexts
    <3>1. UNCHANGED <<tree, given, failed>> /\ Chain!Next /\ IsList(nodes)
      BY <2>1 DEF UseContexts, Inv
    <3>2. Sticky'
      BY <3>1, MakeSticky, ExtendSticky DEF Chain!Next, Chain!Bridge
    <3>3. PICK n : nodes' = Append(nodes, n)
      BY <3>1 DEF Chain!Next, Chain!Make, Chain!Bridge, Chain!Extend
    <3>4. \A i \in DOMAIN nodes : nodes'[i] = nodes[i]
      BY <3>1, <3>3, ContextAdded
    <3>5. \A c \in DOMAIN given : nodes'[given[c].ctx] = nodes[given[c].ctx]
      BY <3>4 DEF Inv
    <3>6. Owned'
      BY <3>1, <3>5 DEF Owned, OwnedBy
    <3>7. QED
      BY <3>2, <3>6
  <2>2. CASE NewConstruct
    <3>1. nodes' = nodes
      BY <2>2, ConstructStep DEF Constructs
    <3>2. Sticky'
      BY <3>1 DEF Sticky, NodeSticky, Chain!GivenOn, Chain!Path
    <3>3. QED
      BY <2>2, <3>2, OwnedStays
  <2>3. CASE TagApp
    <3>1. UNCHANGED <<nodes, given, failed>>
      BY <2>3 DEF TagApp
    <3>2. PICK tags \in AppTags : tree' = Effect(tree, AddTags(App, tags))
      BY <2>3 DEF TagApp
    <3>3. tree' = [tree EXCEPT ![App].adds = Spread(@, tags)]
      BY <3>2 DEF Effect, AddTags
    <3>4. DOMAIN tree' = DOMAIN tree /\ \A p \in DOMAIN tree : tree'[p].type = tree[p].type
      BY <3>3 DEF Inv, NodesOK, NodeFields
    <3>5. Sticky'
      BY <3>1 DEF Sticky, NodeSticky, Chain!GivenOn, Chain!Path
    <3>6. Owned'
      BY <3>1, <3>4 DEF Owned, OwnedBy
    <3>7. QED
      BY <3>5, <3>6
  <2>4. CASE UNCHANGED appVars
    <3>1. UNCHANGED <<nodes, tree, given>>
      BY <2>4 DEF appVars
    <3>2. QED
      BY <3>1 DEF Sticky, NodeSticky, Chain!GivenOn, Chain!Path, Owned, OwnedBy
  <2>5. QED
    BY <2>1, <2>2, <2>3, <2>4 DEF Next
<1>3. QED
  BY <1>1, <1>2, InvHolds, PTL DEF Spec

\* What a construct owes: a resource of its own, unless its constructor threw, its context
\* is disabled or it was asked for nothing.
Paid(c) ==
  \/ c \in failed \/ ~ isEnabled(Ctx(c)) \/ AsksForNothing(given[c].class, Props(c))
  \/ \E p \in DOMAIN tree : tree[p].type # "Construct" /\ OwnedBy(p, c)

AllPaid == \A c \in DOMAIN given : Paid(c)

LEMMA ConstructPays ==
  ASSUME Inv, Inv', Owned, AllPaid, NewConstruct
  PROVE  AllPaid'
<1>1. PICK self \in Free, i \in DOMAIN nodes : \E class, props : Constructs(self, i, class, props)
  BY ConstructStep
<1>2. PICK class, props :
        /\ Grown(self, tree, tree') /\ self \in DOMAIN tree'
        /\ given' = Spread(given, [p \in {self} |-> [class |-> class, ctx |-> i, props |-> props]])
        /\ failed \subseteq failed' /\ nodes' = nodes
        /\ isEnabled(nodes[i].ctx) /\ ~ AsksForNothing(class, props) /\ self \notin failed'
             => \E p \in DOMAIN tree' \ DOMAIN tree : tree'[p].type # "Construct"
  BY <1>1 DEF Constructs
<1>3. IsList(self) /\ self \notin DOMAIN tree
  BY FreeIs DEF Inv
<1>4. /\ DOMAIN given' = DOMAIN given \cup {self}
      /\ given'[self].ctx = i /\ given'[self].class = class /\ given'[self].props = props
      /\ \A c \in DOMAIN given : given'[c] = given[c]
  <2> DEFINE new == [p \in {self} |-> [class |-> class, ctx |-> i, props |-> props]]
  <2>1. DOMAIN new = {self} /\ new[self].ctx = i /\ new[self].class = class /\ new[self].props = props
    OBVIOUS
  <2> HIDE DEF new
  <2>2. given' = [k \in DOMAIN given \cup DOMAIN new |-> IF k \in DOMAIN new THEN new[k] ELSE given[k]]
    BY <1>2 DEF Spread, new
  <2>3. self \notin DOMAIN given
    BY <1>3 DEF Inv
  <2>4. QED
    BY <2>1, <2>2, <2>3
<1>5. Owned'
  BY OwnedStays
<1>6. Paid(self)'
  <2>1. Ctx(self)' = nodes[i].ctx /\ Props(self)' = props
    BY <1>2, <1>4 DEF Ctx, Props
  <2>2. SUFFICES ASSUME self \notin failed', isEnabled(nodes[i].ctx), ~ AsksForNothing(class, props)
                 PROVE  \E p \in DOMAIN tree' : tree'[p].type # "Construct" /\ OwnedBy(p, self)'
    BY <1>4, <2>1 DEF Paid
  <2>3. PICK p \in DOMAIN tree' \ DOMAIN tree : tree'[p].type # "Construct"
    BY <1>2, <2>2
  <2>4. PICK c \in DOMAIN given' : OwnedBy(p, c)'
    BY <1>5, <2>3 DEF Owned
  <2>5. IsPrefix(self, p) /\ IsPrefix(c, p) /\ IsPrefix(self, c)
    BY <1>2, <1>4, <2>3, <2>4 DEF Grown, OwnedBy
  <2>6. c \notin DOMAIN given
    <3>1. c \in DOMAIN given => c \in DOMAIN tree
      BY DEF Inv
    <3>2. QED
      BY <1>3, <2>5, <3>1, NothingBelowFree DEF Inv
  <2>7. c = self
    BY <1>4, <2>6
  <2>8. QED
    BY <2>3, <2>4, <2>7
<1>7. ASSUME NEW c \in DOMAIN given PROVE Paid(c)'
  <2>1. given'[c] = given[c] /\ nodes' = nodes /\ (c \in failed => c \in failed')
    BY <1>2, <1>4
  <2>2. Ctx(c)' = Ctx(c) /\ Props(c)' = Props(c)
    BY <2>1 DEF Ctx, Props
  <2>3. ASSUME NEW p \in DOMAIN tree, tree[p].type # "Construct", OwnedBy(p, c)
        PROVE  p \in DOMAIN tree' /\ tree'[p].type # "Construct" /\ OwnedBy(p, c)'
    <3>1. p \in DOMAIN tree' /\ tree'[p] = tree[p]
      BY <1>2 DEF Grown
    <3>2. ~ IsPrefix(self, p)
      BY <1>3, NothingBelowFree DEF Inv
    <3>3. OwnedBy(p, c)'
      BY <1>4, <2>1, <2>3, <3>2 DEF OwnedBy
    <3>4. QED
      BY <2>3, <3>1, <3>3
  <2>4. Paid(c)
    BY DEF AllPaid
  <2>5. CASE \E p \in DOMAIN tree : tree[p].type # "Construct" /\ OwnedBy(p, c)
    BY <2>3, <2>5 DEF Paid
  <2>6. CASE c \in failed \/ ~ isEnabled(Ctx(c)) \/ AsksForNothing(given[c].class, Props(c))
    BY <2>1, <2>2, <2>6 DEF Paid
  <2>7. QED
    BY <2>4, <2>5, <2>6 DEF Paid
<1>8. QED
  BY <1>4, <1>6, <1>7 DEF AllPaid

LEMMA PaidHolds == Spec => []AllPaid
<1>1. Init => AllPaid
  <2> SUFFICES ASSUME Init PROVE AllPaid
    OBVIOUS
  <2>1. DOMAIN given = {}
    BY DEF Init, EmptyMap
  <2>2. QED
    BY <2>1 DEF AllPaid
<1>2. Inv /\ Inv' /\ Owned /\ AllPaid /\ [Next]_appVars => AllPaid'
  <2> SUFFICES ASSUME Inv, Inv', Owned, AllPaid, [Next]_appVars PROVE AllPaid'
    OBVIOUS
  <2>1. CASE UseContexts
    <3>1. UNCHANGED <<tree, given, failed>> /\ Chain!Next /\ IsList(nodes)
      BY <2>1 DEF UseContexts, Inv
    <3>2. PICK n : nodes' = Append(nodes, n)
      BY <3>1 DEF Chain!Next, Chain!Make, Chain!Bridge, Chain!Extend
    <3>3. \A i \in DOMAIN nodes : nodes'[i] = nodes[i]
      BY <3>1, <3>2, ContextAdded
    <3>4. \A c \in DOMAIN given : Ctx(c)' = Ctx(c) /\ Props(c)' = Props(c)
      BY <3>1, <3>3 DEF Inv, Ctx, Props
    <3>5. \A c \in DOMAIN given, p \in DOMAIN tree : OwnedBy(p, c) => OwnedBy(p, c)'
      BY <3>1, <3>3 DEF Inv, OwnedBy
    <3>6. QED
      BY <3>1, <3>4, <3>5 DEF AllPaid, Paid
  <2>2. CASE NewConstruct
    BY <2>2, ConstructPays
  <2>3. CASE TagApp
    <3>1. UNCHANGED <<nodes, given, failed>>
      BY <2>3 DEF TagApp
    <3>2. PICK tags \in AppTags : tree' = Effect(tree, AddTags(App, tags))
      BY <2>3 DEF TagApp
    <3>3. tree' = [tree EXCEPT ![App].adds = Spread(@, tags)]
      BY <3>2 DEF Effect, AddTags
    <3>4. DOMAIN tree' = DOMAIN tree /\ \A p \in DOMAIN tree : tree'[p].type = tree[p].type
      BY <3>3 DEF Inv, NodesOK, NodeFields
    <3>5. QED
      BY <3>1, <3>4 DEF AllPaid, Paid, OwnedBy, Ctx, Props
  <2>4. CASE UNCHANGED appVars
    <3>1. UNCHANGED <<nodes, tree, given, failed>>
      BY <2>4 DEF appVars
    <3>2. QED
      BY <3>1 DEF AllPaid, Paid, OwnedBy, Ctx, Props
  <2>5. QED
    BY <2>1, <2>2, <2>3, <2>4 DEF Next
<1>3. QED
  BY <1>1, <1>2, InvHolds, SwitchHolds, PTL DEF Spec

(* The construct that owns a resource is the one whose constructor made it. *)
LEMMA OwnerIs ==
  ASSUME Inv, NEW p \in DOMAIN tree, NEW c \in DOMAIN given, OwnedBy(p, c)
  PROVE  Owner(p) = c
<1> DEFINE Fits(d) == IsPrefix(d, p) /\ \A e \in DOMAIN given : IsPrefix(e, p) => Len(e) <= Len(d)
<1>1. \A d \in DOMAIN given : IsList(d)
  BY DEF Inv, Rooted
<1>2. ASSUME NEW d \in DOMAIN given, IsPrefix(d, p)
      PROVE  Len(d) <= Len(c) /\ (Len(c) <= Len(d) => d = c)
  <2>1. PICK S : d \in Seq(S) /\ c \in Seq(S)
    BY <1>1, ListsIn
  <2>2. IsPrefix(d, c)
    BY <1>2 DEF OwnedBy
  <2>3. Len(d) <= Len(c) /\ \A i \in 1..Len(d) : d[i] = c[i]
    BY <2>1, <2>2, PrefixElements
  <2>4. QED
    BY <2>1, <2>3
<1>3. Fits(c)
  BY <1>2 DEF OwnedBy
<1>4. \A d \in DOMAIN given : Fits(d) => d = c
  BY <1>2 DEF OwnedBy
<1>5. Owner(p) = CHOOSE d \in DOMAIN given : Fits(d)
  BY DEF Owner
<1> HIDE DEF Fits
<1>6. QED
  BY <1>3, <1>4, <1>5

-----------------------------------------------------------------------------
(* The tags and the redrive policies of the nodes of a construct.          *)

\* The constructor of c made p.
Mine(p, c) == IsPrefix(c, p) /\ \A d \in DOMAIN given : IsPrefix(d, p) => IsPrefix(d, c)

Marked(c) ==
  /\ tree[c].type = "Construct"
  /\ \A p \in DOMAIN tree : Mine(p, c) =>
       NodeMarked(tree, p, c, contextTags(Ctx(c)), Props(c), c \in failed)

\* Every construct is marked by its own constructor, and only an API that nothing is below
\* loses tags.
TagInv ==
  /\ App \notin DOMAIN given
  /\ tree[App].type = "Construct"
  /\ \A c \in DOMAIN given : Marked(c)
  /\ \A p \in DOMAIN tree \ {App} : tree[Front(p)].removes = {}

LEMMA EmptyIsApp ==
  ASSUME NEW p, IsList(p), Len(p) = 0
  PROVE  p = App
BY DEF IsList, App

LEMMA ConstructTags ==
  ASSUME Inv, TagInv, NewConstruct
  PROVE  TagInv'
<1>1. tree[App].removes = {} /\ \A c \in DOMAIN given : tree[c].removes = {}
  <2>1. App \in DOMAIN tree /\ DOMAIN given \subseteq DOMAIN tree
    BY DEF Inv, Rooted
  <2>2. QED
    BY <2>1 DEF Inv, NodesOK, TagInv, Marked
<1>2. PICK self \in Free, i \in DOMAIN nodes : \E class, props : Constructs(self, i, class, props)
  BY ConstructStep
<1>3. PICK class, props :
        /\ Grown(self, tree, tree') /\ self \in DOMAIN tree'
        /\ given' = Spread(given, [p \in {self} |-> [class |-> class, ctx |-> i, props |-> props]])
        /\ failed \subseteq failed'
        /\ nodes' = nodes
        /\ tree'[self].type = "Construct"
        /\ tree[Front(self)].removes = {} =>
             \A p \in DOMAIN tree' \ DOMAIN tree :
               /\ NodeMarked(tree', p, self, contextTags(nodes[i].ctx), props, self \in failed')
               /\ tree'[Front(p)].removes = {}
  BY <1>2 DEF Constructs
<1>4. /\ IsList(self) /\ self # App /\ self \notin DOMAIN tree
      /\ Front(self) \in {App} \cup DOMAIN given
  BY FreeIs DEF Inv
<1>5. \A p \in DOMAIN tree' \ DOMAIN tree :
        /\ NodeMarked(tree', p, self, contextTags(nodes[i].ctx), props, self \in failed')
        /\ tree'[Front(p)].removes = {}
  BY <1>1, <1>3, <1>4
<1>6. /\ DOMAIN given' = DOMAIN given \cup {self}
      /\ given'[self].ctx = i /\ given'[self].props = props
      /\ \A c \in DOMAIN given : given'[c] = given[c]
  <2> DEFINE new == [p \in {self} |-> [class |-> class, ctx |-> i, props |-> props]]
  <2>1. DOMAIN new = {self} /\ new[self].ctx = i /\ new[self].props = props
    OBVIOUS
  <2> HIDE DEF new
  <2>2. given' = [k \in DOMAIN given \cup DOMAIN new |-> IF k \in DOMAIN new THEN new[k] ELSE given[k]]
    BY <1>3 DEF Spread, new
  <2>3. self \notin DOMAIN given
    BY <1>4 DEF Inv
  <2>4. QED
    BY <2>1, <2>2, <2>3
<1>7. Rooted(tree') /\ DOMAIN tree \subseteq DOMAIN tree' /\ \A p \in DOMAIN tree : tree'[p] = tree[p]
  BY <1>3 DEF Grown
<1>8. ASSUME NEW p \in DOMAIN tree' \ DOMAIN tree PROVE IsList(p) /\ IsPrefix(self, p)
  BY <1>3 DEF Grown, Rooted
<1>9. App \notin DOMAIN given' /\ tree'[App].type = "Construct"
  BY <1>4, <1>6, <1>7 DEF TagInv, Inv, Rooted
<1>10. \A p \in DOMAIN tree' \ {App} : tree'[Front(p)].removes = {}
  <2>1. \A p \in DOMAIN tree \ {App} : Front(p) \in DOMAIN tree
    BY DEF Inv, Rooted
  <2>2. QED
    BY <1>5, <1>7, <2>1 DEF TagInv
<1>11. Marked(self)'
  <2>1. ASSUME NEW p \in DOMAIN tree', IsPrefix(self, p)
        PROVE  NodeMarked(tree', p, self, contextTags(nodes'[i].ctx), props, self \in failed')
    <3>1. p \notin DOMAIN tree
      BY <1>4, <2>1, NothingBelowFree DEF Inv
    <3>2. QED
      BY <1>3, <1>5, <3>1
  <2>2. QED
    BY <1>3, <1>6, <2>1 DEF Marked, Mine, Ctx, Props
<1>12. ASSUME NEW c \in DOMAIN given PROVE Marked(c)'
  <2>1. c \in DOMAIN tree /\ IsList(c) /\ Marked(c)
    BY DEF Inv, Rooted, TagInv
  <2>2. ~ IsPrefix(self, c)
    BY <1>4, <2>1, NothingBelowFree DEF Inv
  <2>3. /\ tree'[c] = tree[c] /\ given'[c] = given[c] /\ (c \in failed => c \in failed')
    BY <1>3, <1>6, <1>7, <2>1
  <2>4. ASSUME c \o <<"Dlq">> \in DOMAIN tree', tree'[c \o <<"Dlq">>].type = "Queue"
        PROVE  c \o <<"Dlq">> \in DOMAIN tree
    <3> DEFINE dlq == c \o <<"Dlq">>
    <3>1. IsList(dlq) /\ dlq # App /\ Front(dlq) = c
      BY <2>1, ChildPath
    <3> HIDE DEF dlq
    <3>2. SUFFICES ASSUME dlq \notin DOMAIN tree PROVE FALSE
      BY DEF dlq
    <3>3. IsPrefix(self, dlq)
      BY <1>8, <2>4, <3>2 DEF dlq
    <3>4. dlq = self
      BY <1>4, <2>2, <3>1, <3>3, AboveParent
    <3>5. QED
      BY <1>3, <2>4, <3>4 DEF dlq
  <2>5. ASSUME NEW p \in DOMAIN tree', Mine(p, c)'
        PROVE  NodeMarked(tree, p, c, contextTags(Ctx(c)), Props(c), c \in failed) /\ p \in DOMAIN tree
    <3>1. IsPrefix(c, p) /\ \A d \in DOMAIN given' : IsPrefix(d, p) => IsPrefix(d, c)
      BY <2>5 DEF Mine
    <3>2. ~ IsPrefix(self, p)
      BY <1>6, <2>2, <3>1
    <3>3. p \in DOMAIN tree
      BY <1>8, <3>2
    <3>4. Mine(p, c)
      BY <1>6, <3>1 DEF Mine
    <3>5. QED
      BY <2>1, <3>3, <3>4 DEF Marked
  <2>6. ASSUME NEW p \in DOMAIN tree', Mine(p, c)'
        PROVE  NodeMarked(tree', p, c, contextTags(Ctx(c)), Props(c), c \in failed')
    <3>1. tree'[p] = tree[p]
      BY <1>7, <2>5, <2>6
    <3>2. \A q \in DOMAIN tree : tree'[q].type = tree[q].type
      BY <1>7
    <3>3. QED
      BY <2>3, <2>4, <2>5, <2>6, <3>1, <3>2 DEF NodeMarked
  <2>7. Ctx(c)' = Ctx(c) /\ Props(c)' = Props(c)
    BY <1>3, <2>3 DEF Ctx, Props
  <2>8. QED
    BY <2>1, <2>3, <2>6, <2>7 DEF Marked
<1>13. QED
  BY <1>6, <1>9, <1>10, <1>11, <1>12 DEF TagInv

LEMMA TagInvHolds == Spec => []TagInv
<1>1. Init => TagInv
  <2> SUFFICES ASSUME Init PROVE TagInv
    OBVIOUS
  <2>1. tree = [p \in {App} |-> Construct] /\ given = EmptyMap
    BY DEF Init
  <2>2. DOMAIN given = {} /\ DOMAIN tree = {App} /\ tree[App].type = "Construct"
    BY <2>1 DEF EmptyMap, Construct, Resource
  <2>3. QED
    BY <2>2 DEF TagInv
<1>2. Inv /\ TagInv /\ [Next]_appVars => TagInv'
  <2> SUFFICES ASSUME Inv, TagInv, [Next]_appVars PROVE TagInv'
    OBVIOUS
  <2>1. CASE UseContexts
    <3>1. UNCHANGED <<tree, given, failed>> /\ Chain!Next /\ IsList(nodes)
      BY <2>1 DEF UseContexts, Inv
    <3>2. PICK n : nodes' = Append(nodes, n)
      BY <3>1 DEF Chain!Next, Chain!Make, Chain!Bridge, Chain!Extend
    <3>3. \A i \in DOMAIN nodes : nodes'[i] = nodes[i]
      BY <3>1, <3>2, ContextAdded
    <3>4. \A c \in DOMAIN given : Ctx(c)' = Ctx(c) /\ Props(c)' = Props(c)
      BY <3>1, <3>3 DEF Inv, Ctx, Props
    <3>5. \A c \in DOMAIN given : Marked(c)'
      BY <3>1, <3>4 DEF TagInv, Marked, Mine
    <3>6. QED
      BY <3>1, <3>5 DEF TagInv
  <2>2. CASE NewConstruct
    BY <2>2, ConstructTags
  <2>3. CASE TagApp
    <3>1. UNCHANGED <<nodes, given, failed>>
      BY <2>3 DEF TagApp
    <3>2. PICK tags \in AppTags : tree' = Effect(tree, AddTags(App, tags))
      BY <2>3 DEF TagApp
    <3>3. tree' = [tree EXCEPT ![App].adds = Spread(@, tags)]
      BY <3>2 DEF Effect, AddTags
    <3>4. /\ DOMAIN tree' = DOMAIN tree
          /\ \A p \in DOMAIN tree : /\ p # App => tree'[p] = tree[p]
                                    /\ tree'[p].type = tree[p].type /\ tree'[p].removes = tree[p].removes
      BY <3>3 DEF Inv, NodesOK, NodeFields
    <3>5. ASSUME NEW c \in DOMAIN given PROVE Marked(c)'
      <4>1. Marked(c) /\ c # App /\ c \in DOMAIN tree /\ tree'[c] = tree[c]
        BY <3>4 DEF TagInv, Inv
      <4>2. Ctx(c)' = Ctx(c) /\ Props(c)' = Props(c)
        BY <3>1 DEF Ctx, Props
      <4>3. ASSUME NEW p \in DOMAIN tree, Mine(p, c)
            PROVE  NodeMarked(tree', p, c, contextTags(Ctx(c)), Props(c), c \in failed)
        <5>1. p # App
          <6>1. IsList(c)
            BY <4>1 DEF Inv, Rooted
          <6>2. Len(c) # 0
            BY <4>1, <6>1, EmptyIsApp
          <6>3. IsPrefix(c, p)
            BY <4>3 DEF Mine
          <6>4. Len(c) <= Len(p)
            BY <6>3 DEF IsPrefix
          <6>5. QED
            BY <6>1, <6>2, <6>4, AppIsList DEF IsList
        <5>2. NodeMarked(tree, p, c, contextTags(Ctx(c)), Props(c), c \in failed)
          BY <4>1, <4>3 DEF Marked
        <5>3. QED
          BY <3>4, <4>1, <5>1, <5>2 DEF NodeMarked
      <4>4. \A p \in DOMAIN tree : Mine(p, c)' => Mine(p, c)
        BY <3>1 DEF Mine
      <4>5. QED
        BY <3>1, <3>4, <4>1, <4>2, <4>3, <4>4 DEF Marked
    <3>6. \A p \in DOMAIN tree \ {App} : Front(p) \in DOMAIN tree
      BY DEF Inv, Rooted
    <3>7. QED
      BY <3>1, <3>4, <3>5, <3>6 DEF TagInv, Inv, Rooted
  <2>4. CASE UNCHANGED appVars
    <3>1. UNCHANGED <<nodes, tree, given, failed>>
      BY <2>4 DEF appVars
    <3>2. QED
      BY <3>1 DEF TagInv, Marked, Mine, Ctx, Props
  <2>5. QED
    BY <2>1, <2>2, <2>3, <2>4 DEF Next
<1>3. QED
  BY <1>1, <1>2, InvHolds, PTL DEF Spec

\* Of the nodes above a node, one is the closest.
LEMMA ClosestIs ==
  ASSUME NEW p, IsList(p), NEW A, A # {}, \A q \in A : IsList(q) /\ IsPrefix(q, p)
  PROVE  \E q \in A : \A r \in A : Len(r) <= Len(q)
<1>1. \A q \in A : Len(q) \in Nat /\ Len(q) <= Len(p)
  BY DEF IsList, IsPrefix
<1>2. Len(p) \in Nat
  BY DEF IsList
<1> DEFINE Far == {n \in Nat : \E q \in A : Len(p) - n <= Len(q)}
<1>3. Len(p) \in Far
  BY <1>1, <1>2
<1>4. Far \in SUBSET Nat
  OBVIOUS
<1> HIDE DEF Far
<1>5. PICK n \in Far : n = 0 \/ n - 1 \notin Far
  BY <1>3, <1>4, First
<1>6. PICK q \in A : n \in Nat /\ Len(p) - n <= Len(q)
  BY DEF Far
<1>7. ASSUME NEW r \in A PROVE Len(r) <= Len(q)
  <2>1. CASE n = 0
    BY <1>1, <1>2, <1>6, <2>1
  <2>2. CASE n # 0
    <3>1. n - 1 \in Nat
      BY <1>6, <2>2
    <3>2. ~ (Len(p) - (n - 1) <= Len(r))
      BY <1>5, <2>2, <3>1 DEF Far
    <3>3. QED
      BY <1>1, <1>2, <1>6, <3>2
  <2>3. QED
    BY <2>1, <2>2
<1>8. QED
  BY <1>7

\* Whatever is strictly above a node has a child that is above the node.
LEMMA ChildAbove ==
  ASSUME NEW t, Rooted(t), NEW p \in DOMAIN t, NEW q, IsList(q), IsPrefix(q, p), q # p
  PROVE  \E r \in DOMAIN t \ {App} : Front(r) = q
<1>1. IsList(p)
  BY DEF Rooted
<1>2. PICK S : p \in Seq(S) /\ q \in Seq(S)
  BY <1>1, ListsIn
<1>3. /\ Len(p) \in Nat /\ Len(q) \in Nat /\ Len(q) <= Len(p)
      /\ \A i \in 1..Len(q) : q[i] = p[i]
  BY <1>2, PrefixElements
<1>4. Len(q) # Len(p)
  BY <1>2, <1>3
<1>5. Len(q) + 1 \in 1..Len(p)
  BY <1>3, <1>4
<1> DEFINE x == p[Len(q) + 1]
           r == q \o <<x>>
<1>6. IsList(r) /\ r # App /\ Front(r) = q
  BY ChildPath
<1>7. r \in Seq(S) /\ Len(r) = Len(q) + 1 /\ \A i \in 1..Len(r) : r[i] = p[i]
  <2>1. x \in S
    BY <1>2, <1>5
  <2> HIDE DEF x
  <2>2. r \in Seq(S) /\ Len(r) = Len(q) + 1 /\ (\A i \in 1..Len(q) : r[i] = q[i]) /\ r[Len(q) + 1] = x
    BY <1>2, <2>1
  <2> HIDE DEF r
  <2>3. QED
    BY <1>3, <2>2 DEF x
<1> HIDE DEF r
<1>8. IsPrefix(r, p)
  BY <1>2, <1>3, <1>5, <1>7, PrefixElements
<1>9. r \in DOMAIN t
  BY <1>6, <1>8, AboveIsThere
<1>10. QED
  BY <1>6, <1>9

\* Of a resource of a construct, the tags that are not removed are those of the closest.
LEMMA MineBetween ==
  ASSUME Inv, NEW c \in DOMAIN given, NEW p \in DOMAIN tree, Mine(p, c),
         NEW q \in DOMAIN tree, IsPrefix(q, p), Len(c) <= Len(q)
  PROVE  Mine(q, c)
<1>1. IsList(c) /\ IsList(p) /\ IsList(q) /\ IsPrefix(c, p)
  BY DEF Inv, Rooted, Mine
<1>2. IsPrefix(c, q)
  <2>1. IsPrefix(c, q) \/ IsPrefix(q, c)
    BY <1>1, AboveCompare
  <2>2. CASE IsPrefix(q, c)
    <3>1. PICK S : c \in Seq(S) /\ q \in Seq(S)
      BY <1>1, ListsIn
    <3>2. Len(q) <= Len(c) /\ (\A i \in 1..Len(q) : q[i] = c[i]) /\ Len(q) \in Nat /\ Len(c) \in Nat
      BY <2>2, <3>1, PrefixElements
    <3>3. q = c
      BY <3>1, <3>2
    <3>4. QED
      BY <1>1, <3>3, AboveItself
  <2>3. QED
    BY <2>1, <2>2
<1>3. ASSUME NEW d \in DOMAIN given, IsPrefix(d, q) PROVE IsPrefix(d, c)
  <2>1. IsList(d)
    BY DEF Inv, Rooted
  <2>2. IsPrefix(d, p)
    BY <1>1, <1>3, <2>1, AboveCompare
  <2>3. QED
    BY <2>2 DEF Mine
<1>4. QED
  BY <1>2, <1>3 DEF Mine

-----------------------------------------------------------------------------
(* What the runs check, for every app.                                     *)

(***************************************************************************)
(* The tree is a tree whatever is constructed and whatever throws: every   *)
(* node's parent is there, and so is every construct the app made, with    *)
(* the context it was given; only an API loses tags, and only resources    *)
(* have names (the constructors of packages/*/src).                        *)
(***************************************************************************)
THEOREM TypeCorrect == Spec => []TypeOK
<1>1. Inv => TypeOK
  BY DEF Inv, TypeOK, Rooted, NodesOK, NodeFields
<1>2. QED
  BY <1>1, InvHolds, PTL

(***************************************************************************)
(* No resource of any app, not even one a thrown exception left behind,    *)
(* refers to a resource that is not there or that another construct made:  *)
(* every constructor refers only to what it made before, and nothing later *)
(* comes between a resource and its construct.                             *)
(***************************************************************************)
THEOREM ReferencesAlwaysResolve == Spec => []ReferencesResolve
<1>1. Inv => ReferencesResolve
  <2> SUFFICES ASSUME Inv, NEW p \in Resources,
                      NEW r \in (tree[p].refs \cup tree[p].redrive) \ {External}
               PROVE  r \in Resources /\ Owner(r) = Owner(p)
    BY DEF ReferencesResolve
  <2>1. /\ r \in DOMAIN tree /\ tree[r].type # "Construct"
        /\ \A c \in DOMAIN given : IsPrefix(c, p) <=> IsPrefix(c, r)
    BY DEF Inv, Resolved, Resources
  <2>2. Owner(r) = Owner(p)
    BY <2>1 DEF Owner
  <2>3. QED
    BY <2>1, <2>2 DEF Resources
<1>2. QED
  BY <1>1, InvHolds, PTL

(***************************************************************************)
(* No app can make a resource in a disabled branch: whatever the contexts  *)
(* a construct's context was derived from, in however many steps, if one   *)
(* of them was given enabled = false the construct makes nothing, whatever *)
(* its class and props, even if its constructor throws.                    *)
(***************************************************************************)
THEOREM DisabledBranchIsAlwaysEmpty == Spec => []DisabledBranchIsEmpty
<1>1. Inv /\ Sticky /\ Owned => DisabledBranchIsEmpty
  <2> SUFFICES ASSUME Inv, Sticky, Owned, NEW c \in DOMAIN given, Disabled(c),
                      NEW p \in Resources, Owner(p) = c
               PROVE  FALSE
    BY DEF DisabledBranchIsEmpty, Empty
  <2>1. PICK o \in DOMAIN given : OwnedBy(p, o)
    BY DEF Owned, Resources
  <2>2. o = c
    BY <2>1, OwnerIs DEF Resources
  <2>3. NodeSticky(given[c].ctx)
    BY DEF Sticky, Inv
  <2>4. QED
    BY <2>1, <2>2, <2>3 DEF Disabled, NodeSticky, OwnedBy
<1>2. QED
  BY <1>1, InvHolds, SwitchHolds, PTL

(***************************************************************************)
(* Constructing is local in every app: what was in the tree before a       *)
(* constructor ran is there afterwards as it was, however deep the         *)
(* construct lies and whatever it looks for below itself.                  *)
(***************************************************************************)
THEOREM ConstructionIsAlwaysLocal == Spec => ConstructionIsLocal
<1>1. Inv /\ [Next]_appVars
        => [given' # given => \A p \in DOMAIN tree : p \in DOMAIN tree' /\ tree'[p] = tree[p]]_appVars
  <2> SUFFICES ASSUME Inv, [Next]_appVars, given' # given
               PROVE  \A p \in DOMAIN tree : p \in DOMAIN tree' /\ tree'[p] = tree[p]
    OBVIOUS
  <2>1. NewConstruct
    BY DEF Next, UseContexts, TagApp, appVars
  <2>2. PICK self : Grown(self, tree, tree')
    BY <2>1, ConstructStep DEF Constructs
  <2>3. QED
    BY <2>2 DEF Grown
<1>2. QED
  BY <1>1, InvHolds, PTL DEF Spec, ConstructionIsLocal

(***************************************************************************)
(* No resource loses the tags of its context: whatever the app and the     *)
(* constructs around it add, and whatever a construct around it removes    *)
(* from its own API, each resource of a construct that was not told not to *)
(* tag is synthesised with every tag of the context with the value the     *)
(* context gives it; and an API that has an OpenAPI body with none of them *)
(* (Tags.of(this).add of every constructor, and the removals at            *)
(* http-api-gateway.ts:142-146).                                           *)
(***************************************************************************)
THEOREM OwnTagsAlwaysReachResources == Spec => []OwnTagsReachResources
<1>1. Inv /\ Owned /\ TagInv => OwnTagsReachResources
  <2> SUFFICES ASSUME Inv, Owned, TagInv, NEW p \in Resources, NEW c, c = Owner(p),
                      c \notin failed, Given(Props(c), "tagsEnabled", TRUE)
               PROVE  IF tree[p].type = "Api" /\ Is(Props(c), "openApiBody")
                      THEN DOMAIN TagsOf(tree, p) \cap DOMAIN contextTags(Ctx(c)) = {}
                      ELSE \A k \in DOMAIN contextTags(Ctx(c)) :
                             /\ k \in DOMAIN TagsOf(tree, p)
                             /\ TagsOf(tree, p)[k] = contextTags(Ctx(c))[k]
    BY DEF OwnTagsReachResources
  <2> DEFINE own == contextTags(Ctx(c))
             tags == TagsOf(tree, p)
             above == {q \in DOMAIN tree : IsPrefix(q, p)}
             removed == UNION {tree[q].removes : q \in above}
             adding(k) == {q \in above : k \in DOMAIN tree[q].adds}
             closest(k) == CHOOSE q \in adding(k) : \A r \in adding(k) : Len(r) <= Len(q)
  <2>1. p \in DOMAIN tree /\ tree[p].type # "Construct" /\ IsList(p)
    BY DEF Resources, Inv, Rooted
  <2>2. c \in DOMAIN given /\ Mine(p, c)
    <3>1. PICK o \in DOMAIN given : OwnedBy(p, o)
      BY <2>1 DEF Owned
    <3>2. o = c
      BY <2>1, <3>1, OwnerIs
    <3>3. QED
      BY <3>1, <3>2 DEF OwnedBy, Mine
  <2>3. \A q \in DOMAIN tree : Mine(q, c) => NodeMarked(tree, q, c, own, Props(c), c \in failed)
    BY <2>2 DEF TagInv, Marked
  <2>4. c \in above /\ p \in above /\ \A q \in above : IsList(q)
    BY <2>1, <2>2, AboveItself DEF Mine, Inv, Rooted
  <2>5. /\ DOMAIN tags = (UNION {DOMAIN tree[q].adds : q \in above}) \ removed
        /\ \A k \in DOMAIN tags : tags[k] = tree[closest(k)].adds[k]
    BY DEF TagsOf
  <2>6. DOMAIN own \subseteq DOMAIN tree[c].adds
    BY <2>1, <2>2, <2>3 DEF NodeMarked
  <2>7. ASSUME NEW q \in above, q # p PROVE tree[q].removes = {}
    <3>1. PICK r \in DOMAIN tree \ {App} : Front(r) = q
      BY <2>1, <2>4, <2>7, ChildAbove DEF Inv
    <3>2. QED
      BY <3>1 DEF TagInv
  <2> HIDE DEF tags
  <2>8. CASE tree[p].type = "Api" /\ Is(Props(c), "openApiBody")
    <3>1. DOMAIN own \subseteq tree[p].removes
      BY <2>1, <2>2, <2>3, <2>8 DEF NodeMarked
    <3>2. tree[p].removes \subseteq removed
      BY <2>4
    <3>3. DOMAIN tags \cap DOMAIN own = {}
      BY <2>5, <3>1, <3>2
    <3>4. QED
      BY <2>8, <3>3 DEF tags
  <2>9. CASE ~ (tree[p].type = "Api" /\ Is(Props(c), "openApiBody"))
    <3>1. tree[p].removes = {}
      BY <2>1, <2>2, <2>3, <2>9 DEF NodeMarked, Inv, NodesOK
    <3>2. removed = {}
      BY <2>7, <3>1
    <3>3. ASSUME NEW k \in DOMAIN own PROVE k \in DOMAIN tags /\ tags[k] = own[k]
      <4>1. c \in adding(k)
        BY <2>4, <2>6
      <4>2. k \in DOMAIN tags
        BY <2>4, <2>5, <2>6, <3>2
      <4> DEFINE A == adding(k)
                 q == CHOOSE x \in A : \A r \in A : Len(r) <= Len(x)
      <4>3. \A x \in A : IsList(x) /\ IsPrefix(x, p)
        BY <2>4
      <4>4. A # {}
        BY <4>1
      <4>5. tags[k] = tree[q].adds[k]
        BY <2>5, <4>2
      <4>6. q \in above /\ k \in DOMAIN tree[q].adds /\ Len(c) <= Len(q)
        <5> HIDE DEF A
        <5>1. \E x \in A : \A r \in A : Len(r) <= Len(x)
          BY <2>1, <4>3, <4>4, ClosestIs
        <5>2. q \in A /\ \A r \in A : Len(r) <= Len(q)
          BY <5>1, Zenon
        <5> HIDE DEF q
        <5>3. QED
          BY <4>1, <5>2 DEF A
      <4> HIDE DEF A, q
      <4>7. Mine(q, c)
        BY <2>1, <2>2, <4>6, MineBetween
      <4>8. tree[q].adds[k] = own[k]
        BY <2>3, <4>6, <4>7 DEF NodeMarked
      <4>9. QED
        BY <4>2, <4>5, <4>8
    <3>4. QED
      BY <2>9, <3>3 DEF tags
  <2>10. QED
    BY <2>8, <2>9
<1>2. QED
  BY <1>1, InvHolds, SwitchHolds, TagInvHolds, PTL

(***************************************************************************)
(* In every app, a subscription of an Sns that has a dead-letter queue and *)
(* whose constructor returned redrives to the queue of that very Sns, or,  *)
(* if and only if the caller gave a policy, to the queue of that policy;   *)
(* never to another construct's and never nowhere (sns.ts:57-77 sets the   *)
(* policy on what it finds below itself, so it has to come after every     *)
(* subscription and before any other construct).                           *)
(***************************************************************************)
THEOREM SubscriptionsAlwaysRedrive == Spec => []SubscriptionsRedrive
<1>1. Inv /\ Owned /\ TagInv => SubscriptionsRedrive
  <2> SUFFICES ASSUME Inv, Owned, TagInv, NEW p \in Resources, NEW c, c = Owner(p),
                      tree[p].type = "Subscription", c \notin failed,
                      c \o <<"Dlq">> \in DOMAIN tree, tree[c \o <<"Dlq">>].type = "Queue"
               PROVE  tree[p].redrive = {Target(c, Props(c))}
    BY DEF SubscriptionsRedrive, Target
  <2>1. PICK o \in DOMAIN given : OwnedBy(p, o)
    BY DEF Owned, Resources
  <2>2. o = c
    BY <2>1, OwnerIs DEF Resources
  <2>3. p \in DOMAIN tree /\ Mine(p, c)
    BY <2>1, <2>2 DEF OwnedBy, Mine, Resources
  <2>4. NodeMarked(tree, p, c, contextTags(Ctx(c)), Props(c), c \in failed)
    BY <2>1, <2>2, <2>3 DEF TagInv, Marked
  <2>5. QED
    BY <2>4 DEF NodeMarked
<1>2. QED
  BY <1>1, InvHolds, SwitchHolds, TagInvHolds, PTL

(***************************************************************************)
(* Nothing but `enabled` switches a construct off: whatever the chain of   *)
(* contexts, the place and the other props, a construct whose constructor  *)
(* returned has made a resource of its own, unless something on the path   *)
(* of its context was given enabled = false, or it was asked for nothing   *)
(* (the isEnabled guard of every constructor; iam-policy.ts:18).           *)
(***************************************************************************)
THEOREM EnabledBranchIsAlwaysMade == Spec => []EnabledBranchIsMade
<1>1. Inv /\ Sticky /\ AllPaid => EnabledBranchIsMade
  <2> SUFFICES ASSUME Inv, Sticky, AllPaid, NEW c \in DOMAIN given \ failed, Empty(c)
               PROVE  Disabled(c) \/ AsksForNothing(given[c].class, Props(c))
    BY DEF EnabledBranchIsMade
  <2>1. Paid(c)
    BY DEF AllPaid
  <2>2. ASSUME NEW p \in DOMAIN tree, tree[p].type # "Construct", OwnedBy(p, c) PROVE FALSE
    <3>1. Owner(p) = c
      BY <2>2, OwnerIs
    <3>2. QED
      BY <2>2, <3>1 DEF Empty, Resources
  <2>3. CASE ~ isEnabled(Ctx(c))
    <3>1. given[c].ctx \in DOMAIN nodes
      BY DEF Inv
    <3>2. NodeSticky(given[c].ctx)
      BY <3>1 DEF Sticky
    <3>3. QED
      BY <2>3, <3>2 DEF NodeSticky, Ctx, Disabled
  <2>4. QED
    BY <2>1, <2>2, <2>3 DEF Paid
<1>2. QED
  BY <1>1, InvHolds, SwitchHolds, PaidHolds, PTL
=============================================================================
