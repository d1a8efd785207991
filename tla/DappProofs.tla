----------------------------- MODULE DappProofs -----------------------------
(***************************************************************************)
(* The plugins, for any number of dapps, accounts, funds, requests and      *)
(* stakes.                                                                 *)
(*                                                                         *)
(* First the comments, for trees of any size and depth: a comment counts    *)
(* all that are below it, so that what may be deleted is a leaf, and        *)
(* nothing is left behind by what was deleted or rejected.                  *)
(*                                                                         *)
(* Then the tokens: TokenInv relates the sums over balances, savings,       *)
(* funds, requests and stakes, and says where the iterators over the two    *)
(* indexes by date stand; it is inductive with Inv.                         *)
(***************************************************************************)
EXTENDS Token, NumberFacts, FiniteSetTheorems, TLAPS

CommentObject == [parent : Key \cup {Root}, depth : Int, children : Int]
DappObject == [state : {"pending", "approved"}, owner : Account]

\* The comments that exist in m, and those that one of them answers.
Present(m) == {c \in Key : m[c] # NoComment}

AncestorsIn(m, c) ==
    LET Up[n \in 0 .. m[c].depth] == IF n = 0 THEN c ELSE m[Up[n - 1]].parent
    IN  {Up[n] : n \in 1 .. m[c].depth}

AboveIn(m, p) == IF p = Root THEN {} ELSE {p} \cup AncestorsIn(m, p)

\* The comments that have y above them.
Below(m, y) == {x \in Key : m[x] # NoComment /\ y \in AncestorsIn(m, x)}

\* A comment is at the top, or one below the comment it answers.
Placed(m, c) ==
    /\ m[c].depth \in Nat
    /\ m[c].parent = Root => m[c].depth = 0
    /\ m[c].parent # Root => /\ m[c].parent \in Present(m)
                             /\ m[c].depth = m[m[c].parent].depth + 1

Forest(m) ==
    /\ m \in [Key -> CommentObject]
    /\ \A c \in Present(m) : Placed(m, c)

Counted(m) == \A c \in Present(m) : m[c].children = Cardinality(Below(m, c))

\* What the comments need of the dapps, and the votes and members of the dapps.
DappsInv ==
    /\ dapps \in [DappName -> DappObject \cup {NoDapp}]
    /\ votes \subseteq [dapp : DappName, voter : Account, vote : {"approved", "rejected"}]
    /\ users \subseteq DappName \X Account
    /\ \A w \in votes : dapps[w.dapp].state = "pending"
    /\ \A u \in users : dapps[u[1]] # NoDapp

CommentsInv ==
    /\ Forest(comments)
    /\ IsFiniteSet(Present(comments))
    /\ Counted(comments)
    /\ \A c \in Present(comments) : Approved(c[1])
    /\ \A l \in likes : l[1] \in Present(comments)

Inv == DappsInv /\ CommentsInv

-----------------------------------------------------------------------------
(* The way up from a comment.                                              *)

Solves(m, c, U) == U = [n \in 0 .. m[c].depth |-> IF n = 0 THEN c ELSE m[U[n - 1]].parent]

LEMMA SolvesFacts ==
    ASSUME NEW m, NEW c, m[c].depth \in Nat, NEW U, Solves(m, c, U)
    PROVE  /\ U[0] = c
           /\ \A n \in 1 .. m[c].depth : U[n] = m[U[n - 1]].parent
<1> DEFINE D == m[c].depth
<1>1. D \in Nat /\ U = [n \in 0 .. D |-> IF n = 0 THEN c ELSE m[U[n - 1]].parent]
  BY DEF Solves
<1> HIDE DEF D
<1>2. \A n \in 0 .. D : U[n] = IF n = 0 THEN c ELSE m[U[n - 1]].parent
  BY <1>1
<1>3. 0 \in 0 .. D /\ \A n \in 1 .. D : n \in 0 .. D /\ n # 0
  BY <1>1
<1> QED BY <1>2, <1>3 DEF D

\* There is one way up.
LEMMA OneWay ==
    ASSUME NEW m, NEW c, m[c].depth \in Nat, NEW U, Solves(m, c, U), NEW V, Solves(m, c, V)
    PROVE  \A n \in 0 .. m[c].depth : U[n] = V[n]
<1> DEFINE D == m[c].depth
           bad == {n \in 0 .. D : U[n] # V[n]}
<1>1. /\ U[0] = c /\ \A n \in 1 .. D : U[n] = m[U[n - 1]].parent
      /\ V[0] = c /\ \A n \in 1 .. D : V[n] = m[V[n - 1]].parent
  BY SolvesFacts
<1> HIDE DEF D
<1>2. D \in Nat
  BY DEF D
<1>3. ASSUME bad # {}
      PROVE  FALSE
  <2>1. PICK k \in bad : \A y \in bad : k <= y
    <3>1. bad \subseteq Nat
      BY <1>2
    <3> HIDE DEF bad
    <3> QED BY <1>3, <3>1, NatMin
  <2>2. k \in 0 .. D /\ U[k] # V[k] /\ k # 0
    BY <1>1
  <2>3. k \in 1 .. D /\ k - 1 \in 0 .. D /\ ~(k <= k - 1)
    BY <1>2, <2>2
  <2>4. U[k - 1] = V[k - 1]
    BY <2>1, <2>3
  <2> QED BY <1>1, <2>2, <2>3, <2>4
<1> QED BY <1>3 DEF D

\* The way up from a comment begins with the comment it answers.
LEMMA LongerWay ==
    ASSUME NEW m, Forest(m), NEW c \in Present(m), m[c].parent # Root,
           NEW V, Solves(m, m[c].parent, V)
    PROVE  Solves(m, c, [n \in 0 .. m[c].depth |-> IF n = 0 THEN c ELSE V[n - 1]])
<1> DEFINE D == m[c].depth
           p == m[c].parent
           E == m[p].depth
           U == [n \in 0 .. D |-> IF n = 0 THEN c ELSE V[n - 1]]
<1>1. D \in Nat /\ E \in Nat /\ D = E + 1
  BY DEF Forest, Placed
<1>2. V[0] = p /\ \A n \in 1 .. E : V[n] = m[V[n - 1]].parent
  BY <1>1, SolvesFacts
<1> HIDE DEF E
<1>3. \A n \in 0 .. D : U[n] = IF n = 0 THEN c ELSE V[n - 1]
  OBVIOUS
<1>4. U[0] = c
  BY <1>1, <1>3
<1>5. ASSUME NEW n \in 0 .. D, n # 0
      PROVE  V[n - 1] = m[U[n - 1]].parent
  <2>1. n - 1 \in 0 .. D /\ n \in Nat
    BY <1>1, <1>5
  <2>2. CASE n = 1
    BY <1>2, <1>4, <2>2
  <2>3. CASE n # 1
    <3>1. n - 1 \in 1 .. E /\ n - 1 # 0
      BY <1>1, <1>5, <2>1, <2>3
    <3>2. U[n - 1] = V[(n - 1) - 1]
      BY <1>3, <2>1, <3>1
    <3> QED BY <1>2, <3>1, <3>2
  <2> QED BY <2>2, <2>3
<1>6. U = [n \in 0 .. D |-> IF n = 0 THEN c ELSE m[U[n - 1]].parent]
  <2> DEFINE W == [n \in 0 .. D |-> IF n = 0 THEN c ELSE m[U[n - 1]].parent]
  <2>1. \A n \in 0 .. D : U[n] = W[n]
    BY <1>3, <1>5
  <2>2. DOMAIN U = 0 .. D /\ DOMAIN W = 0 .. D
    OBVIOUS
  <2>3. U = [n \in 0 .. D |-> U[n]] /\ W = [n \in 0 .. D |-> W[n]]
    OBVIOUS
  <2>4. U = W
    <3> HIDE DEF U, W
    <3> QED BY <2>1, <2>3
  <2> HIDE DEF U
  <2> QED BY <2>4
<1>7. Solves(m, c, U)
  <2> HIDE DEF U
  <2> QED BY <1>6 DEF Solves
<1> QED BY <1>7


\* What holds of the comments at the top, and of an answer when it holds of the
\* comment answered, holds of all.
LEMMA ForestInduction ==
    ASSUME NEW m, Forest(m), NEW S,
           \A x \in Present(m) : m[x].parent = Root => x \in S,
           \A x \in Present(m) : m[x].parent # Root /\ m[x].parent \in S => x \in S
    PROVE  \A x \in Present(m) : x \in S
<1> DEFINE bad == {d \in Nat : \E x \in Present(m) : m[x].depth = d /\ x \notin S}
<1>1. ASSUME bad # {}
      PROVE  FALSE
  <2>1. PICK d \in bad : \A y \in bad : d <= y
    <3>1. bad \subseteq Nat
      OBVIOUS
    <3> HIDE DEF bad
    <3> QED BY <1>1, <3>1, NatMin
  <2>2. PICK x \in Present(m) : m[x].depth = d /\ x \notin S
    OBVIOUS
  <2>3. m[x].parent # Root
    BY <2>2
  <2> DEFINE p == m[x].parent
             e == m[p].depth
  <2>4. p \in Present(m) /\ d = e + 1 /\ e \in Nat /\ d \in Nat
    BY <2>2, <2>3 DEF Forest, Placed
  <2>5. p \notin S
    BY <2>2, <2>3
  <2>6. e \in bad
    BY <2>4, <2>5
  <2> HIDE DEF e, bad
  <2>7. d <= e
    BY <2>1, <2>6
  <2> QED BY <2>4, <2>7
<1>2. \A x \in Present(m) : m[x].depth \in Nat
  BY DEF Forest, Placed
<1> QED BY <1>1, <1>2

\* A comment that is placed has a way up.
LEMMA SomeWay ==
    ASSUME NEW m, Forest(m), NEW c \in Present(m)
    PROVE  \E U : Solves(m, c, U)
<1> DEFINE S == {x \in Present(m) : \E U : Solves(m, x, U)}
<1>1. ASSUME NEW x \in Present(m), m[x].parent = Root
      PROVE  x \in S
  <2> DEFINE U == [n \in 0 .. 0 |-> x]
  <2>1. m[x].depth = 0
    BY <1>1 DEF Forest, Placed
  <2>2. \A n \in 0 .. 0 : n = 0
    OBVIOUS
  <2>3. U = [n \in 0 .. 0 |-> IF n = 0 THEN x ELSE m[U[n - 1]].parent]
    BY <2>2
  <2> HIDE DEF U
  <2>4. Solves(m, x, U)
    BY <2>1, <2>3 DEF Solves
  <2> QED BY <2>4
<1>2. ASSUME NEW x \in Present(m), m[x].parent # Root, m[x].parent \in S
      PROVE  x \in S
  <2>1. PICK V : Solves(m, m[x].parent, V)
    BY <1>2
  <2> DEFINE W == [n \in 0 .. m[x].depth |-> IF n = 0 THEN x ELSE V[n - 1]]
  <2>2. Solves(m, x, W)
    BY <1>2, <2>1, LongerWay
  <2> HIDE DEF W
  <2> QED BY <2>2
<1>3. c \in S
  <2> HIDE DEF S
  <2> QED BY <1>1, <1>2, ForestInduction
<1> QED BY <1>3

LEMMA AncestorsAre ==
    ASSUME NEW m, Forest(m), NEW c \in Present(m), NEW U, Solves(m, c, U)
    PROVE  AncestorsIn(m, c) = {U[n] : n \in 1 .. m[c].depth}
<1> DEFINE R == CHOOSE V : Solves(m, c, V)
<1>1. Solves(m, c, R)
  OBVIOUS
<1>2. AncestorsIn(m, c) = {R[n] : n \in 1 .. m[c].depth}
  BY DEF AncestorsIn, Solves
<1> HIDE DEF R
<1>3. m[c].depth \in Nat
  BY DEF Forest, Placed
<1>4. \A n \in 0 .. m[c].depth : R[n] = U[n]
  BY <1>1, <1>3, OneWay
<1> DEFINE D == m[c].depth
<1> HIDE DEF D
<1>5. \A n \in 1 .. D : n \in 0 .. D
  BY <1>3 DEF D
<1>6. {R[n] : n \in 1 .. D} = {U[n] : n \in 1 .. D}
  BY <1>4, <1>5 DEF D
<1> QED BY <1>2, <1>6 DEF D

\* Nothing is above a comment that answers none.
LEMMA RootFacts ==
    ASSUME NEW m, Forest(m), NEW c \in Present(m), m[c].parent = Root
    PROVE  AncestorsIn(m, c) = {}
<1>1. m[c].depth = 0
  BY DEF Forest, Placed
<1>2. PICK U : Solves(m, c, U)
  BY SomeWay
<1>3. AncestorsIn(m, c) = {U[n] : n \in 1 .. 0}
  BY <1>1, <1>2, AncestorsAre
<1>4. 1 .. 0 = {}
  OBVIOUS
<1> QED BY <1>3, <1>4

\* Above an answer is the comment that it answers and what is above that.
LEMMA ReplyFacts ==
    ASSUME NEW m, Forest(m), NEW c \in Present(m), m[c].parent # Root
    PROVE  AncestorsIn(m, c) = {m[c].parent} \cup AncestorsIn(m, m[c].parent)
<1> DEFINE D == m[c].depth
           p == m[c].parent
           E == m[p].depth
<1>1. p \in Present(m) /\ D \in Nat /\ E \in Nat /\ D = E + 1
  BY DEF Forest, Placed
<1>2. PICK V : Solves(m, p, V)
  BY <1>1, SomeWay
<1> DEFINE U == [n \in 0 .. D |-> IF n = 0 THEN c ELSE V[n - 1]]
<1>3. Solves(m, c, U)
  BY <1>2, LongerWay
<1>4. \A n \in 1 .. D : U[n] = V[n - 1]
  BY <1>1
<1> HIDE DEF U
<1>5. AncestorsIn(m, c) = {U[n] : n \in 1 .. D}
  BY <1>3, AncestorsAre
<1>6. AncestorsIn(m, p) = {V[n] : n \in 1 .. E}
  BY <1>1, <1>2, AncestorsAre
<1>7. V[0] = p
  BY <1>1, <1>2, SolvesFacts
<1> HIDE DEF D, E, p
<1>8. ASSUME NEW x PROVE (\E n \in 1 .. D : x = U[n]) <=> (x = p \/ \E n \in 1 .. E : x = V[n])
  <2>1. ASSUME NEW n \in 1 .. D, x = U[n]
        PROVE  x = p \/ \E k \in 1 .. E : x = V[k]
    <3>1. x = V[n - 1]
      BY <1>4, <2>1
    <3>2. n - 1 = 0 \/ n - 1 \in 1 .. E
      BY <1>1
    <3> QED BY <1>7, <3>1, <3>2
  <2>2. ASSUME x = p
        PROVE  \E n \in 1 .. D : x = U[n]
    <3>1. 1 \in 1 .. D /\ 1 - 1 = 0
      BY <1>1
    <3>2. U[1] = V[0]
      BY <1>4, <3>1
    <3> QED BY <1>7, <2>2, <3>1, <3>2
  <2>3. ASSUME NEW n \in 1 .. E, x = V[n]
        PROVE  \E k \in 1 .. D : x = U[k]
    <3>1. n + 1 \in 1 .. D /\ (n + 1) - 1 = n
      BY <1>1
    <3>2. U[n + 1] = V[n]
      BY <1>4, <3>1
    <3> QED BY <2>3, <3>1, <3>2
  <2> QED BY <2>1, <2>2, <2>3
<1>9. AncestorsIn(m, c) = {p} \cup AncestorsIn(m, p)
  BY <1>5, <1>6, <1>8
<1> QED BY <1>9 DEF p


\* What is above a comment exists.
LEMMA AncestorFacts ==
    ASSUME NEW m, Forest(m), NEW c \in Present(m)
    PROVE  AncestorsIn(m, c) \subseteq Present(m) /\ c \notin AncestorsIn(m, c)
<1> DEFINE Lower(x) == \A y \in AncestorsIn(m, x) : y \in Present(m) /\ m[y].depth < m[x].depth
           S == {x \in Present(m) : Lower(x)}
<1>0. \A x \in Present(m) : m[x].depth \in Nat
  BY DEF Forest, Placed
<1>1. ASSUME NEW x \in Present(m), m[x].parent = Root
      PROVE  x \in S
  <2>1. AncestorsIn(m, x) = {}
    BY <1>1, RootFacts
  <2> QED BY <2>1
<1>2. ASSUME NEW x \in Present(m), m[x].parent # Root, m[x].parent \in S
      PROVE  x \in S
  <2> DEFINE p == m[x].parent
  <2>1. AncestorsIn(m, x) = {p} \cup AncestorsIn(m, p)
    BY <1>2, ReplyFacts
  <2>2. p \in Present(m) /\ m[x].depth = m[p].depth + 1 /\ m[p].depth \in Nat /\ Lower(p)
    BY <1>2 DEF Forest, Placed
  <2> HIDE DEF p
  <2>3. ASSUME NEW y \in AncestorsIn(m, x)
        PROVE  y \in Present(m) /\ m[y].depth < m[x].depth
    <3>1. CASE y = p
      BY <2>2, <3>1
    <3>2. CASE y \in AncestorsIn(m, p)
      BY <1>0, <2>2, <3>2
    <3> QED BY <2>1, <3>1, <3>2
  <2> QED BY <2>3
<1>3. c \in S
  <2> HIDE DEF S
  <2> QED BY <1>1, <1>2, ForestInduction
<1>4. Lower(c)
  BY <1>3
<1> QED BY <1>0, <1>4

\* What is above a comment stays while it and those above it do.
LEMMA SameAncestors ==
    ASSUME NEW m, Forest(m), NEW k, Forest(k), NEW K, K \subseteq Present(m), K \subseteq Present(k),
           \A x \in K : k[x].parent = m[x].parent /\ (m[x].parent # Root => m[x].parent \in K)
    PROVE  \A x \in K : AncestorsIn(k, x) = AncestorsIn(m, x)
<1> DEFINE S == {x \in Present(m) : x \in K => AncestorsIn(k, x) = AncestorsIn(m, x)}
<1>1. ASSUME NEW x \in Present(m), m[x].parent = Root
      PROVE  x \in S
  <2>1. ASSUME x \in K
        PROVE  AncestorsIn(k, x) = AncestorsIn(m, x)
    <3>1. AncestorsIn(m, x) = {}
      BY <1>1, RootFacts
    <3>2. x \in Present(k) /\ k[x].parent = Root
      BY <1>1, <2>1
    <3>3. AncestorsIn(k, x) = {}
      BY <3>2, RootFacts
    <3> QED BY <3>1, <3>3
  <2> QED BY <2>1
<1>2. ASSUME NEW x \in Present(m), m[x].parent # Root, m[x].parent \in S
      PROVE  x \in S
  <2>1. ASSUME x \in K
        PROVE  AncestorsIn(k, x) = AncestorsIn(m, x)
    <3> DEFINE p == m[x].parent
    <3>1. x \in Present(k) /\ k[x].parent = p /\ p \in K
      BY <1>2, <2>1
    <3>2. AncestorsIn(k, p) = AncestorsIn(m, p)
      BY <1>2, <3>1
    <3>3. AncestorsIn(m, x) = {p} \cup AncestorsIn(m, p)
      BY <1>2, ReplyFacts
    <3>4. AncestorsIn(k, x) = {p} \cup AncestorsIn(k, p)
      BY <1>2, <3>1, ReplyFacts
    <3> QED BY <3>2, <3>3, <3>4
  <2> QED BY <2>1
<1>3. \A x \in Present(m) : x \in S
  <2> HIDE DEF S
  <2> QED BY <1>1, <1>2, ForestInduction
<1> QED BY <1>3

LEMMA AboveFacts ==
    ASSUME NEW m, Forest(m), NEW c \in Present(m)
    PROVE  AncestorsIn(m, c) = AboveIn(m, m[c].parent)
BY RootFacts, ReplyFacts DEF AboveIn

\* What is above an answer to p exists.
LEMMA AboveExists ==
    ASSUME NEW m, Forest(m), NEW p, p = Root \/ p \in Present(m)
    PROVE  AboveIn(m, p) \subseteq Present(m)
BY AncestorFacts DEF AboveIn

LEMMA NoCommentFacts ==
    /\ NoComment.depth = -1
    /\ NoComment.children = 0
    /\ NoComment.parent = Root
BY DEF NoComment

LEMMA CommentFields ==
    ASSUME NEW r \in CommentObject
    PROVE  /\ r.parent \in Key \cup {Root} /\ r.depth \in Int /\ r.children \in Int
           /\ \A n \in Int : /\ [r EXCEPT !.children = n] \in CommentObject
                             /\ [r EXCEPT !.children = n].parent = r.parent
                             /\ [r EXCEPT !.children = n].depth = r.depth
                             /\ [r EXCEPT !.children = n].children = n
BY DEF CommentObject

\* Comments whose places are kept keep what is below them.
Same(m, k, K) ==
    \A x \in K : k[x].parent = m[x].parent /\ k[x].depth = m[x].depth

-----------------------------------------------------------------------------
(* A comment is added.                                                     *)

Added(m, k, c, p) ==
    k = [x \in Key |->
           IF x = c THEN [parent |-> p, depth |-> IF p = Root THEN 0 ELSE m[p].depth + 1,
                          children |-> 0]
           ELSE IF x \in AboveIn(m, p) THEN [m[x] EXCEPT !.children = @ + 1]
           ELSE m[x]]

MayAdd(m, c, p) ==
    /\ Forest(m) /\ c \in Key /\ c \notin Present(m)
    /\ p = Root \/ p \in Present(m)

\* What becomes of each comment.
Grown(m, k, c, p) ==
    /\ k \in [Key -> CommentObject]
    /\ k[c].parent = p /\ k[c].depth = (IF p = Root THEN 0 ELSE m[p].depth + 1)
    /\ k[c].children = 0
    /\ Same(m, k, Key \ {c})
    /\ \A x \in Key \ {c} :
          /\ x \in AboveIn(m, p) => k[x].children = m[x].children + 1
          /\ x \notin AboveIn(m, p) => k[x] = m[x]

LEMMA AddedValues ==
    ASSUME NEW m, NEW c, NEW p, MayAdd(m, c, p), NEW k, Added(m, k, c, p)
    PROVE  Grown(m, k, c, p)
<1> DEFINE new == [parent |-> p, depth |-> IF p = Root THEN 0 ELSE m[p].depth + 1, children |-> 0]
<1>1. m \in [Key -> CommentObject]
  BY DEF MayAdd, Forest
<1>2. p \in Key \cup {Root} /\ (p # Root => m[p].depth \in Nat)
  BY DEF MayAdd, Forest, Placed, Present
<1>3. (IF p = Root THEN 0 ELSE m[p].depth + 1) \in Int
  BY <1>2
<1>4. new \in CommentObject
  BY <1>2, <1>3 DEF CommentObject
<1>5. c \in Key
  BY DEF MayAdd
<1>6. k[c] = new
  BY <1>5 DEF Added
<1>7. ASSUME NEW x \in Key \ {c}, x \in AboveIn(m, p)
      PROVE  /\ k[x] \in CommentObject /\ k[x].parent = m[x].parent /\ k[x].depth = m[x].depth
             /\ k[x].children = m[x].children + 1
  <2>1. k[x] = [m[x] EXCEPT !.children = m[x].children + 1]
    BY <1>7 DEF Added
  <2>2. m[x] \in CommentObject
    BY <1>1
  <2>3. m[x].children \in Int
    BY <2>2, CommentFields
  <2>4. m[x].children + 1 \in Int
    BY <2>3
  <2> QED BY <2>1, <2>2, <2>4, CommentFields
<1>8. ASSUME NEW x \in Key \ {c}, x \notin AboveIn(m, p)
      PROVE  k[x] = m[x] /\ k[x] \in CommentObject
  BY <1>1, <1>8 DEF Added
<1>9. \A x \in Key : k[x] \in CommentObject
  BY <1>4, <1>6, <1>7, <1>8
<1>10. k \in [Key -> CommentObject]
  <2>1. k = [x \in Key |-> k[x]]
    BY DEF Added
  <2> QED BY <1>9, <2>1
<1>11. k[c].parent = p /\ k[c].depth = (IF p = Root THEN 0 ELSE m[p].depth + 1) /\ k[c].children = 0
  BY <1>6
<1>12. Same(m, k, Key \ {c})
  BY <1>7, <1>8 DEF Same
<1> QED BY <1>7, <1>8, <1>10, <1>11, <1>12 DEF Grown

LEMMA AddedForest ==
    ASSUME NEW m, NEW c, NEW p, MayAdd(m, c, p), NEW k, Added(m, k, c, p)
    PROVE  /\ Present(k) = Present(m) \cup {c}
           /\ Forest(k)
<1>0. Grown(m, k, c, p)
  BY AddedValues
<1>1. /\ Forest(m) /\ c \in Key /\ c \notin Present(m) /\ (p = Root \/ p \in Present(m))
      /\ AboveIn(m, p) \subseteq Present(m)
  BY AboveExists DEF MayAdd
<1>2. \A x \in Present(m) : m[x].depth \in Nat /\ x \in Key /\ x # c
  BY <1>1 DEF Forest, Placed, Present
<1>3. /\ k[c].parent = p /\ k[c].depth = (IF p = Root THEN 0 ELSE m[p].depth + 1)
      /\ k \in [Key -> CommentObject]
  BY <1>0 DEF Grown
<1>4. \A x \in Key \ {c} : k[x].parent = m[x].parent /\ k[x].depth = m[x].depth
  BY <1>0 DEF Grown, Same
<1>5. \A x \in Key \ {c} : x \notin AboveIn(m, p) => k[x] = m[x]
  BY <1>0 DEF Grown
<1>6. k[c].depth \in Nat
  BY <1>1, <1>2, <1>3
<1>7. \A x \in Key : k[x].depth \in Nat => k[x] # NoComment
  BY NoCommentFacts
<1>8. Present(k) = Present(m) \cup {c}
  <2>1. ASSUME NEW x \in Present(m) \cup {c} PROVE x \in Present(k)
    BY <1>1, <1>2, <1>4, <1>6, <1>7 DEF Present
  <2>2. ASSUME NEW x \in Present(k), x # c PROVE x \in Present(m)
    BY <1>1, <1>5, <2>2 DEF Present
  <2> QED BY <2>1, <2>2
<1>9. ASSUME NEW x \in Present(k)
      PROVE  Placed(k, x)
  <2>1. CASE x = c
    <3>1. CASE p = Root
      BY <1>3, <1>6, <2>1, <3>1 DEF Placed
    <3>2. CASE p # Root
      <4>1. p \in Present(k) /\ k[p].depth = m[p].depth
        BY <1>1, <1>2, <1>4, <1>8, <3>2
      <4> QED BY <1>3, <1>6, <2>1, <3>2, <4>1 DEF Placed
    <3> QED BY <3>1, <3>2
  <2>2. CASE x # c
    <3>1. x \in Present(m) /\ x \in Key \ {c}
      BY <1>2, <1>8, <2>2
    <3>2. Placed(m, x)
      BY <1>1, <3>1 DEF Forest
    <3>3. k[x].parent = m[x].parent /\ k[x].depth = m[x].depth
      BY <1>4, <3>1
    <3>4. CASE m[x].parent = Root
      BY <3>2, <3>3, <3>4 DEF Placed
    <3>5. CASE m[x].parent # Root
      <4>1. m[x].parent \in Present(m) /\ m[x].depth = m[m[x].parent].depth + 1 /\ m[x].depth \in Nat
        BY <3>2, <3>5 DEF Placed
      <4>2. k[m[x].parent].depth = m[m[x].parent].depth /\ m[x].parent \in Present(k)
        BY <1>2, <1>4, <1>8, <4>1
      <4> QED BY <3>3, <3>5, <4>1, <4>2 DEF Placed
    <3> QED BY <3>4, <3>5
  <2> QED BY <2>1, <2>2
<1> QED BY <1>3, <1>8, <1>9 DEF Forest

LEMMA AddedAncestors ==
    ASSUME NEW m, NEW c, NEW p, MayAdd(m, c, p), NEW k, Added(m, k, c, p)
    PROVE  /\ AncestorsIn(k, c) = AboveIn(m, p)
           /\ \A x \in Present(m) : AncestorsIn(k, x) = AncestorsIn(m, x)
<1>0. Grown(m, k, c, p)
  BY AddedValues
<1>1. Forest(m) /\ c \in Key /\ c \notin Present(m) /\ (p = Root \/ p \in Present(m))
  BY DEF MayAdd
<1>2. Forest(k) /\ Present(k) = Present(m) \cup {c}
  BY AddedForest
<1>3. \A x \in Present(m) : x \in Key \ {c}
  BY <1>1 DEF Present
<1>4. \A x \in Present(m) : k[x].parent = m[x].parent
  BY <1>3, <1>0 DEF Grown, Same
<1>5. \A x \in Present(m) : m[x].parent # Root => m[x].parent \in Present(m)
  BY <1>1 DEF Forest, Placed
<1> DEFINE K == Present(m)
<1>6. \A x \in K : AncestorsIn(k, x) = AncestorsIn(m, x)
  <2>1. K \subseteq Present(m) /\ K \subseteq Present(k)
    BY <1>2
  <2>2. \A x \in K : k[x].parent = m[x].parent /\ (m[x].parent # Root => m[x].parent \in K)
    BY <1>4, <1>5
  <2> HIDE DEF K
  <2> QED BY <1>1, <1>2, <2>1, <2>2, SameAncestors
<1>7. k[c].parent = p
  BY <1>0 DEF Grown
<1>8. AncestorsIn(k, c) = AboveIn(k, p)
  BY <1>2, <1>7, AboveFacts
<1>9. AboveIn(k, p) = AboveIn(m, p)
  BY <1>1, <1>6 DEF AboveIn
<1> QED BY <1>6, <1>8, <1>9

LEMMA AddedCounted ==
    ASSUME NEW m, NEW c, NEW p, MayAdd(m, c, p), NEW k, Added(m, k, c, p),
           Counted(m), IsFiniteSet(Present(m))
    PROVE  Counted(k) /\ IsFiniteSet(Present(k))
<1>0. Grown(m, k, c, p)
  BY AddedValues
<1>1. /\ Forest(m) /\ c \in Key /\ c \notin Present(m) /\ (p = Root \/ p \in Present(m))
      /\ AboveIn(m, p) \subseteq Present(m)
  BY AboveExists DEF MayAdd
<1>2. Present(k) = Present(m) \cup {c} /\ Forest(k)
  BY AddedForest
<1>3. IsFiniteSet(Present(k))
  BY <1>2, FS_AddElement
<1>4. /\ AncestorsIn(k, c) = AboveIn(m, p)
      /\ \A x \in Present(m) : AncestorsIn(k, x) = AncestorsIn(m, x)
  BY AddedAncestors
<1>5. \A y : Below(m, y) = {x \in Present(m) : y \in AncestorsIn(m, x)}
  BY DEF Below, Present
<1>6. \A y : Below(k, y) = {x \in Present(k) : y \in AncestorsIn(k, x)}
  BY DEF Below, Present
<1>7. \A y : IsFiniteSet(Below(m, y)) /\ c \notin Below(m, y)
  BY <1>1, <1>5, FS_Subset
<1>8. ASSUME NEW y \in Present(k)
      PROVE  k[y].children = Cardinality(Below(k, y))
  <2>1. CASE y = c
    <3>1. \A x \in Present(m) : c \notin AncestorsIn(m, x)
      BY <1>1, AncestorFacts
    <3>2. Below(k, c) = {}
      BY <1>1, <1>2, <1>4, <1>6, <3>1
    <3>3. k[c].children = 0
      BY <1>0 DEF Grown
    <3> QED BY <2>1, <3>2, <3>3, FS_EmptySet
  <2>2. CASE y # c
    <3>1. y \in Present(m) /\ y \in Key \ {c}
      BY <1>2, <2>2 DEF Present
    <3>2. m[y].children = Cardinality(Below(m, y))
      BY <3>1 DEF Counted
    <3>3. CASE y \in AboveIn(m, p)
      <4>1. k[y].children = m[y].children + 1
        BY <3>1, <3>3, <1>0 DEF Grown
      <4>2. Below(k, y) = Below(m, y) \cup {c}
        BY <1>2, <1>4, <1>5, <1>6, <3>3
      <4>3. Cardinality(Below(m, y) \cup {c}) = Cardinality(Below(m, y)) + 1
        BY <1>7, FS_AddElement
      <4> QED BY <3>2, <4>1, <4>2, <4>3
    <3>4. CASE y \notin AboveIn(m, p)
      <4>1. k[y] = m[y]
        BY <3>1, <3>4, <1>0 DEF Grown
      <4>2. \A x \in Present(k) : y \in AncestorsIn(k, x) <=> x \in Present(m) /\ y \in AncestorsIn(m, x)
        BY <1>1, <1>2, <1>4, <3>4
      <4>3. Below(k, y) = Below(m, y)
        BY <1>2, <1>5, <1>6, <4>2
      <4> QED BY <3>2, <4>1, <4>3
    <3> QED BY <3>3, <3>4
  <2> QED BY <2>1, <2>2
<1> QED BY <1>3, <1>8 DEF Counted

-----------------------------------------------------------------------------
(* A comment without answers is removed.                                   *)

Removed(m, k, c) ==
    k = [x \in Key |->
           IF x = c THEN NoComment
           ELSE IF x \in AboveIn(m, m[c].parent) THEN [m[x] EXCEPT !.children = @ - 1]
           ELSE m[x]]

MayRemove(m, c) ==
    /\ Forest(m) /\ Counted(m) /\ IsFiniteSet(Present(m))
    /\ c \in Present(m) /\ m[c].children = 0

Shrunk(m, k, c) ==
    /\ k \in [Key -> CommentObject]
    /\ k[c] = NoComment
    /\ Same(m, k, Key \ {c})
    /\ \A x \in Key \ {c} :
          /\ x \in AncestorsIn(m, c) => k[x].children = m[x].children - 1
          /\ x \notin AncestorsIn(m, c) => k[x] = m[x]

LEMMA RemovedValues ==
    ASSUME NEW m, NEW c, MayRemove(m, c), NEW k, Removed(m, k, c)
    PROVE  Shrunk(m, k, c)
<1>1. m \in [Key -> CommentObject]
  BY DEF MayRemove, Forest
<1>2. c \in Key /\ AncestorsIn(m, c) = AboveIn(m, m[c].parent)
  BY AboveFacts DEF MayRemove, Present
<1>3. NoComment \in CommentObject
  BY DEF NoComment, CommentObject
<1>4. k[c] = NoComment
  BY <1>2 DEF Removed
<1>5. ASSUME NEW x \in Key \ {c}, x \in AncestorsIn(m, c)
      PROVE  /\ k[x] \in CommentObject /\ k[x].parent = m[x].parent /\ k[x].depth = m[x].depth
             /\ k[x].children = m[x].children - 1
  <2>1. k[x] = [m[x] EXCEPT !.children = m[x].children - 1]
    BY <1>2, <1>5 DEF Removed
  <2>2. m[x] \in CommentObject
    BY <1>1
  <2>3. m[x].children \in Int
    BY <2>2, CommentFields
  <2>4. m[x].children - 1 \in Int
    BY <2>3
  <2> QED BY <2>1, <2>2, <2>4, CommentFields
<1>6. ASSUME NEW x \in Key \ {c}, x \notin AncestorsIn(m, c)
      PROVE  k[x] = m[x] /\ k[x] \in CommentObject
  BY <1>1, <1>2, <1>6 DEF Removed
<1>7. \A x \in Key : k[x] \in CommentObject
  BY <1>3, <1>4, <1>5, <1>6
<1>8. k \in [Key -> CommentObject]
  <2>1. k = [x \in Key |-> k[x]]
    BY DEF Removed
  <2> QED BY <1>7, <2>1
<1>9. Same(m, k, Key \ {c})
  BY <1>5, <1>6 DEF Same
<1> QED BY <1>4, <1>5, <1>6, <1>8, <1>9 DEF Shrunk

\* A comment whose count is zero is a leaf: no comment answers it.
LEMMA NothingBelow ==
    ASSUME NEW m, NEW c, MayRemove(m, c)
    PROVE  \A x \in Present(m) : c \notin AncestorsIn(m, x) /\ m[x].parent # c
<1>1. Forest(m) /\ Counted(m) /\ IsFiniteSet(Present(m)) /\ c \in Present(m) /\ m[c].children = 0
  BY DEF MayRemove
<1>2. Below(m, c) \subseteq Present(m)
  BY DEF Below, Present
<1>3. IsFiniteSet(Below(m, c))
  BY <1>1, <1>2, FS_Subset
<1>4. Cardinality(Below(m, c)) = 0
  BY <1>1 DEF Counted
<1>5. Below(m, c) = {}
  BY <1>3, <1>4, FS_EmptySet
<1>6. \A x \in Present(m) : c \notin AncestorsIn(m, x)
  BY <1>5 DEF Below, Present
<1>7. ASSUME NEW x \in Present(m), m[x].parent = c, c # Root
      PROVE  FALSE
  BY <1>1, <1>6, <1>7, ReplyFacts
<1>8. c # Root
  <2>1. c \in DappName \X Account \X Permlink
    BY <1>1 DEF Present, Key
  <2>2. PICK a, b, d : c = <<a, b, d>>
    BY <2>1
  <2> QED BY <2>2 DEF Root
<1> QED BY <1>6, <1>7, <1>8

LEMMA RemovedForest ==
    ASSUME NEW m, NEW c, MayRemove(m, c), NEW k, Removed(m, k, c)
    PROVE  /\ Present(k) = Present(m) \ {c}
           /\ Forest(k)
<1>0. Shrunk(m, k, c)
  BY RemovedValues
<1>1. Forest(m) /\ c \in Present(m)
  BY DEF MayRemove
<1>2. \A x \in Present(m) : m[x].depth \in Nat /\ x \in Key
  BY <1>1 DEF Forest, Placed, Present
<1>3. k[c] = NoComment /\ k \in [Key -> CommentObject]
  BY <1>0 DEF Shrunk
<1>4. \A x \in Key \ {c} : k[x].parent = m[x].parent /\ k[x].depth = m[x].depth
  BY <1>0 DEF Shrunk, Same
<1>5. \A x \in Key \ {c} : x \notin AncestorsIn(m, c) => k[x] = m[x]
  BY <1>0 DEF Shrunk
<1>6. AncestorsIn(m, c) \subseteq Present(m)
  BY <1>1, AncestorFacts
<1>7. \A x \in Key : k[x].depth \in Nat => k[x] # NoComment
  BY NoCommentFacts
<1>8. Present(k) = Present(m) \ {c}
  <2>1. ASSUME NEW x \in Present(m) \ {c} PROVE x \in Present(k)
    BY <1>2, <1>4, <1>7 DEF Present
  <2>2. ASSUME NEW x \in Present(k) PROVE x \in Present(m) /\ x # c
    BY <1>3, <1>5, <1>6 DEF Present
  <2> QED BY <2>1, <2>2
<1>9. \A x \in Present(m) : m[x].parent # c
  BY NothingBelow
<1>10. ASSUME NEW x \in Present(k)
       PROVE  Placed(k, x)
  <2>1. x \in Present(m) /\ x \in Key \ {c}
    BY <1>2, <1>8
  <2>2. Placed(m, x)
    BY <1>1, <2>1 DEF Forest
  <2>3. k[x].parent = m[x].parent /\ k[x].depth = m[x].depth
    BY <1>4, <2>1
  <2>4. CASE m[x].parent = Root
    BY <2>2, <2>3, <2>4 DEF Placed
  <2>5. CASE m[x].parent # Root
    <3>1. m[x].parent \in Present(m) /\ m[x].depth = m[m[x].parent].depth + 1 /\ m[x].depth \in Nat
      BY <2>2, <2>5 DEF Placed
    <3>2. m[x].parent \in Present(k) /\ m[x].parent \in Key \ {c}
      BY <1>2, <1>8, <1>9, <2>1, <3>1
    <3>3. k[m[x].parent].depth = m[m[x].parent].depth
      BY <1>4, <3>2
    <3> QED BY <2>3, <2>5, <3>1, <3>2, <3>3 DEF Placed
  <2> QED BY <2>4, <2>5
<1> QED BY <1>3, <1>8, <1>10 DEF Forest

LEMMA RemovedCounted ==
    ASSUME NEW m, NEW c, MayRemove(m, c), NEW k, Removed(m, k, c)
    PROVE  Counted(k) /\ IsFiniteSet(Present(k))
<1>0. Shrunk(m, k, c)
  BY RemovedValues
<1>1. Forest(m) /\ Counted(m) /\ IsFiniteSet(Present(m)) /\ c \in Present(m)
  BY DEF MayRemove
<1>2. Present(k) = Present(m) \ {c} /\ Forest(k)
  BY RemovedForest
<1>3. IsFiniteSet(Present(k))
  BY <1>1, <1>2, FS_RemoveElement
<1> DEFINE K == Present(k)
<1>4. \A x \in K : AncestorsIn(k, x) = AncestorsIn(m, x)
  <2>1. K \subseteq Present(m) /\ K \subseteq Present(k)
    BY <1>2
  <2>2. \A x \in K : x \in Key \ {c}
    BY <1>2 DEF Present
  <2>3. \A x \in K : k[x].parent = m[x].parent
    BY <1>0, <2>2 DEF Shrunk, Same
  <2>4. \A x \in K : k[x].parent # Root => k[x].parent \in K
    BY <1>2 DEF Forest, Placed
  <2>5. \A x \in K : k[x].parent = m[x].parent /\ (m[x].parent # Root => m[x].parent \in K)
    BY <2>3, <2>4
  <2> HIDE DEF K
  <2> QED BY <1>1, <1>2, <2>1, <2>5, SameAncestors
<1>5. \A y : Below(m, y) = {x \in Present(m) : y \in AncestorsIn(m, x)}
  BY DEF Below, Present
<1>6. \A y : Below(k, y) = {x \in Present(k) : y \in AncestorsIn(k, x)}
  BY DEF Below, Present
<1>7. \A y : IsFiniteSet(Below(m, y))
  BY <1>1, <1>5, FS_Subset
<1>8. ASSUME NEW y \in Present(k)
      PROVE  k[y].children = Cardinality(Below(k, y))
  <2>1. y \in Present(m) /\ y \in Key \ {c}
    BY <1>2 DEF Present
  <2>2. m[y].children = Cardinality(Below(m, y))
    BY <1>1, <2>1 DEF Counted
  <2>3. CASE y \in AncestorsIn(m, c)
    <3>1. k[y].children = m[y].children - 1
      BY <1>0, <2>1, <2>3 DEF Shrunk
    <3>2. Below(k, y) = Below(m, y) \ {c}
      BY <1>2, <1>4, <1>5, <1>6
    <3>3. c \in Below(m, y)
      BY <1>1, <1>5, <2>3
    <3>4. Cardinality(Below(m, y) \ {c}) = Cardinality(Below(m, y)) - 1
      BY <1>7, <3>3, FS_RemoveElement
    <3> QED BY <2>2, <3>1, <3>2, <3>4
  <2>4. CASE y \notin AncestorsIn(m, c)
    <3>1. k[y] = m[y]
      BY <1>0, <2>1, <2>4 DEF Shrunk
    <3>2. \A x \in Present(m) : y \in AncestorsIn(m, x) <=> x \in Present(k) /\ y \in AncestorsIn(k, x)
      BY <1>2, <1>4, <2>4
    <3>3. Below(k, y) = Below(m, y)
      BY <1>2, <1>5, <1>6, <3>2
    <3> QED BY <2>2, <3>1, <3>3
  <2> QED BY <2>3, <2>4
<1> QED BY <1>3, <1>8 DEF Counted

-----------------------------------------------------------------------------
(* The dapps and the steps.                                                *)

LEMMA ModelForms ==
    /\ \A c : Ancestors(c) = AncestorsIn(comments, c)
    /\ \A p : Above(p) = AboveIn(comments, p)
    /\ \A c \in Key : Exists(c) <=> c \in Present(comments)
    /\ \A c \in Key : c[1] \in DappName
<1>1. \A c : Ancestors(c) = AncestorsIn(comments, c)
  BY DEF Ancestors, AncestorsIn
<1>2. \A p : Above(p) = AboveIn(comments, p)
  BY <1>1 DEF Above, AboveIn
<1>3. \A c \in Key : Exists(c) <=> c \in Present(comments)
  BY DEF Exists, Present
<1>4. \A c \in Key : c[1] \in DappName
  BY DEF Key
<1> QED BY <1>1, <1>2, <1>3, <1>4

\* Where the comments stay and no approved dapp goes, what is said of them stays.
LEMMA CommentsStay ==
    ASSUME CommentsInv, comments' = comments, likes' \subseteq likes,
           \A d \in DappName : dapps[d].state = "approved" => dapps'[d].state = "approved"
    PROVE  CommentsInv'
<1>1. \A c \in Present(comments) : c \in Key /\ c[1] \in DappName
  BY ModelForms DEF Present
<1> QED BY <1>1 DEF CommentsInv, Approved

LEMMA DappsStay ==
    ASSUME DappsInv, UNCHANGED <<dapps, votes, users>>
    PROVE  DappsInv'
BY DEF DappsInv

LEMMA InvInit == Init => Inv
<1> SUFFICES ASSUME Init PROVE Inv
  OBVIOUS
<1>1. PICK d \in DappName, owner \in Account : InitDapps(d, owner, Account)
  BY DEF Init
<1>2. DappsInv
  <2>1. dapps \in [DappName -> DappObject \cup {NoDapp}]
    BY <1>1 DEF InitDapps, DappObject
  <2>2. votes = {} /\ users = {<<d, a>> : a \in Account}
    BY <1>1 DEF InitDapps
  <2>3. dapps[d] # NoDapp
    <3>1. dapps[d] = [state |-> "approved", owner |-> owner]
      BY <1>1 DEF InitDapps
    <3> QED BY <3>1 DEF NoDapp
  <2>4. users \subseteq DappName \X Account
    BY <2>2
  <2>5. \A u \in users : dapps[u[1]] # NoDapp
    BY <2>2, <2>3
  <2> QED BY <2>1, <2>2, <2>4, <2>5 DEF DappsInv
<1>3. CommentsInv
  <2>1. comments = [c \in Key |-> NoComment] /\ likes = {}
    BY <1>1 DEF InitDapps
  <2>2. Present(comments) = {}
    BY <2>1 DEF Present
  <2>3. NoComment \in CommentObject
    BY DEF NoComment, CommentObject
  <2>4. comments \in [Key -> CommentObject]
    BY <2>1, <2>3
  <2>5. Forest(comments)
    BY <2>2, <2>4 DEF Forest
  <2> QED BY <2>1, <2>2, <2>5, FS_EmptySet DEF CommentsInv, Counted
<1> QED BY <1>2, <1>3 DEF Inv

\* A dapp that is undecided may be decided, one that was approved stays.
LEMMA AggregateKeeps ==
    ASSUME Inv, NEW t, Aggregate(t)
    PROVE  Inv'
<1>1. CASE UNCHANGED dappVars
  <2>1. UNCHANGED <<dapps, votes, users, comments, likes>>
    BY <1>1 DEF dappVars
  <2> QED BY <2>1, DappsStay, CommentsStay DEF Inv
<1>2. CASE t > aggregated + AggregationInterval
  <2>0. DappsInv /\ CommentsInv
    BY DEF Inv
  <2>1. /\ dapps' = [d \in DappName |->
                       IF Passes(d) THEN [dapps[d] EXCEPT !.state = "approved"]
                       ELSE IF Fails(d) THEN NoDapp ELSE dapps[d]]
        /\ votes' = {w \in votes : ~Passes(w.dapp) /\ ~Fails(w.dapp)}
        /\ users' = users \ Orphans
        /\ UNCHANGED <<comments, likes>>
    BY <1>2 DEF Aggregate
  <2>2. \A d \in DappName : Passes(d) \/ Fails(d) => dapps[d].state = "pending"
    BY DEF Passes, Fails
  <2>3. dapps \in [DappName -> DappObject \cup {NoDapp}]
    BY <2>0 DEF DappsInv
  <2>4. ASSUME NEW d \in DappName, Passes(d)
        PROVE  dapps'[d] \in DappObject /\ dapps'[d].state = "approved"
    <3>1. dapps[d].state = "pending"
      BY <2>2, <2>4
    <3>2. dapps[d] # NoDapp
      BY <3>1 DEF NoDapp
    <3>3. dapps[d] \in DappObject
      BY <2>3, <3>2
    <3>4. dapps'[d] = [dapps[d] EXCEPT !.state = "approved"]
      BY <2>1, <2>4
    <3> QED BY <3>3, <3>4 DEF DappObject
  <2>5. ASSUME NEW d \in DappName, ~Passes(d), ~Fails(d)
        PROVE  dapps'[d] = dapps[d]
    BY <2>1, <2>5
  <2>6. ASSUME NEW d \in DappName, ~Passes(d), Fails(d)
        PROVE  dapps'[d] = NoDapp
    BY <2>1, <2>6
  <2>7. dapps' \in [DappName -> DappObject \cup {NoDapp}]
    <3>1. dapps' = [d \in DappName |-> dapps'[d]]
      BY <2>1
    <3>2. \A d \in DappName : dapps'[d] \in DappObject \cup {NoDapp}
      BY <2>3, <2>4, <2>5, <2>6
    <3> QED BY <3>1, <3>2
  <2>8. \A d \in DappName : dapps[d].state = "approved" => dapps'[d].state = "approved"
    BY <2>2, <2>5
  <2>9. \A w \in votes : w.dapp \in DappName /\ dapps[w.dapp].state = "pending"
    BY <2>0 DEF DappsInv
  <2>10. \A w \in votes' : dapps'[w.dapp].state = "pending"
    BY <2>1, <2>5, <2>9
  <2>11. \A u \in users : u[1] \in DappName /\ dapps[u[1]] # NoDapp
    BY <2>0 DEF DappsInv
  <2>12. \A u \in users' : u \in users /\ ~Fails(u[1])
    BY <2>1 DEF Orphans
  <2>13. ASSUME NEW u \in users' PROVE dapps'[u[1]] # NoDapp
    <3>1. u[1] \in DappName /\ dapps[u[1]] # NoDapp /\ ~Fails(u[1])
      BY <2>11, <2>12
    <3>2. CASE Passes(u[1])
      <4>1. dapps'[u[1]].state = "approved"
        BY <2>4, <3>1, <3>2
      <4> QED BY <4>1 DEF NoDapp
    <3>3. CASE ~Passes(u[1])
      BY <2>5, <3>1, <3>3
    <3> QED BY <3>2, <3>3
  <2>14. votes' \subseteq votes /\ users' \subseteq users
    BY <2>1
  <2>15. DappsInv'
    BY <2>0, <2>7, <2>10, <2>13, <2>14 DEF DappsInv
  <2>16. CommentsInv'
    BY <2>0, <2>1, <2>8, CommentsStay
  <2> QED BY <2>15, <2>16 DEF Inv
<1>3. CASE ~(t > aggregated + AggregationInterval)
  <2>1. UNCHANGED dappVars
    BY <1>3 DEF Aggregate
  <2> QED BY <1>1, <2>1
<1> QED BY <1>2, <1>3

LEMMA CreateDappKeeps ==
    ASSUME Inv, NEW d \in DappName, NEW owner \in Account, CreateDapp(d, owner)
    PROVE  Inv'
<1>0. DappsInv /\ CommentsInv
  BY DEF Inv
<1>1. /\ dapps[d] = NoDapp
      /\ dapps' = [dapps EXCEPT ![d] = [state |-> "pending", owner |-> owner]]
      /\ users' = users \cup {<<d, owner>>}
      /\ UNCHANGED <<votes, comments, likes>>
  BY DEF CreateDapp
<1>2. dapps \in [DappName -> DappObject \cup {NoDapp}]
  BY <1>0 DEF DappsInv
<1>3. [state |-> "pending", owner |-> owner] \in DappObject
  BY DEF DappObject
<1>4. dapps' \in [DappName -> DappObject \cup {NoDapp}]
  BY <1>1, <1>2, <1>3
<1>5. dapps'[d].state = "pending" /\ dapps'[d] # NoDapp /\ dapps[d].state = "none"
  <2>1. dapps'[d] = [state |-> "pending", owner |-> owner]
    BY <1>1, <1>2
  <2> QED BY <1>1, <2>1 DEF NoDapp
<1>6. \A e \in DappName : e # d => dapps'[e] = dapps[e]
  BY <1>1, <1>2
<1>7. \A e \in DappName : dapps[e].state = "approved" => dapps'[e].state = "approved"
  BY <1>5, <1>6
<1>8. \A w \in votes : w.dapp \in DappName /\ dapps[w.dapp].state = "pending"
  BY <1>0 DEF DappsInv
<1>9. \A w \in votes' : dapps'[w.dapp].state = "pending"
  BY <1>1, <1>5, <1>6, <1>8
<1>10. \A u \in users : u[1] \in DappName /\ dapps[u[1]] # NoDapp
  BY <1>0 DEF DappsInv
<1>11. <<d, owner>> \in DappName \X Account /\ <<d, owner>>[1] = d
  OBVIOUS
<1>12. \A u \in users' : dapps'[u[1]] # NoDapp
  BY <1>1, <1>5, <1>6, <1>10, <1>11
<1>13. users \subseteq DappName \X Account
  BY <1>0 DEF DappsInv
<1>14. users' \subseteq DappName \X Account
  BY <1>1, <1>11, <1>13
<1>15. DappsInv'
  BY <1>0, <1>1, <1>4, <1>9, <1>12, <1>14 DEF DappsInv
<1>16. CommentsInv'
  BY <1>0, <1>1, <1>7, CommentsStay
<1> QED BY <1>15, <1>16 DEF Inv

\* Members come and go.
LEMMA MembersKeep ==
    ASSUME Inv, NEW d \in DappName, NEW a \in Account, JoinDapp(d, a) \/ LeaveDapp(d, a)
    PROVE  Inv'
<1>0. DappsInv /\ CommentsInv
  BY DEF Inv
<1>1. UNCHANGED <<dapps, votes, comments, likes>>
  BY DEF JoinDapp, LeaveDapp
<1>2. users' \subseteq users \cup {<<d, a>>} /\ (users' \subseteq users \/ Approved(d))
  BY DEF JoinDapp, LeaveDapp
<1>3. Approved(d) => dapps[d] # NoDapp
  BY DEF Approved, NoDapp
<1>4. <<d, a>> \in DappName \X Account /\ <<d, a>>[1] = d
  OBVIOUS
<1>5. users \subseteq DappName \X Account /\ \A u \in users : dapps[u[1]] # NoDapp
  BY <1>0 DEF DappsInv
<1>6. users' \subseteq DappName \X Account /\ \A u \in users' : dapps[u[1]] # NoDapp
  BY <1>2, <1>3, <1>4, <1>5
<1>7. DappsInv'
  BY <1>0, <1>1, <1>6 DEF DappsInv
<1>8. CommentsInv'
  BY <1>0, <1>1, CommentsStay
<1> QED BY <1>7, <1>8 DEF Inv

LEMMA VoteDappKeeps ==
    ASSUME Inv, NEW d \in DappName, NEW v \in Account, NEW choice \in {"approved", "rejected"},
           VoteDapp(d, v, choice)
    PROVE  Inv'
<1> DEFINE ballot == [dapp |-> d, voter |-> v, vote |-> choice]
<1>0. DappsInv /\ CommentsInv
  BY DEF Inv
<1>1. /\ dapps[d].state = "pending"
      /\ votes' \subseteq votes \cup {ballot}
      /\ UNCHANGED <<dapps, users, comments, likes>>
  BY DEF VoteDapp
<1>2. /\ ballot \in [dapp : DappName, voter : Account, vote : {"approved", "rejected"}]
      /\ ballot.dapp = d
  OBVIOUS
<1> HIDE DEF ballot
<1>3. DappsInv'
  BY <1>0, <1>1, <1>2 DEF DappsInv
<1>4. CommentsInv'
  BY <1>0, <1>1, CommentsStay
<1> QED BY <1>3, <1>4 DEF Inv

LEMMA CommentVoteKeeps ==
    ASSUME Inv, NEW c \in Key, NEW voter, NEW type, CommentVote(c, voter, type)
    PROVE  Inv'
<1>0. DappsInv /\ CommentsInv
  BY DEF Inv
<1>1. /\ c \in Present(comments)
      /\ likes' = likes \cup {<<c, voter, type>>}
      /\ UNCHANGED <<dapps, votes, users, comments>>
  BY ModelForms DEF CommentVote
<1>2. <<c, voter, type>>[1] = c
  OBVIOUS
<1>3. \A l \in likes' : l[1] \in Present(comments)
  BY <1>0, <1>1, <1>2 DEF CommentsInv
<1>4. CommentsInv'
  BY <1>0, <1>1, <1>3 DEF CommentsInv, Approved
<1>5. DappsInv'
  BY <1>0, <1>1, DappsStay
<1> QED BY <1>4, <1>5 DEF Inv

\* A new comment counts for all those above it.
LEMMA CreateCommentKeeps ==
    ASSUME Inv, NEW c \in Key, NEW p \in Key \cup {Root}, CreateComment(c, p)
    PROVE  Inv'
<1>0. DappsInv /\ CommentsInv
  BY DEF Inv
<1>1. /\ Approved(c[1])
      /\ p # Root => Exists(p)
      /\ ~Exists(c)
      /\ UNCHANGED <<dapps, votes, users, likes>>
  BY DEF CreateComment
<1>2. comments' = [x \in Key |->
        IF x = c THEN [parent |-> p, depth |-> CommentDepth(p), children |-> 0]
        ELSE IF x \in Above(p) THEN [comments[x] EXCEPT !.children = @ + 1]
        ELSE comments[x]]
  BY DEF CreateComment
<1>3. Added(comments, comments', c, p)
  BY <1>2, ModelForms DEF Added, CommentDepth
<1>4. Forest(comments) /\ IsFiniteSet(Present(comments)) /\ Counted(comments)
  BY <1>0 DEF CommentsInv
<1>5. MayAdd(comments, c, p)
  BY <1>1, <1>4, ModelForms DEF MayAdd
<1>6. Present(comments') = Present(comments) \cup {c} /\ Forest(comments')
  BY <1>3, <1>5, AddedForest
<1>7. Counted(comments') /\ IsFiniteSet(Present(comments'))
  BY <1>3, <1>4, <1>5, AddedCounted
<1>8. \A x \in Present(comments') : Approved(x[1])'
  BY <1>0, <1>1, <1>6 DEF CommentsInv, Approved
<1>9. \A l \in likes' : l[1] \in Present(comments')
  BY <1>0, <1>1, <1>6 DEF CommentsInv
<1>10. CommentsInv'
  BY <1>6, <1>7, <1>8, <1>9 DEF CommentsInv, Forest, Counted, Present, Placed, Below
<1>11. DappsInv'
  BY <1>0, <1>1, DappsStay
<1> QED BY <1>10, <1>11 DEF Inv

\* A comment that goes leaves no answers, no votes and no count behind.
LEMMA DeleteCommentKeeps ==
    ASSUME Inv, NEW c \in Key, DeleteComment(c)
    PROVE  Inv'
<1>0. DappsInv /\ CommentsInv
  BY DEF Inv
<1>1. /\ Exists(c) /\ comments[c].children = 0
      /\ likes' = {l \in likes : l[1] # c}
      /\ UNCHANGED <<dapps, votes, users>>
  BY DEF DeleteComment
<1>2. comments' = [x \in Key |->
        IF x = c THEN NoComment
        ELSE IF x \in Above(comments[c].parent) THEN [comments[x] EXCEPT !.children = @ - 1]
        ELSE comments[x]]
  BY DEF DeleteComment
<1>3. Removed(comments, comments', c)
  BY <1>2, ModelForms DEF Removed
<1>4. MayRemove(comments, c)
  BY <1>0, <1>1, ModelForms DEF MayRemove, CommentsInv
<1>5. Present(comments') = Present(comments) \ {c} /\ Forest(comments')
  BY <1>3, <1>4, RemovedForest
<1>6. Counted(comments') /\ IsFiniteSet(Present(comments'))
  BY <1>3, <1>4, RemovedCounted
<1>7. \A x \in Present(comments') : Approved(x[1])'
  BY <1>0, <1>1, <1>5 DEF CommentsInv, Approved
<1>8. \A l \in likes' : l[1] \in Present(comments')
  BY <1>0, <1>1, <1>5 DEF CommentsInv
<1>9. CommentsInv'
  BY <1>5, <1>6, <1>7, <1>8 DEF CommentsInv
<1>10. DappsInv'
  BY <1>0, <1>1, DappsStay
<1> QED BY <1>9, <1>10 DEF Inv

LEMMA DappOperationKeeps ==
    ASSUME Inv, DappOperation
    PROVE  Inv'
<1>1. CASE \E d \in DappName, a \in Account : CreateDapp(d, a) \/ JoinDapp(d, a) \/ LeaveDapp(d, a)
  BY <1>1, CreateDappKeeps, MembersKeep
<1>2. CASE \E d \in DappName : UpdateDappKey(d)
  <2>1. UNCHANGED <<dapps, votes, users, comments, likes>>
    BY <1>2 DEF UpdateDappKey
  <2> QED BY <2>1, DappsStay, CommentsStay DEF Inv
<1>3. CASE \E c \in Key, p \in Key \cup {Root} : CreateComment(c, p)
  BY <1>3, CreateCommentKeeps
<1>4. CASE \E c \in Key : EditComment(c)
  <2>1. UNCHANGED <<dapps, votes, users, comments, likes>>
    BY <1>4 DEF EditComment
  <2> QED BY <2>1, DappsStay, CommentsStay DEF Inv
<1>5. CASE \E c \in Key : DeleteComment(c)
  BY <1>5, DeleteCommentKeeps
<1>6. CASE \E c \in Key, v \in Account, t \in VoteType : CommentVote(c, v, t)
  BY <1>6, CommentVoteKeeps
<1>7. CASE \E d \in DappName, v \in Bproducer, c \in {"approved", "rejected"} : VoteDapp(d, v, c)
  <2>1. Bproducer \subseteq Account
    BY DappAssumption
  <2> QED BY <1>7, <2>1, VoteDappKeeps
<1>8. CASE \E v \in Bproducer, f \in FeeVote : VoteDappTrxFee(v, f)
  <2>1. UNCHANGED <<dapps, votes, users, comments, likes>>
    BY <1>8 DEF VoteDappTrxFee
  <2> QED BY <2>1, DappsStay, CommentsStay DEF Inv
<1> QED BY <1>1, <1>2, <1>3, <1>4, <1>5, <1>6, <1>7, <1>8 DEF DappOperation

LEMMA KindsOfStep ==
    ASSUME Next
    PROVE  \/ DappOperation \/ (\E d \in DappName : CreateToken(d)) \/ TokenOperation
           \/ (\E t \in 1 .. MaxTime : ApplyBlock(t))
           \/ PayStake \/ StakesPaid \/ StakeFails \/ PaySavings \/ SavingsPaid
<1>1. \A n : IssueToken(n) \/ BurnToken(n) => TokenOperation
  BY DEF IssueToken, BurnToken
<1>2. \A a, b, n : TransferToken(a, b, n) => TokenOperation
  BY DEF TransferToken
<1>3. \A f, n : SetupTokenFund(f, n) \/ TransferTokenFund(f, n) => TokenOperation
  BY DEF SetupTokenFund, TransferTokenFund
<1>4. \A m, r : SetTokenStakingInterest(m, r) => TokenOperation
  BY DEF SetTokenStakingInterest
<1>5. \A a, f, id, n, m : StakingTokenFund(a, f, id, n, m) => TokenOperation
  BY DEF StakingTokenFund
<1>6. \A a, b, id, n, m, t : TransferTokenSavings(a, b, id, n, m, t) => TokenOperation
  BY DEF TransferTokenSavings
<1>7. \A i : CancelTransferTokenSavings(i) \/ ConcludeTransferTokenSavings(i) => TokenOperation
  BY DEF CancelTransferTokenSavings, ConcludeTransferTokenSavings
<1> QED BY <1>1, <1>2, <1>3, <1>4, <1>5, <1>6, <1>7 DEF Next

LEMMA InvNext == Inv /\ [Next]_vars => Inv'
<1> SUFFICES ASSUME Inv, [Next]_vars PROVE Inv'
  OBVIOUS
<1> DEFINE Aside == UNCHANGED <<dapps, votes, users, comments, likes>>
<1>1. ASSUME Aside PROVE Inv'
  BY <1>1, DappsStay, CommentsStay DEF Inv
<1>2. CASE DappOperation
  BY <1>2, DappOperationKeeps
<1>3. CASE \E d \in DappName : CreateToken(d)
  <2>1. Aside
    BY <1>3 DEF CreateToken
  <2> QED BY <1>1, <2>1
<1>4. CASE TokenOperation
  <2>1. Aside
    BY <1>4 DEF TokenOperation
  <2> QED BY <1>1, <2>1
<1>5. CASE \E t \in 1 .. MaxTime : ApplyBlock(t)
  BY <1>5, AggregateKeeps DEF ApplyBlock
<1>6. CASE PayStake \/ StakesPaid \/ StakeFails \/ PaySavings \/ SavingsPaid
  <2>1. UNCHANGED dappVars
    BY <1>6 DEF PayStake, StakesPaid, StakeFails, PaySavings, SavingsPaid
  <2>2. Aside
    BY <2>1 DEF dappVars
  <2> QED BY <1>1, <2>2
<1>7. CASE UNCHANGED vars
  <2>1. Aside
    BY <1>7 DEF vars, dappVars
  <2> QED BY <1>1, <2>1
<1> QED BY <1>2, <1>3, <1>4, <1>5, <1>6, <1>7, KindsOfStep

\* The inductive invariant: the comments are a forest in which depths and
\* counts are right, in approved dapps, whatever the plugins do.
THEOREM Safety == Spec => []Inv
<1> QED BY InvInit, InvNext, PTL DEF Spec

\* Each comment counts all the comments below it, at any depth, so that only a
\* comment without answers is deleted; votes and members belong to what
\* exists, for any dapps, accounts and permlinks.
THEOREM CommentsAreConsistent == Spec => []CommentsConsistent
<1>1. Inv => CommentsConsistent
  <2> SUFFICES ASSUME Inv PROVE CommentsConsistent
    OBVIOUS
  <2>0. DappsInv /\ CommentsInv
    BY DEF Inv
  <2>1. ASSUME NEW c \in Key, Exists(c)
        PROVE  /\ Approved(c[1])
               /\ comments[c].parent # Root => Exists(comments[c].parent)
               /\ comments[c].children = Cardinality({x \in Key : Exists(x) /\ c \in Ancestors(x)})
    <3>1. c \in Present(comments)
      BY <2>1, ModelForms
    <3>2. {x \in Key : Exists(x) /\ c \in Ancestors(x)} = Below(comments, c)
      BY ModelForms DEF Below, Exists
    <3>3. comments[c].children = Cardinality(Below(comments, c))
      BY <2>0, <3>1 DEF CommentsInv, Counted
    <3>4. Approved(c[1])
      BY <2>0, <3>1 DEF CommentsInv
    <3>5. comments[c].parent # Root => comments[c].parent \in Present(comments)
      BY <2>0, <3>1 DEF CommentsInv, Forest, Placed
    <3>6. comments[c].parent # Root => Exists(comments[c].parent)
      BY <3>5 DEF Present, Exists
    <3> QED BY <3>2, <3>3, <3>4, <3>6
  <2>2. \A l \in likes : Exists(l[1])
    BY <2>0 DEF CommentsInv, Present, Exists
  <2>3. /\ \A w \in votes : dapps[w.dapp].state = "pending"
        /\ \A u \in users : dapps[u[1]] # NoDapp
    BY <2>0 DEF DappsInv
  <2> QED BY <2>1, <2>2, <2>3 DEF CommentsConsistent
<1> QED BY <1>1, Safety, PTL


-----------------------------------------------------------------------------
(* The tokens.                                                             *)

TokenObject == [dapp : DappName, publisher : Account, total : Int]
FundObject == [exists : BOOLEAN, balance : Int, withdraw : Int]
StakeObject == [from : Account, fund : Fund, id : RequestId, amount : Nat, date : Nat]
RequestRecord == [from : Account, to : Account, id : RequestId, amount : Nat, total : Nat,
                  order : Nat, months : Nat, date : Nat, updated : Nat]

\* What is left of a request is its total without the shares that were paid.
RequestObject ==
    {w \in RequestRecord : /\ w.order \in 1 .. w.months
                           /\ w.amount = w.total - (w.order - 1) * (w.total \div w.months)}

\* What an object counts for in the sums: the amount of a request for whom it
\* is to be paid to, the amount of a stake for its fund.
ToShare(a) == [r \in RequestObject |-> IF r.to = a THEN r.amount ELSE 0]
FundShare(f) == [r \in StakeObject |-> IF r.fund = f THEN r.amount ELSE 0]

\* What is to be paid to an account.
LEMMA OwedIs ==
    ASSUME NEW ss \in Seq(RequestObject), NEW a
    PROVE  SumWhere(ss, LAMBDA r : r.to = a) = SeqSum(ss, ToShare(a))
<1> DEFINE n == Len(ss)
           D == DOMAIN ss
           ch == LastOf(D)
           f == [i \in D |-> ss[i].amount]
           W == {i \in D : ss[i].to = a}
           LastIn(s) == CHOOSE x \in s : \A y \in s : x >= y
           Raw(g) == g = [s \in SUBSET D |->
                            IF s = {} THEN 0
                            ELSE IF ss[LastIn(s)].to = a
                                 THEN g[s \ {LastIn(s)}] + ss[LastIn(s)].amount
                                 ELSE g[s \ {LastIn(s)}]]
           g == CHOOSE g : Raw(g)
<1>1. n \in Nat /\ D = 1 .. n /\ IsFiniteSet(D)
  BY UpTo
<1>2. SumWhere(ss, LAMBDA r : r.to = a) = g[D]
  BY DEF SumWhere, FoldLeft, MapThenFoldSet, Max
<1>3. Picks(ch, D)
  BY <1>1, ChoicesPick
<1>4. \A h : Raw(h) <=> PickLastIn(h, f, W, D, ch)
  <2> SUFFICES ASSUME NEW h PROVE Raw(h) <=> PickLastIn(h, f, W, D, ch)
    OBVIOUS
  <2> DEFINE A == [s \in SUBSET D |->
                     IF s = {} THEN 0
                     ELSE IF ss[LastIn(s)].to = a
                          THEN h[s \ {LastIn(s)}] + ss[LastIn(s)].amount
                          ELSE h[s \ {LastIn(s)}]]
             B == [s \in SUBSET D |-> IF s = {} THEN 0
                                      ELSE IF ch[s] \in W THEN h[s \ {ch[s]}] + f[ch[s]]
                                                          ELSE h[s \ {ch[s]}]]
  <2>1. \A s \in SUBSET D : s # {} => ch[s] = LastIn(s) /\ ch[s] \in D
    BY <1>3 DEF LastOf, Picks
  <2>2. \A s \in SUBSET D : s # {} => /\ f[ch[s]] = ss[LastIn(s)].amount
                                      /\ ch[s] \in W <=> ss[LastIn(s)].to = a
    BY <2>1
  <2> HIDE DEF ch, LastIn, W, f
  <2>3. \A s \in SUBSET D : A[s] = B[s]
    BY <2>1, <2>2
  <2>4. A = [s \in SUBSET D |-> A[s]] /\ B = [s \in SUBSET D |-> B[s]]
    OBVIOUS
  <2>5. A = B
    <3> HIDE DEF A, B
    <3> QED BY <2>3, <2>4
  <2> QED BY <2>5 DEF PickLastIn
<1>5. \A i \in D : ss[i] \in RequestObject /\ f[i] = ss[i].amount /\ f[i] \in Int
  <2>1. \A i \in D : ss[i] \in RequestObject
    OBVIOUS
  <2>2. \A x \in RequestObject : x.amount \in Nat
    BY DEF RequestObject, RequestRecord
  <2>3. \A i \in D : f[i] = ss[i].amount
    OBVIOUS
  <2> QED BY <2>1, <2>2, <2>3
<1>6. \A i \in D : Values(ss, ToShare(a))[i] = Only(f, W, D)[i]
  BY <1>1, <1>5 DEF Values, ToShare, Only
<1> HIDE DEF ch, Raw, f, W, D
<1>7. Valued(f, D)
  BY <1>1, <1>5 DEF Valued
<1>8. /\ Valued(Only(f, W, D), D)
      /\ \E h : PickLastIn(h, f, W, D, ch)
      /\ \A h : PickLastIn(h, f, W, D, ch) => h[D] = Total(Only(f, W, D), D)
  BY <1>3, <1>7, TotalOnly
<1>9. Raw(g)
  BY <1>4, <1>8
<1> HIDE DEF g
<1>10. Total(Values(ss, ToShare(a)), D) = Total(Only(f, W, D), D)
  BY <1>6, <1>8, TotalSame
<1> QED BY <1>1, <1>2, <1>4, <1>8, <1>9, <1>10 DEF SeqSum

\* What the stakes of a fund were promised.
LEMMA PromisedIs ==
    ASSUME NEW ss \in Seq(StakeObject), NEW a
    PROVE  SumWhere(ss, LAMBDA r : r.fund = a) = SeqSum(ss, FundShare(a))
<1> DEFINE n == Len(ss)
           D == DOMAIN ss
           ch == LastOf(D)
           f == [i \in D |-> ss[i].amount]
           W == {i \in D : ss[i].fund = a}
           LastIn(s) == CHOOSE x \in s : \A y \in s : x >= y
           Raw(g) == g = [s \in SUBSET D |->
                            IF s = {} THEN 0
                            ELSE IF ss[LastIn(s)].fund = a
                                 THEN g[s \ {LastIn(s)}] + ss[LastIn(s)].amount
                                 ELSE g[s \ {LastIn(s)}]]
           g == CHOOSE g : Raw(g)
<1>1. n \in Nat /\ D = 1 .. n /\ IsFiniteSet(D)
  BY UpTo
<1>2. SumWhere(ss, LAMBDA r : r.fund = a) = g[D]
  BY DEF SumWhere, FoldLeft, MapThenFoldSet, Max
<1>3. Picks(ch, D)
  BY <1>1, ChoicesPick
<1>4. \A h : Raw(h) <=> PickLastIn(h, f, W, D, ch)
  <2> SUFFICES ASSUME NEW h PROVE Raw(h) <=> PickLastIn(h, f, W, D, ch)
    OBVIOUS
  <2> DEFINE A == [s \in SUBSET D |->
                     IF s = {} THEN 0
                     ELSE IF ss[LastIn(s)].fund = a
                          THEN h[s \ {LastIn(s)}] + ss[LastIn(s)].amount
                          ELSE h[s \ {LastIn(s)}]]
             B == [s \in SUBSET D |-> IF s = {} THEN 0
                                      ELSE IF ch[s] \in W THEN h[s \ {ch[s]}] + f[ch[s]]
                                                          ELSE h[s \ {ch[s]}]]
  <2>1. \A s \in SUBSET D : s # {} => ch[s] = LastIn(s) /\ ch[s] \in D
    BY <1>3 DEF LastOf, Picks
  <2>2. \A s \in SUBSET D : s # {} => /\ f[ch[s]] = ss[LastIn(s)].amount
                                      /\ ch[s] \in W <=> ss[LastIn(s)].fund = a
    BY <2>1
  <2> HIDE DEF ch, LastIn, W, f
  <2>3. \A s \in SUBSET D : A[s] = B[s]
    BY <2>1, <2>2
  <2>4. A = [s \in SUBSET D |-> A[s]] /\ B = [s \in SUBSET D |-> B[s]]
    OBVIOUS
  <2>5. A = B
    <3> HIDE DEF A, B
    <3> QED BY <2>3, <2>4
  <2> QED BY <2>5 DEF PickLastIn
<1>5. \A i \in D : ss[i] \in StakeObject /\ f[i] = ss[i].amount /\ f[i] \in Int
  <2>1. \A i \in D : ss[i] \in StakeObject
    OBVIOUS
  <2>2. \A x \in StakeObject : x.amount \in Nat
    BY DEF StakeObject
  <2>3. \A i \in D : f[i] = ss[i].amount
    OBVIOUS
  <2> QED BY <2>1, <2>2, <2>3
<1>6. \A i \in D : Values(ss, FundShare(a))[i] = Only(f, W, D)[i]
  BY <1>1, <1>5 DEF Values, FundShare, Only
<1> HIDE DEF ch, Raw, f, W, D
<1>7. Valued(f, D)
  BY <1>1, <1>5 DEF Valued
<1>8. /\ Valued(Only(f, W, D), D)
      /\ \E h : PickLastIn(h, f, W, D, ch)
      /\ \A h : PickLastIn(h, f, W, D, ch) => h[D] = Total(Only(f, W, D), D)
  BY <1>3, <1>7, TotalOnly
<1>9. Raw(g)
  BY <1>4, <1>8
<1> HIDE DEF g
<1>10. Total(Values(ss, FundShare(a)), D) = Total(Only(f, W, D), D)
  BY <1>6, <1>8, TotalSame
<1> QED BY <1>1, <1>2, <1>4, <1>8, <1>9, <1>10 DEF SeqSum


-----------------------------------------------------------------------------
(* The indexes by date.                                                    *)

Dated(S) == \A x \in S : x.date \in Nat
Sorted(s) == \A i, j \in 1 .. Len(s) : i <= j => s[i].date <= s[j].date

\* In an index that is in order those up to a date are the first ones.
LEMMA FirstOnes ==
    ASSUME NEW S, Dated(S), NEW s \in Seq(S), Sorted(s), NEW d \in Nat
    PROVE  LET c == Cardinality({i \in DOMAIN s : s[i].date <= d})
           IN  c \in 0 .. Len(s) /\ \A i \in 1 .. Len(s) : s[i].date <= d <=> i <= c
<1> DEFINE n == Len(s)
           X == {i \in 1 .. n : s[i].date <= d}
<1>1. n \in Nat /\ DOMAIN s = 1 .. n
  OBVIOUS
<1>2. \A i \in 1 .. n : s[i].date \in Nat
  <2>1. \A i \in 1 .. n : s[i] \in S
    OBVIOUS
  <2> QED BY <2>1 DEF Dated
<1>3. \A i, j \in 1 .. n : i <= j => s[i].date <= s[j].date
  BY DEF Sorted
<1> HIDE DEF n
<1>4. CASE X = {}
  <2>1. Cardinality(X) = 0
    BY <1>4, FS_EmptySet
  <2>2. \A i \in 1 .. n : ~(s[i].date <= d) /\ ~(i <= 0)
    BY <1>1, <1>4
  <2>3. 0 \in 0 .. n
    BY <1>1
  <2> QED BY <1>1, <2>1, <2>2, <2>3 DEF n
<1>5. CASE X # {}
  <2>1. X \subseteq 0 .. n
    BY <1>1
  <2>2. PICK c \in X : \A y \in X : y <= c
    <3> HIDE DEF X
    <3> QED BY <1>1, <1>5, <2>1, NatMax
  <2>3. c \in 1 .. n /\ s[c].date <= d
    BY <2>2
  <2>4. ASSUME NEW i \in 1 .. n
        PROVE  s[i].date <= d <=> i <= c
    <3>1. CASE i <= c
      <4>1. s[i].date <= s[c].date
        BY <1>3, <2>3, <3>1
      <4>2. s[i].date <= d
        BY <1>2, <2>3, <4>1
      <4> QED BY <3>1, <4>2
    <3>2. CASE ~(i <= c)
      <4>1. i \notin X
        BY <2>2, <3>2
      <4> QED BY <3>2, <4>1
    <3> QED BY <3>1, <3>2
  <2>5. X = 1 .. c
    <3>1. \A i \in 1 .. n : i \in X <=> i <= c
      BY <2>4
    <3> HIDE DEF X
    <3>2. X \subseteq 1 .. n
      BY DEF X
    <3>3. \A i \in 1 .. c : i \in 1 .. n /\ i <= c
      BY <1>1, <2>3
    <3>4. \A i \in 1 .. n : i <= c => i \in 1 .. c
      BY <1>1, <2>3
    <3> DEFINE C == 1 .. c
    <3>5. (\A i \in C : i \in X) /\ (\A i \in X : i \in C)
      BY <3>1, <3>2, <3>3, <3>4
    <3> HIDE DEF C
    <3>6. X = C
      BY <3>5
    <3> QED BY <3>6 DEF C
  <2>6. c \in Nat /\ c \in 0 .. n
    BY <1>1, <2>3
  <2>7. Cardinality(X) = c
    BY <2>5, <2>6, UpTo
  <2> HIDE DEF X
  <2>8. {i \in DOMAIN s : s[i].date <= d} = X
    BY <1>1 DEF X
  <2> QED BY <2>4, <2>6, <2>7, <2>8 DEF n
<1> QED BY <1>4, <1>5

LEMMA SortedWithout ==
    ASSUME NEW S, Dated(S), NEW s \in Seq(S), Sorted(s), NEW r \in Seq(S),
           NEW i \in 1 .. Len(s), Without(r, s, i)
    PROVE  Sorted(r)
<1> DEFINE n == Len(s)
           B(j) == IF j < i THEN j ELSE j + 1
<1>1. n \in Nat /\ Len(r) = n - 1 /\ i \in 1 .. n
  BY DEF Without
<1>2. \A j \in 1 .. n - 1 : r[j] = s[B(j)]
  BY DEF Without
<1>3. \A j, k \in 1 .. n : j <= k => s[j].date <= s[k].date
  BY DEF Sorted
<1> HIDE DEF n
<1>4. ASSUME NEW j \in 1 .. n - 1, NEW k \in 1 .. n - 1, j <= k
      PROVE  r[j].date <= r[k].date
  <2>1. B(j) \in 1 .. n /\ B(k) \in 1 .. n /\ B(j) <= B(k)
    BY <1>1, <1>4
  <2>2. s[B(j)].date <= s[B(k)].date
    BY <1>3, <2>1
  <2> QED BY <1>2, <2>2
<1> QED BY <1>1, <1>4 DEF Sorted

LEMMA RemovedFacts ==
    ASSUME NEW S, Dated(S), NEW s \in Seq(S), Sorted(s), NEW i \in 1 .. Len(s)
    PROVE  /\ RemoveAt(s, i) \in Seq(S) /\ Sorted(RemoveAt(s, i))
           /\ Without(RemoveAt(s, i), s, i)
<1> DEFINE r == RemoveAt(s, i)
<1>1. r \in Seq(S) /\ Without(r, s, i)
  BY RemovedSeq DEF RemoveAt, Without
<1> HIDE DEF r
<1>2. Sorted(r)
  BY <1>1, SortedWithout
<1> QED BY <1>1, <1>2 DEF r

\* An object comes behind those with its date, and the order stays.
LEMMA InsertedFacts ==
    ASSUME NEW S, Dated(S), NEW s \in Seq(S), Sorted(s), NEW e \in S
    PROVE  /\ Inserted(s, e) \in Seq(S) /\ Sorted(Inserted(s, e))
           /\ \E p \in 1 .. Len(Inserted(s, e)) : /\ Inserted(s, e)[p] = e
                                                  /\ Without(s, Inserted(s, e), p)
<1> DEFINE n == Len(s)
           c == Cardinality({i \in DOMAIN s : s[i].date <= e.date})
           p == c + 1
           r == Inserted(s, e)
<1>1. n \in Nat /\ e.date \in Nat /\ \A i \in 1 .. n : s[i].date \in Nat
  <2>1. \A i \in 1 .. n : s[i] \in S
    OBVIOUS
  <2> QED BY <2>1 DEF Dated
<1>2. c \in 0 .. n /\ \A i \in 1 .. n : s[i].date <= e.date <=> i <= c
  BY <1>1, FirstOnes
<1>3. r = InsertAt(s, p, e)
  BY DEF Inserted
<1> HIDE DEF c
<1>4. p \in 1 .. n + 1
  BY <1>1, <1>2
<1> HIDE DEF p, r
<1>5. /\ r \in Seq(S) /\ Len(r) = n + 1 /\ r[p] = e
      /\ \A j \in 1 .. n : s[j] = r[IF j < p THEN j ELSE j + 1]
  <2>1. r = Spliced(s, p, e)
    BY <1>3 DEF InsertAt, Spliced
  <2> QED BY <1>4, <2>1, InsertedSeq
<1>6. p \in 1 .. Len(r) /\ Without(s, r, p)
  <2>1. n = Len(r) - 1
    BY <1>1, <1>5
  <2> QED BY <1>4, <1>5, <2>1 DEF Without
<1>7. \A i, j \in 1 .. n : i <= j => s[i].date <= s[j].date
  BY DEF Sorted
<1>8. \A j \in 1 .. n + 1 : /\ j < p => j \in 1 .. n /\ r[j] = s[j]
                            /\ j > p => j - 1 \in 1 .. n /\ r[j] = s[j - 1]
  <2> HIDE DEF n
  <2> SUFFICES ASSUME NEW j \in 1 .. n + 1
               PROVE  /\ j < p => j \in 1 .. n /\ r[j] = s[j]
                      /\ j > p => j - 1 \in 1 .. n /\ r[j] = s[j - 1]
    OBVIOUS
  <2>1. CASE j < p
    <3>1. j \in 1 .. n
      BY <1>1, <1>4, <2>1
    <3> QED BY <1>4, <1>5, <2>1, <3>1
  <2>2. CASE j > p
    <3> DEFINE k == j - 1
    <3>1. k \in 1 .. n /\ ~(k < p) /\ k + 1 = j
      BY <1>1, <1>4, <2>2
    <3> HIDE DEF k
    <3>2. s[k] = r[j]
      BY <1>5, <3>1
    <3> QED BY <1>4, <2>2, <3>1, <3>2 DEF k
  <2>3. CASE j = p
    BY <1>4, <2>3
  <2> QED BY <1>4, <2>1, <2>2, <2>3
<1>9. ASSUME NEW i \in 1 .. n + 1, NEW j \in 1 .. n + 1, i <= j
      PROVE  r[i].date <= r[j].date
  <2> HIDE DEF n
  <2>0. c \in Int /\ p = c + 1 /\ p \in Int /\ i \in Int /\ j \in Int
    BY <1>1, <1>2, <1>4 DEF p
  <2>1. CASE j < p
    <3>1. i < p
      BY <1>9, <2>0, <2>1
    <3> QED BY <1>7, <1>8, <1>9, <2>1, <3>1
  <2>2. CASE i > p
    <3>1. j > p /\ i - 1 <= j - 1
      BY <1>9, <2>0, <2>2
    <3>2. i - 1 \in 1 .. n /\ j - 1 \in 1 .. n /\ r[i] = s[i - 1] /\ r[j] = s[j - 1]
      BY <1>8, <2>2, <3>1
    <3> QED BY <1>7, <3>1, <3>2
  <2>3. CASE i <= p /\ j >= p
    <3>1. r[i].date <= e.date /\ r[i].date \in Nat
      <4>1. CASE i = p
        BY <1>1, <1>5, <4>1
      <4>2. CASE i < p
        <5>1. i \in 1 .. n /\ r[i] = s[i] /\ i <= c
          BY <1>8, <2>0, <4>2
        <5> QED BY <1>1, <1>2, <5>1
      <4> QED BY <2>0, <2>3, <4>1, <4>2
    <3>2. e.date <= r[j].date /\ r[j].date \in Nat
      <4>1. CASE j = p
        BY <1>1, <1>5, <4>1
      <4>2. CASE j > p
        <5> DEFINE k == j - 1
        <5>1. k \in 1 .. n /\ r[j] = s[k] /\ ~(k <= c)
          BY <1>8, <2>0, <4>2
        <5> HIDE DEF k
        <5>2. ~(s[k].date <= e.date) /\ s[k].date \in Nat
          BY <1>1, <1>2, <5>1
        <5> QED BY <1>1, <5>1, <5>2
      <4> QED BY <2>0, <2>3, <4>1, <4>2
    <3> DEFINE x == r[i].date
               y == r[j].date
               z == e.date
    <3>3. x \in Nat /\ y \in Nat /\ z \in Nat /\ x <= z /\ z <= y
      BY <1>1, <3>1, <3>2
    <3> HIDE DEF x, y, z
    <3>4. x <= y
      BY <3>3
    <3> QED BY <3>4 DEF x, y
  <2> QED BY <2>0, <2>1, <2>2, <2>3
<1>10. Sorted(r)
  BY <1>5, <1>9 DEF Sorted
<1> QED BY <1>5, <1>6, <1>10 DEF r


\* An object with a later date stays or moves, the order stays, and a sum
\* changes by what the object changes.
Relocated(m, s, i, w, S) ==
    /\ m \in Seq(S) /\ Sorted(m) /\ \E p \in DOMAIN m : m[p] = w
    /\ \A v \in [S -> Int] : SeqSum(m, v) + v[s[i]] = SeqSum(s, v) + v[w]

LEMMA MovedFacts ==
    ASSUME NEW S, Dated(S), NEW s \in Seq(S), Sorted(s), NEW i \in 1 .. Len(s), NEW w \in S,
           s[i].date <= w.date
    PROVE  Relocated(Moved(s, i, w), s, i, w, S)
<1> DEFINE n == Len(s)
           m == Moved(s, i, w)
<1> SUFFICES /\ m \in Seq(S) /\ Sorted(m) /\ \E p \in DOMAIN m : m[p] = w
             /\ \A v \in [S -> Int] : SeqSum(m, v) + v[s[i]] = SeqSum(s, v) + v[w]
  BY DEF Relocated
<1>1. n \in Nat /\ DOMAIN s = 1 .. n /\ w.date \in Nat /\ \A j \in 1 .. n : s[j].date \in Nat
  <2>1. \A j \in 1 .. n : s[j] \in S
    OBVIOUS
  <2> QED BY <2>1 DEF Dated
<1>2. CASE i = n \/ s[i + 1].date >= w.date
  <2>1. m = ReplaceAt(s, i, w)
    BY <1>2 DEF Moved
  <2>2. /\ m \in Seq(S) /\ Len(m) = n /\ DOMAIN m = 1 .. n /\ m[i] = w
        /\ \A j \in 1 .. n : j # i => m[j] = s[j]
    BY <2>1 DEF ReplaceAt
  <2> HIDE DEF m
  <2>3. \A v \in [S -> Int] : SeqSum(m, v) + v[s[i]] = SeqSum(s, v) + v[w]
    <3> SUFFICES ASSUME NEW v \in [S -> Int]
                 PROVE  SeqSum(m, v) + v[s[i]] = SeqSum(s, v) + v[w]
      OBVIOUS
    <3>1. SeqSum(m, v) + v[s[i]] = SeqSum(s, v) + v[m[i]]
      BY <2>2, SeqSumReplaced, ZenonT(60)
    <3> QED BY <2>2, <3>1
  <2>4. \A j, k \in 1 .. n : j <= k => s[j].date <= s[k].date
    BY DEF Sorted
  <2>5. ASSUME NEW j \in 1 .. n, NEW k \in 1 .. n, j <= k
        PROVE  m[j].date <= m[k].date
    <3> HIDE DEF n
    <3>0. i \in 1 .. n
      BY DEF n
    <3>1. CASE j # i /\ k # i
      BY <2>2, <2>4, <2>5, <3>1
    <3>2. CASE k = i /\ j # i
      <4> DEFINE x == s[j].date
                 y == s[i].date
                 z == w.date
      <4>1. x \in Nat /\ y \in Nat /\ z \in Nat /\ x <= y /\ y <= z
        BY <1>1, <2>4, <2>5, <3>0, <3>2
      <4> HIDE DEF x, y, z
      <4>2. x <= z
        BY <4>1
      <4> QED BY <2>2, <3>0, <3>2, <4>2 DEF x, z
    <3>3. CASE j = i /\ k # i
      <4>1. i + 1 \in 1 .. n /\ i + 1 <= k /\ i # n
        BY <1>1, <2>5, <3>0, <3>3
      <4> DEFINE x == w.date
                 y == s[i + 1].date
                 z == s[k].date
      <4>2. y >= x
        BY <1>2, <4>1 DEF n
      <4>3. x \in Nat /\ y \in Nat /\ z \in Nat /\ y <= z
        BY <1>1, <2>4, <4>1
      <4> HIDE DEF x, y, z
      <4>4. x <= z
        BY <4>2, <4>3
      <4> QED BY <2>2, <3>0, <3>3, <4>4 DEF x, z
    <3>4. CASE j = i /\ k = i
      BY <1>1, <2>2, <3>0, <3>4
    <3> QED BY <3>1, <3>2, <3>3, <3>4
  <2>6. Sorted(m)
    BY <2>2, <2>5 DEF Sorted
  <2>7. \E p \in DOMAIN m : m[p] = w
    BY <2>2
  <2> QED BY <2>2, <2>3, <2>6, <2>7 DEF m
<1>3. CASE ~(i = n \/ s[i + 1].date >= w.date)
  <2> DEFINE r == RemoveAt(s, i)
  <2>1. m = Inserted(r, w)
    BY <1>3 DEF Moved
  <2>2. r \in Seq(S) /\ Sorted(r) /\ Without(r, s, i)
    BY RemovedFacts
  <2> HIDE DEF m, r
  <2>3. /\ m \in Seq(S) /\ Sorted(m)
        /\ \E p \in 1 .. Len(m) : m[p] = w /\ Without(r, m, p)
    BY <2>1, <2>2, InsertedFacts
  <2>4. PICK p \in 1 .. Len(m) : m[p] = w /\ Without(r, m, p)
    BY <2>3
  <2>5. ASSUME NEW v \in [S -> Int]
        PROVE  SeqSum(m, v) + v[s[i]] = SeqSum(s, v) + v[w]
    <3> DEFINE x == SeqSum(r, v)
               y == v[s[i]]
               z == v[w]
    <3>1. SeqSum(s, v) = y + x
      <4>1. SumWithout(s, r, i, v)
        BY <2>2, SeqSumWithout
      <4> QED BY <4>1 DEF SumWithout
    <3>2. SeqSum(m, v) = z + x
      <4>1. SumWithout(m, r, p, v)
        BY <2>2, <2>3, <2>4, SeqSumWithout
      <4> QED BY <2>4, <4>1 DEF SumWithout
    <3>3. x \in Int /\ y \in Int /\ z \in Int
      <4>1. s[i] \in S
        OBVIOUS
      <4>2. x \in Int
        BY <2>2, ValuesFacts
      <4> QED BY <4>1, <4>2
    <3> HIDE DEF x, y, z
    <3>4. (z + x) + y = (y + x) + z
      BY <3>3
    <3> QED BY <3>1, <3>2, <3>4 DEF y, z
  <2>6. \E q \in DOMAIN m : m[q] = w
    <3>1. DOMAIN m = 1 .. Len(m)
      BY <2>3
    <3> QED BY <2>4, <3>1
  <2> QED BY <2>3, <2>5, <2>6 DEF m
<1> QED BY <1>2, <1>3


-----------------------------------------------------------------------------
(* The sums over accounts and funds.                                       *)

LEMMA SumOverIs ==
    ASSUME NEW S, NEW f, Valued(f, S)
    PROVE  SumOver(f, S) = Total(f, S)
<1> DEFINE ch == AnyOf(S)
           Raw(g) == g = [s \in SUBSET S |->
                            IF s = {} THEN 0
                            ELSE f[CHOOSE x \in s : TRUE] + g[s \ {CHOOSE x \in s : TRUE}]]
           g == CHOOSE g : Raw(g)
<1>1. SumOver(f, S) = g[S]
  BY DEF SumOver, MapThenSumSet, MapThenFoldSet
<1>2. \A h : Raw(h) <=> PickSum(h, f, S, ch)
  BY DEF PickSum, AnyOf
<1>3. Picks(ch, S)
  BY ChoicesPick
<1> HIDE DEF ch, Raw
<1>4. /\ \E h : PickSum(h, f, S, ch)
      /\ \A h : PickSum(h, f, S, ch) => h[S] = Total(f, S)
  BY <1>3, TotalByPicks
<1>5. Raw(g)
  BY <1>2, <1>4
<1> HIDE DEF g
<1> QED BY <1>1, <1>2, <1>4, <1>5

FundSum(F) == MapThenSumSet(LAMBDA f : F[f].balance, Fund)
FundBalances(F) == [f \in Fund |-> F[f].balance]

LEMMA FundSumIs ==
    ASSUME NEW F, Valued(FundBalances(F), Fund)
    PROVE  FundSum(F) = Total(FundBalances(F), Fund)
<1> DEFINE ch == AnyOf(Fund)
           f == FundBalances(F)
           AnyIn(s) == CHOOSE x \in s : TRUE
           Raw(g) == g = [s \in SUBSET Fund |->
                            IF s = {} THEN 0
                            ELSE F[AnyIn(s)].balance + g[s \ {AnyIn(s)}]]
           g == CHOOSE g : Raw(g)
<1>1. FundSum(F) = g[Fund]
  BY DEF FundSum, MapThenSumSet, MapThenFoldSet
<1>2. \A h : Raw(h) <=> PickSum(h, f, Fund, ch)
  <2> SUFFICES ASSUME NEW h PROVE Raw(h) <=> PickSum(h, f, Fund, ch)
    OBVIOUS
  <2> DEFINE A == [s \in SUBSET Fund |->
                     IF s = {} THEN 0
                     ELSE F[AnyIn(s)].balance + h[s \ {AnyIn(s)}]]
             B == [s \in SUBSET Fund |-> IF s = {} THEN 0 ELSE f[ch[s]] + h[s \ {ch[s]}]]
  <2>1. \A s \in SUBSET Fund : s # {} => ch[s] = AnyIn(s) /\ ch[s] \in Fund
    BY DEF AnyOf
  <2>2. \A s \in SUBSET Fund : s # {} => f[ch[s]] = F[AnyIn(s)].balance
    BY <2>1 DEF FundBalances
  <2> HIDE DEF AnyIn, ch, f
  <2>3. \A s \in SUBSET Fund : A[s] = B[s]
    BY <2>1, <2>2
  <2>4. A = [s \in SUBSET Fund |-> A[s]] /\ B = [s \in SUBSET Fund |-> B[s]]
    OBVIOUS
  <2>5. A = B
    <3> HIDE DEF A, B
    <3> QED BY <2>3, <2>4
  <2> QED BY <2>5 DEF PickSum
<1>3. Picks(ch, Fund)
  BY ChoicesPick
<1> HIDE DEF ch, Raw, f
<1>4. /\ \E h : PickSum(h, f, Fund, ch)
      /\ \A h : PickSum(h, f, Fund, ch) => h[Fund] = Total(f, Fund)
  BY <1>3, TotalByPicks DEF f
<1>5. Raw(g)
  BY <1>2, <1>4
<1> HIDE DEF g
<1> QED BY <1>1, <1>2, <1>4, <1>5 DEF f

LEMMA AddFacts ==
    ASSUME NEW f \in [Account -> Int], NEW a \in Account, NEW n \in Int
    PROVE  /\ Add(f, a, n) \in [Account -> Int]
           /\ Add(f, a, n)[a] = f[a] + n
           /\ \A x \in Account : x # a => Add(f, a, n)[x] = f[x]
           /\ SumOver(Add(f, a, n), Account) = SumOver(f, Account) + n
<1> DEFINE k == Add(f, a, n)
<1>1. f[a] \in Int /\ f[a] + n \in Int
  OBVIOUS
<1>2. k \in [Account -> Int] /\ \A x \in Account : k[x] = IF x = a THEN f[a] + n ELSE f[x]
  BY <1>1 DEF Add
<1>3. Valued(f, Account)
  BY TokenAssumption DEF Valued
<1> HIDE DEF k
<1>4. Total(k, Account) = Total(f, Account) + n /\ Valued(k, Account)
  BY <1>2, <1>3, TotalChange
<1>5. SumOver(f, Account) = Total(f, Account) /\ SumOver(k, Account) = Total(k, Account)
  BY <1>3, <1>4, SumOverIs
<1>6. \A x \in Account : x # a => k[x] = f[x]
  BY <1>2
<1> QED BY <1>2, <1>4, <1>5, <1>6 DEF k

LEMMA SumOverType ==
    ASSUME NEW f \in [Account -> Int]
    PROVE  SumOver(f, Account) \in Int
<1>1. Valued(f, Account)
  BY TokenAssumption DEF Valued
<1> QED BY <1>1, SumOverIs, TotalType

LEMMA SumOverNone == SumOver([a \in Account |-> 0], Account) = 0
<1> DEFINE f == [a \in Account |-> 0]
           S == Account
<1>1. IsFiniteSet(S) /\ \A x \in S : f[x] = 0 /\ f[x] \in Int
  BY TokenAssumption
<1>2. Valued(f, S)
  BY <1>1 DEF Valued
<1> HIDE DEF f, S
<1>3. Total(f, S) = 0
  BY <1>1, <1>2, TotalZero
<1>4. SumOver(f, S) = Total(f, S)
  BY <1>2, SumOverIs
<1> QED BY <1>3, <1>4 DEF f, S

\* One fund changes.
LEMMA FundChanges ==
    ASSUME NEW F \in [Fund -> FundObject], NEW f \in Fund, NEW G, NEW b \in Int,
           G \in [Fund -> FundObject], G[f].balance = F[f].balance + b,
           \A x \in Fund : x # f => G[x] = F[x]
    PROVE  FundSum(G) = FundSum(F) + b
<1> DEFINE k == FundBalances(F)
           h == FundBalances(G)
<1>1. \A x \in Fund : k[x] = F[x].balance /\ h[x] = G[x].balance
  BY DEF FundBalances
<1>2. \A x \in Fund : F[x].balance \in Int
  <2>1. \A x \in Fund : F[x] \in FundObject
    OBVIOUS
  <2> QED BY <2>1 DEF FundObject
<1> HIDE DEF h, k
<1>3. Valued(k, Fund)
  BY <1>1, <1>2, TokenAssumption DEF Valued
<1>4. \A x \in Fund : h[x] = IF x = f THEN k[f] + b ELSE k[x]
  BY <1>1
<1>5. Total(h, Fund) = Total(k, Fund) + b /\ Valued(h, Fund)
  BY <1>3, <1>4, TotalChange
<1> QED BY <1>3, <1>5, FundSumIs DEF h, k

LEMMA FundSumType ==
    ASSUME NEW F \in [Fund -> FundObject]
    PROVE  FundSum(F) \in Int
<1> DEFINE k == FundBalances(F)
<1>1. \A x \in Fund : k[x] \in Int
  <2>1. \A x \in Fund : F[x] \in FundObject
    OBVIOUS
  <2> QED BY <2>1 DEF FundObject, FundBalances
<1> HIDE DEF k
<1>2. Valued(k, Fund)
  BY <1>1, TokenAssumption DEF Valued
<1> QED BY <1>2, FundSumIs, TotalType DEF k


-----------------------------------------------------------------------------
(* The invariant of the tokens.                                            *)

TokenTypes ==
    /\ token = NoToken \/ token \in TokenObject
    /\ balance \in [Account -> Int] /\ savings \in [Account -> Int] /\ lost \in Int
    /\ funds \in [Fund -> FundObject]
    /\ interest \in [Month -> Rate \cup {NotOffered}]
    /\ stakes \in Seq(StakeObject) /\ requests \in Seq(RequestObject)
    /\ at \in Nat \ {0} /\ now \in Nat /\ phase \in {"txs", "stakes", "savings"}

Conserved ==
    token.total = SumOver(balance, Account) + SumOver(savings, Account) + lost + FundSum(funds)

Owing == \A a \in Account : savings[a] = SeqSum(requests, ToShare(a))
Promising == \A f \in Fund : funds[f].withdraw = SeqSum(stakes, FundShare(f))

\* Nothing is held or promised of a token that does not exist.
Unborn ==
    token = NoToken => stakes = << >> /\ requests = << >> /\ \A a \in Account : balance[a] = 0

Founded == \A f \in Fund : ~funds[f].exists => funds[f].balance = 0 /\ funds[f].withdraw = 0

\* The indexes are in order.  While savings are paid no stake is due, and the
\* iterator is at the beginning or behind a request that was paid in this block.
Ordered == Sorted(stakes) /\ Sorted(requests)
Waiting ==
    phase = "savings" =>
        /\ \A i \in DOMAIN stakes : stakes[i].date > now
        /\ at = 1 \/ (at - 1 \in DOMAIN requests /\ requests[at - 1].updated = now)

TokenInv ==
    /\ TokenTypes
    /\ Conserved /\ Owing /\ Promising
    /\ Unborn /\ Founded /\ Ordered /\ Waiting

LEMMA TokenConstants ==
    /\ \A n \in Amount : n \in Nat /\ n \in Int /\ -n \in Int
    /\ \A m \in Month : m \in Nat \ {0}
    /\ \A r \in Rate : r \in Nat
    /\ Cycle \in Nat /\ InitSupply \in Nat
    /\ \A t \in 1 .. MaxTime : t \in Nat
<1>1. /\ Amount \subseteq Nat \ {0} /\ Month \subseteq Nat \ {0} /\ Rate \subseteq Nat
      /\ Cycle \in Nat /\ InitSupply \in Nat
  BY TokenAssumption
<1>2. MaxTime \in Nat
  BY DappAssumption
<1>3. \A n \in Nat : n \in Int /\ -n \in Int
  OBVIOUS
<1>4. \A t \in 1 .. MaxTime : t \in Nat
  BY <1>2
<1> QED BY <1>1, <1>3, <1>4

LEMMA DatedObjects == Dated(StakeObject) /\ Dated(RequestObject)
BY DEF Dated, StakeObject, RequestObject, RequestRecord

LEMMA Shares ==
    /\ \A a : ToShare(a) \in [RequestObject -> Nat] /\ ToShare(a) \in [RequestObject -> Int]
    /\ \A f : FundShare(f) \in [StakeObject -> Nat] /\ FundShare(f) \in [StakeObject -> Int]
    /\ \A a, r : r \in RequestObject => ToShare(a)[r] = IF r.to = a THEN r.amount ELSE 0
    /\ \A f, r : r \in StakeObject => FundShare(f)[r] = IF r.fund = f THEN r.amount ELSE 0
<1>1. \A r \in RequestObject : r.amount \in Nat
  BY DEF RequestObject, RequestRecord
<1>2. \A r \in StakeObject : r.amount \in Nat
  BY DEF StakeObject
<1>3. \A a : ToShare(a) \in [RequestObject -> Nat]
  BY <1>1 DEF ToShare
<1>4. \A f : FundShare(f) \in [StakeObject -> Nat]
  BY <1>2 DEF FundShare
<1>5. \A T, g : g \in [T -> Nat] => g \in [T -> Int]
  OBVIOUS
<1>6. \A a, r : r \in RequestObject => ToShare(a)[r] = IF r.to = a THEN r.amount ELSE 0
  BY DEF ToShare
<1>7. \A f, r : r \in StakeObject => FundShare(f)[r] = IF r.fund = f THEN r.amount ELSE 0
  BY DEF FundShare
<1> QED BY <1>3, <1>4, <1>5, <1>6, <1>7

LEMMA StakeFields ==
    ASSUME NEW w \in StakeObject
    PROVE  w.from \in Account /\ w.fund \in Fund /\ w.amount \in Nat /\ w.date \in Nat
BY DEF StakeObject

LEMMA RequestFields ==
    ASSUME NEW w \in RequestObject
    PROVE  /\ w.from \in Account /\ w.to \in Account /\ w.amount \in Nat /\ w.date \in Nat
           /\ Payment(w) \in Nat /\ Payment(w) <= w.amount
<1>1. /\ w \in RequestRecord /\ w.order \in 1 .. w.months
      /\ w.amount = w.total - (w.order - 1) * (w.total \div w.months)
  BY DEF RequestObject
<1>2. /\ w.from \in Account /\ w.to \in Account /\ w.amount \in Nat /\ w.date \in Nat
      /\ w.total \in Nat /\ w.months \in Nat /\ w.order \in Nat
  BY <1>1 DEF RequestRecord
<1> DEFINE t == w.total
           m == w.months
           o == w.order
           a == w.amount
<1>3. t \in Nat /\ m \in Nat /\ o \in 1 .. m /\ a \in Nat /\ a = t - (o - 1) * (t \div m)
  BY <1>1, <1>2
<1>4. Payment(w) = IF o = m THEN a ELSE t \div m
  BY DEF Payment
<1> HIDE DEF t, m, o, a
<1>5. m \in Nat \ {0} /\ a \in Int
  BY <1>3
<1>6. t \div m \in Nat /\ t \div m <= a
  BY <1>3, <1>5, ShareFits
<1>7. Payment(w) \in Nat /\ Payment(w) <= a
  BY <1>3, <1>4, <1>6
<1> QED BY <1>2, <1>7 DEF a

\* The next instalment of a request.
LEMMA NextFields ==
    ASSUME NEW w \in RequestObject, w.order # w.months, now \in Nat
    PROVE  /\ NextPayment(w) \in RequestObject
           /\ NextPayment(w).to = w.to /\ NextPayment(w).amount = w.amount - Payment(w)
           /\ NextPayment(w).date = w.date + Cycle /\ NextPayment(w).updated = now
<1> DEFINE v == NextPayment(w)
           p == Payment(w)
<1>1. /\ w \in RequestRecord /\ w.order \in 1 .. w.months
      /\ w.amount = w.total - (w.order - 1) * (w.total \div w.months)
  BY DEF RequestObject
<1>2. p \in Nat /\ p <= w.amount /\ p = w.total \div w.months
  BY RequestFields DEF Payment
<1> HIDE DEF p
<1>3. /\ w.amount \in Nat /\ w.date \in Nat /\ w.total \in Nat /\ w.months \in Nat /\ w.order \in Nat
  BY <1>1 DEF RequestRecord
<1>4. w.amount - p \in Nat /\ w.order + 1 \in Nat /\ w.date + Cycle \in Nat
  BY <1>2, <1>3, TokenConstants
<1>5. v = [w EXCEPT !.amount = w.amount - p, !.order = w.order + 1, !.date = w.date + Cycle,
                    !.updated = now]
  BY DEF NextPayment, p
<1>6. v \in RequestRecord
  BY <1>1, <1>4, <1>5 DEF RequestRecord
<1>7. /\ v.to = w.to /\ v.amount = w.amount - p /\ v.date = w.date + Cycle /\ v.updated = now
      /\ v.order = w.order + 1 /\ v.months = w.months /\ v.total = w.total
  BY <1>1, <1>5 DEF RequestRecord
<1> HIDE DEF v
<1>8. v.order \in 1 .. v.months
  <2>1. w.order + 1 \in 1 .. w.months
    <3>1. \A x, y \in Nat : x \in 1 .. y /\ x # y => x + 1 \in 1 .. y
      OBVIOUS
    <3> QED BY <1>1, <1>3, <3>1, Zenon
  <2> QED BY <1>7, <2>1
<1>9. v.amount = v.total - (v.order - 1) * (v.total \div v.months)
  <2> DEFINE t == w.total
             o == w.order
             a == w.amount
  <2>1. t \in Nat /\ o \in Nat /\ a \in Nat /\ a = t - (o - 1) * p
    BY <1>1, <1>2, <1>3
  <2> HIDE DEF t, o, a
  <2>2. (o + 1 - 1) * p = (o - 1) * p + p /\ (o - 1) * p \in Int
    BY <1>2, <2>1
  <2>3. a - p = t - (o + 1 - 1) * p
    BY <1>2, <2>1, <2>2
  <2>4. v.order - 1 = o + 1 - 1
    BY <1>3, <1>7 DEF o
  <2>5. v.amount = a - p /\ v.total = t /\ v.total \div v.months = p
    BY <1>2, <1>7, Zenon DEF a, t
  <2> QED BY <2>3, <2>4, <2>5, Zenon
<1>10. v \in RequestObject
  BY <1>6, <1>8, <1>9 DEF RequestObject
<1> QED BY <1>7, <1>10 DEF v, p

\* A new request has had no payment.
LEMMA NewRequest ==
    ASSUME NEW f \in Account, NEW t \in Account, NEW i \in RequestId, NEW n \in Amount,
           NEW m \in Month, NEW d \in Nat, now \in Nat
    PROVE  [from |-> f, to |-> t, id |-> i, amount |-> n, total |-> n, order |-> 1,
            months |-> m, date |-> d, updated |-> now] \in RequestObject
<1> DEFINE w == [from |-> f, to |-> t, id |-> i, amount |-> n, total |-> n, order |-> 1,
                 months |-> m, date |-> d, updated |-> now]
<1>1. n \in Nat /\ m \in Nat \ {0}
  BY TokenConstants
<1>2. w \in RequestRecord
  BY <1>1 DEF RequestRecord
<1>3. n \div m \in Int
  BY <1>1
<1>4. n = n - (1 - 1) * (n \div m)
  <2>1. (1 - 1) * (n \div m) = 0
    BY <1>3
  <2> QED BY <1>1, <2>1
<1>5. 1 \in 1 .. m
  BY <1>1
<1> QED BY <1>2, <1>4, <1>5 DEF RequestObject


-----------------------------------------------------------------------------
(* The induction for the tokens.                                           *)

LEMMA NotNoToken ==
    ASSUME NEW t \in TokenObject
    PROVE  t # NoToken
<1>1. DOMAIN t = {"dapp", "publisher", "total"}
  BY DEF TokenObject
<1>2. DOMAIN NoToken = {"total"}
  BY DEF NoToken
<1> QED BY <1>1, <1>2

LEMMA EmptySums == (\A a : SeqSum(<< >>, ToShare(a)) = 0) /\ \A f : SeqSum(<< >>, FundShare(f)) = 0
<1>1. DOMAIN << >> = {}
  OBVIOUS
<1> QED BY <1>1, TotalNone DEF SeqSum

LEMMA InitTokens == Init => TokenInv
<1> SUFFICES ASSUME Init PROVE TokenInv
  OBVIOUS
<1> DEFINE none == [a \in Account |-> 0]
<1>1. /\ savings = none /\ lost = 0
      /\ stakes = << >> /\ requests = << >> /\ at = 1
  BY DEF Init
<1>2. PICK d \in DappName, owner \in Account, created \in BOOLEAN, f \in Fund, r \in Rate :
        /\ InitDapps(d, owner, Account)
        /\ token = IF created THEN [dapp |-> d, publisher |-> owner, total |-> InitSupply]
                              ELSE NoToken
        /\ balance = [a \in Account |-> IF created /\ a = owner THEN InitSupply ELSE 0]
        /\ funds = [x \in Fund |-> [NoFund EXCEPT !.exists = created /\ x = f]]
        /\ interest = [m \in Month |-> IF created THEN r ELSE NotOffered]
  BY DEF Init
<1>3. now \in Nat /\ phase = "txs"
  BY <1>2, DappAssumption DEF InitDapps
<1>4. InitSupply \in Nat
  BY TokenConstants
<1>5. balance \in [Account -> Int] /\ none \in [Account -> Int]
  BY <1>2, <1>4
<1>6. \A x \in Fund : funds[x] \in FundObject /\ funds[x].balance = 0 /\ funds[x].withdraw = 0
  <2> SUFFICES ASSUME NEW x \in Fund
               PROVE  funds[x] \in FundObject /\ funds[x].balance = 0 /\ funds[x].withdraw = 0
    OBVIOUS
  <2> DEFINE e == created /\ x = f
  <2>1. e \in BOOLEAN
    OBVIOUS
  <2>2. funds[x] = [NoFund EXCEPT !.exists = e]
    BY <1>2
  <2> HIDE DEF e
  <2>3. funds[x] = [exists |-> e, balance |-> 0, withdraw |-> 0]
    BY <2>2 DEF NoFund
  <2> QED BY <2>1, <2>3 DEF FundObject
<1>7. funds \in [Fund -> FundObject]
  <2>1. funds = [x \in Fund |-> funds[x]]
    BY <1>2
  <2> QED BY <1>6, <2>1
<1>8. FundSum(funds) = 0
  <2> DEFINE k == FundBalances(funds)
  <2>1. \A x \in Fund : k[x] = 0 /\ k[x] \in Int
    BY <1>6 DEF FundBalances
  <2> HIDE DEF k
  <2>2. Valued(k, Fund)
    BY <2>1, TokenAssumption DEF Valued
  <2>3. Total(k, Fund) = 0
    BY <2>1, <2>2, TotalZero
  <2> QED BY <2>2, <2>3, FundSumIs DEF k
<1>9. SumOver(none, Account) = 0
  BY SumOverNone
<1>10. (token = NoToken \/ token \in TokenObject) /\ Conserved /\ Unborn
  <2>1. CASE created
    <3> DEFINE t == [dapp |-> d, publisher |-> owner, total |-> InitSupply]
    <3>1. token = t /\ t.total = InitSupply /\ t \in TokenObject
      BY <1>2, <1>4, <2>1 DEF TokenObject
    <3>2. balance = Add(none, owner, InitSupply)
      BY <1>2, <1>4, <2>1 DEF Add
    <3> HIDE DEF t, none
    <3>3. SumOver(balance, Account) = SumOver(none, Account) + InitSupply
      BY <1>4, <1>5, <3>2, AddFacts
    <3>4. Conserved
      BY <1>1, <1>4, <1>8, <1>9, <3>1, <3>3 DEF Conserved
    <3>5. token # NoToken
      BY <3>1, NotNoToken
    <3> QED BY <3>1, <3>4, <3>5 DEF Unborn
  <2>2. CASE ~created
    <3>1. token = NoToken /\ balance = none
      BY <1>2, <2>2
    <3>2. Conserved
      <4>1. token.total = 0
        BY <3>1 DEF NoToken
      <4> HIDE DEF none
      <4> QED BY <1>1, <1>8, <1>9, <3>1, <4>1 DEF Conserved
    <3>3. Unborn
      BY <1>1, <3>1 DEF Unborn
    <3> QED BY <3>1, <3>2, <3>3
  <2> QED BY <2>1, <2>2
<1>11. interest \in [Month -> Rate \cup {NotOffered}]
  BY <1>2
<1>12. TokenTypes
  <2>1. << >> \in Seq(StakeObject) /\ << >> \in Seq(RequestObject)
    OBVIOUS
  <2> QED BY <1>1, <1>3, <1>5, <1>7, <1>10, <1>11, <2>1 DEF TokenTypes
<1>13. Owing
  BY <1>1, EmptySums DEF Owing
<1>14. Promising
  BY <1>1, <1>6, EmptySums DEF Promising
<1>15. Founded /\ Ordered /\ Waiting
  BY <1>1, <1>3, <1>6 DEF Founded, Ordered, Sorted, Waiting
<1> QED BY <1>10, <1>12, <1>13, <1>14, <1>15 DEF TokenInv

\* What the parts change by is what the token's total changes by.
LEMMA TokenStep ==
    ASSUME TokenTypes, Conserved, NEW b \in Int, NEW s \in Int, NEW l \in Int, NEW f \in Int,
           SumOver(balance', Account) = SumOver(balance, Account) + b,
           SumOver(savings', Account) = SumOver(savings, Account) + s,
           lost' = lost + l, FundSum(funds') = FundSum(funds) + f,
           token.total \in Int, token'.total = token.total + (b + s + l + f)
    PROVE  Conserved'
<1> DEFINE B == SumOver(balance, Account)
           S == SumOver(savings, Account)
           L == lost
           F == FundSum(funds)
           T == token.total
<1>1. B \in Int /\ S \in Int /\ L \in Int /\ F \in Int /\ T \in Int
  BY SumOverType, FundSumType DEF TokenTypes
<1>2. T = B + S + L + F
  BY DEF Conserved
<1> HIDE DEF B, S, L, F, T
<1>3. T + (b + s + l + f) = (B + b) + (S + s) + (L + l) + (F + f)
  BY <1>1, <1>2
<1>4. token'.total = (B + b) + (S + s) + (L + l) + (F + f)
  BY <1>3 DEF T
<1> QED BY <1>4 DEF Conserved, B, S, L, F

\* The tokens where nothing but balances, the total and what is lost changes.
LEMMA TokensMove ==
    ASSUME TokenInv, NEW b \in Int, NEW l \in Int,
           balance' \in [Account -> Int], SumOver(balance', Account) = SumOver(balance, Account) + b,
           lost' = lost + l, token' \in TokenObject, token.total \in Int,
           token'.total = token.total + (b + l),
           UNCHANGED <<savings, funds, interest, stakes, requests, at, now, phase>>
    PROVE  TokenInv'
<1>1. TokenTypes /\ Conserved /\ Owing /\ Promising /\ Founded /\ Ordered /\ Waiting
  BY DEF TokenInv
<1>2. SumOver(savings, Account) \in Int /\ FundSum(funds) \in Int /\ lost \in Int
  BY <1>1, SumOverType, FundSumType DEF TokenTypes
<1>3. SumOver(savings', Account) = SumOver(savings, Account) + 0 /\ FundSum(funds') = FundSum(funds) + 0
  BY <1>2
<1>4. Conserved'
  <2>1. token'.total = token.total + (b + 0 + l + 0) /\ 0 \in Int
    OBVIOUS
  <2> QED BY <1>1, <1>3, <2>1, TokenStep
<1>5. lost' \in Int
  BY <1>2
<1>6. TokenTypes'
  BY <1>1, <1>5 DEF TokenTypes
<1>7. Unborn'
  BY NotNoToken DEF Unborn
<1>8. Owing' /\ Promising' /\ Founded' /\ Ordered' /\ Waiting'
  BY <1>1 DEF Owing, Promising, Founded, Ordered, Sorted, Waiting
<1> QED BY <1>4, <1>6, <1>7, <1>8 DEF TokenInv


\* Every operation on a token finds one, and leaves time and iterator alone.
LEMMA TokenOperationFacts ==
    ASSUME TokenTypes, TokenOperation
    PROVE  /\ token \in TokenObject /\ token.publisher \in Account /\ token.total \in Int
           /\ phase = "txs" /\ UNCHANGED <<now, phase, at>>
<1>1. token # NoToken /\ phase = "txs" /\ UNCHANGED <<now, phase, at>>
  BY DEF TokenOperation, Operation
<1>2. token \in TokenObject
  BY <1>1 DEF TokenTypes
<1> QED BY <1>1, <1>2 DEF TokenObject

\* Tokens are issued, burned and transferred.
LEMMA TotalKeeps ==
    ASSUME TokenInv, NEW n \in Amount, IssueToken(n) \/ BurnToken(n)
    PROVE  TokenInv'
<1>1. TokenOperation /\ TokenTypes
  BY DEF TokenInv, IssueToken, BurnToken
<1>2. /\ token \in TokenObject /\ token.publisher \in Account /\ token.total \in Int
      /\ UNCHANGED <<now, phase, at>>
  BY <1>1, TokenOperationFacts
<1>3. /\ n \in Int /\ -n \in Int /\ balance \in [Account -> Int] /\ lost \in Int
      /\ UNCHANGED <<savings, funds, interest, stakes, requests, lost>>
  BY <1>1, TokenConstants DEF TokenTypes, IssueToken, BurnToken
<1>4. lost' = lost + 0 /\ 0 \in Int
  BY <1>3
<1>5. \A d \in Int : /\ [token EXCEPT !.total = @ + d] \in TokenObject
                     /\ [token EXCEPT !.total = @ + d].total = token.total + d
  BY <1>2 DEF TokenObject
<1>6. CASE IssueToken(n)
  <2>1. token' = [token EXCEPT !.total = @ + n] /\ balance' = Add(balance, token.publisher, n)
    BY <1>6 DEF IssueToken
  <2>2. token' \in TokenObject /\ token'.total = token.total + (n + 0)
    BY <1>3, <1>5, <2>1
  <2>3. balance' \in [Account -> Int] /\ SumOver(balance', Account) = SumOver(balance, Account) + n
    BY <1>2, <1>3, <2>1, AddFacts
  <2> QED BY <1>2, <1>3, <1>4, <2>2, <2>3, TokensMove
<1>7. CASE BurnToken(n)
  <2>1. token' = [token EXCEPT !.total = @ - n] /\ balance' = Add(balance, token.publisher, -n)
    BY <1>7 DEF BurnToken
  <2>2. [token EXCEPT !.total = @ - n] = [token EXCEPT !.total = @ + (-n)]
    <3>1. token.total - n = token.total + (-n)
      BY <1>2, <1>3
    <3> QED BY <3>1
  <2>3. token' \in TokenObject /\ token'.total = token.total + (-n + 0)
    <3>1. token' \in TokenObject /\ token'.total = token.total + (-n)
      BY <1>3, <1>5, <2>1, <2>2, Zenon
    <3>2. -n + 0 = -n
      BY <1>3
    <3> QED BY <3>1, <3>2, Zenon
  <2>4. balance' \in [Account -> Int] /\ SumOver(balance', Account) = SumOver(balance, Account) + -n
    BY <1>2, <1>3, <2>1, AddFacts
  <2> QED BY <1>2, <1>3, <1>4, <2>3, <2>4, TokensMove
<1> QED BY <1>6, <1>7

LEMMA TransferTokenKeeps ==
    ASSUME TokenInv, NEW f \in Account, NEW t \in Account, NEW n \in Amount, TransferToken(f, t, n)
    PROVE  TokenInv'
<1> DEFINE b == Add(balance, f, -n)
<1>1. TokenOperation /\ TokenTypes /\ balance' = Add(b, t, n)
  BY DEF TokenInv, TransferToken
<1>2. token \in TokenObject /\ token.total \in Int /\ UNCHANGED <<now, phase, at>>
  BY <1>1, TokenOperationFacts
<1>3. /\ n \in Int /\ -n \in Int /\ balance \in [Account -> Int] /\ lost \in Int
      /\ UNCHANGED <<token, savings, funds, interest, stakes, requests, lost>>
  BY <1>1, TokenConstants DEF TokenTypes, TransferToken
<1>4. b \in [Account -> Int] /\ SumOver(b, Account) = SumOver(balance, Account) + -n
  BY <1>3, AddFacts
<1> HIDE DEF b
<1>5. balance' \in [Account -> Int] /\ SumOver(balance', Account) = SumOver(b, Account) + n
  BY <1>1, <1>3, <1>4, AddFacts
<1>6. SumOver(balance, Account) \in Int
  BY <1>3, SumOverType
<1>7. SumOver(balance', Account) = SumOver(balance, Account) + 0
  BY <1>3, <1>4, <1>5, <1>6
<1>8. lost' = lost + 0 /\ token' \in TokenObject /\ token'.total = token.total + (0 + 0) /\ 0 \in Int
  BY <1>2, <1>3
<1> QED BY <1>2, <1>3, <1>5, <1>7, <1>8, TokensMove

LEMMA CreateTokenKeeps ==
    ASSUME Inv, TokenInv, NEW d \in DappName, CreateToken(d)
    PROVE  TokenInv'
<1> DEFINE o == dapps[d].owner
           t == [dapp |-> d, publisher |-> o, total |-> InitSupply]
<1>1. /\ Approved(d) /\ token = NoToken /\ token' = t
      /\ balance' = [balance EXCEPT ![o] = InitSupply]
      /\ UNCHANGED <<savings, funds, interest, stakes, requests, at, lost, now, phase>>
  BY DEF CreateToken, Operation
<1>2. o \in Account
  <2>1. dapps[d] \in DappObject \cup {NoDapp}
    BY DEF Inv, DappsInv
  <2>2. dapps[d] # NoDapp
    BY <1>1 DEF Approved, NoDapp
  <2> QED BY <2>1, <2>2 DEF DappObject
<1>3. InitSupply \in Nat /\ InitSupply \in Int
  BY TokenConstants
<1>4. t \in TokenObject /\ t.total = InitSupply
  BY <1>2, <1>3 DEF TokenObject
<1> HIDE DEF t, o
<1>5. TokenTypes /\ Unborn
  BY DEF TokenInv
<1>6. balance \in [Account -> Int] /\ lost \in Int /\ balance[o] = 0
  BY <1>1, <1>2, <1>5 DEF TokenTypes, Unborn
<1>7. balance' = Add(balance, o, InitSupply)
  BY <1>1, <1>2, <1>3, <1>6 DEF Add
<1>8. /\ balance' \in [Account -> Int]
      /\ SumOver(balance', Account) = SumOver(balance, Account) + InitSupply
  BY <1>2, <1>3, <1>6, <1>7, AddFacts
<1>9. token.total = 0
  BY <1>1 DEF NoToken
<1>10. /\ lost' = lost + 0 /\ token' \in TokenObject /\ token'.total = token.total + (InitSupply + 0)
       /\ token.total \in Int /\ 0 \in Int
  BY <1>1, <1>3, <1>4, <1>6, <1>9
<1> QED BY <1>1, <1>3, <1>8, <1>10, TokensMove

LEMMA SetTokenStakingInterestKeeps ==
    ASSUME TokenInv, NEW m \in Month, NEW r \in Rate \cup {NotOffered}, SetTokenStakingInterest(m, r)
    PROVE  TokenInv'
<1>1. TokenOperation /\ TokenTypes /\ interest' = [interest EXCEPT ![m] = r]
      /\ UNCHANGED <<token, balance, savings, funds, stakes, requests, lost>>
  BY DEF TokenInv, SetTokenStakingInterest
<1>2. UNCHANGED <<now, phase, at>>
  BY <1>1, TokenOperationFacts
<1>3. TokenTypes'
  BY <1>1, <1>2 DEF TokenTypes
<1>4. /\ Conserved' /\ Owing' /\ Promising' /\ Unborn' /\ Founded' /\ Ordered' /\ Waiting'
  BY <1>1, <1>2 DEF TokenInv, Conserved, Owing, Promising, Unborn, Founded, Ordered, Sorted, Waiting
<1> QED BY <1>3, <1>4 DEF TokenInv

\* Tokens of the publisher go to a fund.
LEMMA FundGets ==
    ASSUME TokenInv, token \in TokenObject, NEW p \in Account, NEW f \in Fund, NEW n \in Int,
           balance' = Add(balance, p, -n),
           funds' \in [Fund -> FundObject], funds'[f].exists,
           funds'[f].balance = funds[f].balance + n, funds'[f].withdraw = funds[f].withdraw,
           \A x \in Fund : x # f => funds'[x] = funds[x],
           UNCHANGED <<token, savings, interest, stakes, requests, lost, at, now, phase>>
    PROVE  TokenInv'
<1>1. TokenTypes /\ Conserved /\ Owing /\ Promising /\ Founded /\ Ordered /\ Waiting
  BY DEF TokenInv
<1>2. /\ -n \in Int /\ balance \in [Account -> Int] /\ savings \in [Account -> Int] /\ lost \in Int
      /\ funds \in [Fund -> FundObject] /\ token.total \in Int
  BY <1>1 DEF TokenTypes, TokenObject
<1>3. balance' \in [Account -> Int] /\ SumOver(balance', Account) = SumOver(balance, Account) + -n
  BY <1>2, AddFacts
<1>4. FundSum(funds') = FundSum(funds) + n
  BY <1>2, FundChanges
<1>5. SumOver(savings, Account) \in Int
  BY <1>2, SumOverType
<1>6. /\ SumOver(savings', Account) = SumOver(savings, Account) + 0 /\ lost' = lost + 0
      /\ token'.total = token.total + (-n + 0 + 0 + n) /\ 0 \in Int
  BY <1>2, <1>5
<1>7. Conserved'
  BY <1>1, <1>2, <1>3, <1>4, <1>6, TokenStep
<1>8. TokenTypes'
  BY <1>1, <1>3 DEF TokenTypes
<1>9. Unborn'
  BY NotNoToken DEF Unborn
<1>10. Promising' /\ Founded'
  BY <1>1 DEF Promising, Founded
<1>11. Owing' /\ Ordered' /\ Waiting'
  BY <1>1 DEF Owing, Ordered, Sorted, Waiting
<1> QED BY <1>7, <1>8, <1>9, <1>10, <1>11 DEF TokenInv


LEMMA TransferTokenFundKeeps ==
    ASSUME TokenInv, NEW f \in Fund, NEW n \in Amount, TransferTokenFund(f, n)
    PROVE  TokenInv'
<1> DEFINE p == token.publisher
           x == funds[f]
<1>1. /\ TokenOperation /\ TokenTypes /\ x.exists /\ balance' = Add(balance, p, -n)
      /\ funds' = [funds EXCEPT ![f].balance = @ + n]
      /\ UNCHANGED <<token, savings, interest, stakes, requests, lost>>
  BY DEF TokenInv, TransferTokenFund
<1>2. token \in TokenObject /\ p \in Account /\ UNCHANGED <<now, phase, at>>
  BY <1>1, TokenOperationFacts
<1>3. n \in Int /\ funds \in [Fund -> FundObject]
  BY <1>1, TokenConstants DEF TokenTypes
<1>4. x \in FundObject
  BY <1>3
<1> HIDE DEF x, p
<1> DEFINE y == [x EXCEPT !.balance = @ + n]
<1>5. /\ y \in FundObject /\ y.exists = x.exists /\ y.balance = x.balance + n
      /\ y.withdraw = x.withdraw
  BY <1>3, <1>4 DEF FundObject
<1>6. funds' = [funds EXCEPT ![f] = y]
  BY <1>1 DEF x
<1> HIDE DEF y
<1>7. funds' \in [Fund -> FundObject] /\ funds'[f] = y /\ \A z \in Fund : z # f => funds'[z] = funds[z]
  BY <1>3, <1>5, <1>6
<1>8. /\ funds'[f].exists /\ funds'[f].balance = funds[f].balance + n
      /\ funds'[f].withdraw = funds[f].withdraw
  BY <1>1, <1>5, <1>7 DEF x
<1> QED BY <1>1, <1>2, <1>3, <1>7, <1>8, FundGets

LEMMA SetupTokenFundKeeps ==
    ASSUME TokenInv, NEW f \in Fund, NEW n \in Amount \cup {0}, SetupTokenFund(f, n)
    PROVE  TokenInv'
<1> DEFINE p == token.publisher
           y == [exists |-> TRUE, balance |-> n, withdraw |-> 0]
<1>1. /\ TokenOperation /\ TokenTypes /\ Founded /\ balance' = Add(balance, p, -n)
      /\ UNCHANGED <<token, savings, interest, stakes, requests>>
  BY DEF TokenInv, SetupTokenFund
<1>2. token \in TokenObject /\ p \in Account /\ token.total \in Int /\ UNCHANGED <<now, phase, at>>
  BY <1>1, TokenOperationFacts
<1>3. /\ n \in Int /\ -n \in Int /\ balance \in [Account -> Int] /\ lost \in Int
      /\ funds \in [Fund -> FundObject]
  BY <1>1, TokenConstants DEF TokenTypes
<1> HIDE DEF p
<1>4. CASE funds[f].exists
  <2>1. lost' = lost + n /\ UNCHANGED funds
    BY <1>4 DEF SetupTokenFund
  <2>2. balance' \in [Account -> Int] /\ SumOver(balance', Account) = SumOver(balance, Account) + -n
    BY <1>1, <1>2, <1>3, AddFacts
  <2>3. token' \in TokenObject /\ token'.total = token.total + (-n + n)
    BY <1>1, <1>2, <1>3
  <2> QED BY <1>1, <1>2, <1>3, <2>1, <2>2, <2>3, TokensMove
<1>5. CASE ~funds[f].exists
  <2>1. funds' = [funds EXCEPT ![f] = y] /\ UNCHANGED lost
    BY <1>5 DEF SetupTokenFund
  <2>2. y \in FundObject /\ y.exists /\ y.balance = n /\ y.withdraw = 0
    BY <1>3 DEF FundObject
  <2> HIDE DEF y
  <2>3. funds' \in [Fund -> FundObject] /\ funds'[f] = y /\ \A z \in Fund : z # f => funds'[z] = funds[z]
    BY <1>3, <2>1, <2>2
  <2>4. funds[f].balance = 0 /\ funds[f].withdraw = 0
    BY <1>1, <1>5 DEF Founded
  <2>5. /\ funds'[f].exists /\ funds'[f].balance = funds[f].balance + n
        /\ funds'[f].withdraw = funds[f].withdraw
    BY <1>3, <2>2, <2>3, <2>4
  <2> QED BY <1>1, <1>2, <1>3, <2>1, <2>3, <2>5, FundGets
<1> QED BY <1>4, <1>5

Shifted(x, b, w) == [x EXCEPT !.balance = @ + b, !.withdraw = @ + w]

LEMMA FundShifts ==
    ASSUME NEW x \in FundObject, NEW b \in Int, NEW w \in Int
    PROVE  /\ Shifted(x, b, w) \in FundObject /\ Shifted(x, b, w).exists = x.exists
           /\ Shifted(x, b, w).balance = x.balance + b
           /\ Shifted(x, b, w).withdraw = x.withdraw + w
<1> DEFINE i == x.balance + b
           j == x.withdraw + w
           z == [x EXCEPT !.balance = i]
<1>1. i \in Int /\ j \in Int
  BY DEF FundObject
<1> HIDE DEF i, j
<1>2. z \in FundObject /\ z.exists = x.exists /\ z.balance = i /\ z.withdraw = x.withdraw
  BY <1>1 DEF FundObject
<1> HIDE DEF z
<1> DEFINE y == [z EXCEPT !.withdraw = j]
<1>3. y \in FundObject /\ y.exists = z.exists /\ y.balance = z.balance /\ y.withdraw = j
  BY <1>1, <1>2 DEF FundObject
<1>4. y = Shifted(x, b, w)
  BY DEF z, i, j, Shifted
<1> HIDE DEF y
<1> QED BY <1>2, <1>3, <1>4 DEF i, j

\* Tokens go between an account and a fund, with a stake made or paid.
StakeMove(p, f, b, d, w) ==
    /\ b + d = 0 /\ balance' = Add(balance, p, b) /\ funds' \in [Fund -> FundObject]
    /\ funds'[f].balance = funds[f].balance + d /\ funds'[f].withdraw = funds[f].withdraw + w
    /\ \A x \in Fund : x # f => funds'[x] = funds[x]
    /\ stakes' \in Seq(StakeObject) /\ Sorted(stakes')
    /\ SeqSum(stakes', FundShare(f)) = SeqSum(stakes, FundShare(f)) + w
    /\ \A x \in Fund : x # f => SeqSum(stakes', FundShare(x)) = SeqSum(stakes, FundShare(x))
    /\ Founded' /\ phase # "savings"
    /\ UNCHANGED <<token, savings, interest, requests, lost, at, now, phase>>

LEMMA StakesChange ==
    ASSUME TokenInv, token \in TokenObject, NEW p \in Account, NEW f \in Fund,
           NEW b \in Int, NEW d \in Int, NEW w \in Int, StakeMove(p, f, b, d, w)
    PROVE  TokenInv'
<1> USE DEF StakeMove
<1>1. TokenTypes /\ Conserved /\ Owing /\ Promising /\ Ordered /\ Waiting
  BY DEF TokenInv
<1>2. /\ balance \in [Account -> Int] /\ savings \in [Account -> Int] /\ lost \in Int
      /\ funds \in [Fund -> FundObject] /\ token.total \in Int
  BY <1>1 DEF TokenTypes, TokenObject
<1>3. balance' \in [Account -> Int] /\ SumOver(balance', Account) = SumOver(balance, Account) + b
  BY <1>2, AddFacts
<1>4. FundSum(funds') = FundSum(funds) + d
  <2>1. /\ funds \in [Fund -> FundObject] /\ funds' \in [Fund -> FundObject] /\ f \in Fund /\ d \in Int
        /\ funds'[f].balance = funds[f].balance + d
        /\ \A x \in Fund : x # f => funds'[x] = funds[x]
    BY <1>2
  <2> QED BY <2>1, FundChanges, Zenon
<1>5. SumOver(savings, Account) \in Int
  BY <1>2, SumOverType
<1>6. /\ SumOver(savings', Account) = SumOver(savings, Account) + 0 /\ lost' = lost + 0
      /\ token'.total = token.total + (b + 0 + 0 + d) /\ 0 \in Int
  BY <1>2, <1>5
<1>7. Conserved'
  BY <1>1, <1>2, <1>3, <1>4, <1>6, TokenStep
<1>8. TokenTypes'
  BY <1>1, <1>3 DEF TokenTypes
<1>9. Unborn'
  BY NotNoToken DEF Unborn
<1>10. ASSUME NEW x \in Fund
       PROVE  funds'[x].withdraw = SeqSum(stakes', FundShare(x))
  BY <1>1 DEF Promising
<1>11. Promising'
  BY <1>10 DEF Promising
<1>12. Owing' /\ Ordered' /\ Waiting'
  BY <1>1 DEF Owing, Ordered, Sorted, Waiting
<1> QED BY <1>7, <1>8, <1>9, <1>11, <1>12 DEF TokenInv

LEMMA StakingTokenFundKeeps ==
    ASSUME TokenInv, NEW a \in Account, NEW f \in Fund, NEW id \in RequestId, NEW n \in Amount,
           NEW m \in Month, StakingTokenFund(a, f, id, n, m)
    PROVE  TokenInv'
<1> DEFINE w == n + (n * interest[m]) \div 100
           e == [from |-> a, fund |-> f, id |-> id, amount |-> w, date |-> now + m]
           x == funds[f]
           y == Shifted(x, n, w)
<1>1. /\ TokenOperation /\ TokenTypes /\ Ordered /\ Founded /\ x.exists
      /\ interest[m] # NotOffered /\ balance' = Add(balance, a, -n)
      /\ funds' = [funds EXCEPT ![f].balance = @ + n, ![f].withdraw = @ + w]
      /\ stakes' = Inserted(stakes, e)
      /\ UNCHANGED <<token, savings, interest, requests, lost>>
  BY DEF TokenInv, StakingTokenFund
<1>2. token \in TokenObject /\ UNCHANGED <<now, phase, at>> /\ phase = "txs"
  BY <1>1, TokenOperationFacts
<1>3. /\ n \in Nat /\ n \in Int /\ -n \in Int /\ m \in Nat /\ now \in Nat
      /\ balance \in [Account -> Int] /\ funds \in [Fund -> FundObject]
      /\ stakes \in Seq(StakeObject)
  BY <1>1, TokenConstants DEF TokenTypes
<1>4. interest[m] \in Nat
  BY <1>1, TokenConstants DEF TokenTypes
<1>5. w \in Nat
  <2>1. \A i, j \in Nat : i + (i * j) \div 100 \in Nat
    <3>1. \A i, j \in Nat : i * j \in Nat
      OBVIOUS
    <3>2. \A i, k \in Nat : i + k \div 100 \in Nat
      OBVIOUS
    <3> QED BY <3>1, <3>2
  <2> QED BY <1>3, <1>4, <2>1, Zenon
<1> HIDE DEF w
<1>6. funds' = [funds EXCEPT ![f] = y]
  BY <1>1, <1>3 DEF Shifted
<1>7. x \in FundObject
  BY <1>3
<1> HIDE DEF x
<1>8. /\ y \in FundObject /\ y.exists = x.exists /\ y.balance = x.balance + n
      /\ y.withdraw = x.withdraw + w
  <2>1. w \in Int
    BY <1>5
  <2> QED BY <1>3, <1>7, <2>1, FundShifts
<1> HIDE DEF y
<1>9. /\ funds' \in [Fund -> FundObject] /\ funds'[f] = y
      /\ \A z \in Fund : z # f => funds'[z] = funds[z]
  BY <1>3, <1>6, <1>8
<1>10. /\ funds'[f].balance = funds[f].balance + n
       /\ funds'[f].withdraw = funds[f].withdraw + w
  BY <1>8, <1>9 DEF x
<1>11. Founded'
  BY <1>1, <1>8, <1>9 DEF Founded
<1>12. e \in StakeObject /\ e.fund = f /\ e.amount = w
  BY <1>3, <1>5 DEF StakeObject
<1> HIDE DEF e
<1>13. /\ stakes' \in Seq(StakeObject) /\ Sorted(stakes')
       /\ \E i \in 1 .. Len(stakes') : stakes'[i] = e /\ Without(stakes, stakes', i)
  BY <1>1, <1>3, <1>12, DatedObjects, InsertedFacts DEF Ordered
<1>14. ASSUME NEW g \in Fund
       PROVE  SeqSum(stakes', FundShare(g)) = SeqSum(stakes, FundShare(g)) + IF g = f THEN w ELSE 0
  <2>1. PICK i \in 1 .. Len(stakes') : stakes'[i] = e /\ Without(stakes, stakes', i)
    BY <1>13
  <2>2. FundShare(g) \in [StakeObject -> Int] /\ FundShare(g)[e] = IF g = f THEN w ELSE 0
    BY <1>12, Shares
  <2>3. SumWithout(stakes', stakes, i, FundShare(g))
    BY <1>3, <1>13, <2>1, <2>2, SeqSumWithout
  <2>4. SeqSum(stakes, FundShare(g)) \in Int
    BY <1>3, <2>2, ValuesFacts
  <2> QED BY <1>5, <2>1, <2>2, <2>3, <2>4 DEF SumWithout
<1>15. /\ SeqSum(stakes', FundShare(f)) = SeqSum(stakes, FundShare(f)) + w
       /\ \A g \in Fund : g # f => SeqSum(stakes', FundShare(g)) = SeqSum(stakes, FundShare(g))
  <2>1. \A g \in Fund : SeqSum(stakes, FundShare(g)) \in Int
    BY <1>3, Shares, ValuesFacts
  <2> QED BY <1>14, <2>1
<1>16. -n + n = 0 /\ w \in Int /\ phase # "savings"
  BY <1>2, <1>3, <1>5
<1>17. UNCHANGED <<token, savings, interest, requests, lost, at, now, phase>>
  BY <1>1, <1>2
<1>18. StakeMove(a, f, -n, n, w)
  BY <1>1, <1>9, <1>10, <1>11, <1>13, <1>15, <1>16, <1>17 DEF StakeMove
<1> QED BY <1>2, <1>3, <1>16, <1>18, StakesChange

\* Tokens go between a balance and savings, with a request made, paid or removed.
SavingsMove(p, t, b, s) ==
    /\ b + s = 0 /\ balance' = Add(balance, p, b) /\ savings' = Add(savings, t, s)
    /\ requests' \in Seq(RequestObject) /\ Sorted(requests')
    /\ SeqSum(requests', ToShare(t)) = SeqSum(requests, ToShare(t)) + s
    /\ \A x \in Account : x # t => SeqSum(requests', ToShare(x)) = SeqSum(requests, ToShare(x))
    /\ at' \in Nat \ {0} /\ Waiting'
    /\ UNCHANGED <<token, funds, interest, stakes, lost, now, phase>>

LEMMA SavingsChange ==
    ASSUME TokenInv, token \in TokenObject, NEW p \in Account, NEW t \in Account,
           NEW b \in Int, NEW s \in Int, SavingsMove(p, t, b, s)
    PROVE  TokenInv'
<1> USE DEF SavingsMove
<1>1. TokenTypes /\ Conserved /\ Owing /\ Promising /\ Ordered /\ Founded
  BY DEF TokenInv
<1>2. /\ balance \in [Account -> Int] /\ savings \in [Account -> Int] /\ lost \in Int
      /\ funds \in [Fund -> FundObject] /\ token.total \in Int
  BY <1>1 DEF TokenTypes, TokenObject
<1>3. balance' \in [Account -> Int] /\ SumOver(balance', Account) = SumOver(balance, Account) + b
  BY <1>2, AddFacts
<1>4. /\ savings' \in [Account -> Int] /\ SumOver(savings', Account) = SumOver(savings, Account) + s
      /\ savings'[t] = savings[t] + s /\ \A x \in Account : x # t => savings'[x] = savings[x]
  <2>1. savings' = Add(savings, t, s) /\ savings \in [Account -> Int]
    BY <1>2
  <2>2. /\ Add(savings, t, s) \in [Account -> Int]
        /\ Add(savings, t, s)[t] = savings[t] + s
        /\ \A x \in Account : x # t => Add(savings, t, s)[x] = savings[x]
        /\ SumOver(Add(savings, t, s), Account) = SumOver(savings, Account) + s
    BY <2>1, AddFacts, Zenon
  <2> QED BY <2>1, <2>2, Zenon
<1>5. FundSum(funds) \in Int
  BY <1>2, FundSumType
<1>6. /\ FundSum(funds') = FundSum(funds) + 0 /\ lost' = lost + 0
      /\ token'.total = token.total + (b + s + 0 + 0) /\ 0 \in Int
  BY <1>2, <1>5
<1>7. Conserved'
  BY <1>1, <1>2, <1>3, <1>4, <1>6, TokenStep
<1>8. TokenTypes'
  BY <1>1, <1>3, <1>4 DEF TokenTypes
<1>9. Unborn'
  BY NotNoToken DEF Unborn
<1>10. ASSUME NEW x \in Account
       PROVE  savings'[x] = SeqSum(requests', ToShare(x))
  BY <1>1, <1>4 DEF Owing
<1>11. Owing'
  BY <1>10 DEF Owing
<1>12. Promising' /\ Ordered' /\ Founded'
  BY <1>1 DEF Promising, Ordered, Sorted, Founded
<1> QED BY <1>7, <1>8, <1>9, <1>11, <1>12 DEF TokenInv

\* What an object counts for in the sum of an account.
PartOf(r, a) == IF r.to = a THEN r.amount ELSE 0

\* An object more, or less, in the index of requests.
LEMMA RequestSums ==
    ASSUME NEW s \in Seq(RequestObject), NEW r \in Seq(RequestObject), NEW i \in 1 .. Len(s),
           Without(r, s, i), NEW a
    PROVE  /\ SeqSum(s, ToShare(a)) \in Int /\ SeqSum(r, ToShare(a)) \in Int
           /\ SeqSum(s, ToShare(a)) = PartOf(s[i], a) + SeqSum(r, ToShare(a))
<1>1. s[i] \in RequestObject
  OBVIOUS
<1>2. ToShare(a) \in [RequestObject -> Int] /\ ToShare(a)[s[i]] = PartOf(s[i], a)
  BY <1>1, Shares DEF PartOf
<1>3. SumWithout(s, r, i, ToShare(a))
  BY <1>2, SeqSumWithout
<1>4. SeqSum(s, ToShare(a)) \in Int /\ SeqSum(r, ToShare(a)) \in Int
  BY <1>2, ValuesFacts
<1> QED BY <1>2, <1>3, <1>4 DEF SumWithout

LEMMA TransferTokenSavingsKeeps ==
    ASSUME TokenInv, NEW f \in Account, NEW t \in Account, NEW id \in RequestId, NEW n \in Amount,
           NEW m \in Month, NEW d \in 1 .. MaxTime, TransferTokenSavings(f, t, id, n, m, d)
    PROVE  TokenInv'
<1> DEFINE e == [from |-> f, to |-> t, id |-> id, amount |-> n, total |-> n, order |-> 1,
                 months |-> m, date |-> d, updated |-> now]
<1>1. /\ TokenOperation /\ TokenTypes /\ Ordered
      /\ balance' = Add(balance, f, -n) /\ savings' = Add(savings, t, n)
      /\ requests' = Inserted(requests, e)
      /\ UNCHANGED <<token, funds, interest, stakes, lost>>
  BY DEF TokenInv, TransferTokenSavings
<1>2. token \in TokenObject /\ UNCHANGED <<now, phase, at>> /\ phase = "txs"
  BY <1>1, TokenOperationFacts
<1>3. /\ n \in Nat /\ n \in Int /\ -n \in Int /\ now \in Nat /\ d \in Nat
      /\ requests \in Seq(RequestObject) /\ at \in Nat \ {0}
  BY <1>1, TokenConstants DEF TokenTypes
<1>4. e \in RequestObject
  BY <1>3, NewRequest
<1>5. e.to = t /\ e.amount = n
  OBVIOUS
<1> HIDE DEF e
<1>6. /\ requests' \in Seq(RequestObject) /\ Sorted(requests')
      /\ \E i \in 1 .. Len(requests') : requests'[i] = e /\ Without(requests, requests', i)
  BY <1>1, <1>3, <1>4, DatedObjects, InsertedFacts DEF Ordered
<1>7. PICK i \in 1 .. Len(requests') : requests'[i] = e /\ Without(requests, requests', i)
  BY <1>6
<1>8. \A x \in Account :
         /\ SeqSum(requests, ToShare(x)) \in Int
         /\ SeqSum(requests', ToShare(x)) = PartOf(e, x) + SeqSum(requests, ToShare(x))
  BY <1>3, <1>6, <1>7, RequestSums
<1>9. PartOf(e, t) = n /\ \A x \in Account : x # t => PartOf(e, x) = 0
  BY <1>5 DEF PartOf
<1>10. /\ SeqSum(requests', ToShare(t)) = SeqSum(requests, ToShare(t)) + n
       /\ \A x \in Account : x # t => SeqSum(requests', ToShare(x)) = SeqSum(requests, ToShare(x))
  BY <1>3, <1>8, <1>9
<1>11. Waiting' /\ at' \in Nat \ {0} /\ -n + n = 0
  BY <1>2, <1>3 DEF Waiting
<1>12. SavingsMove(f, t, -n, n)
  BY <1>1, <1>2, <1>6, <1>10, <1>11 DEF SavingsMove
<1> QED BY <1>2, <1>3, <1>12, SavingsChange

\* What is left of a request goes to an account, and the request goes.
LEMMA RequestGoes ==
    ASSUME TokenInv, token \in TokenObject, NEW i \in 1 .. Len(requests), NEW p \in Account,
           savings' = Add(savings, requests[i].to, -requests[i].amount),
           balance' = Add(balance, p, requests[i].amount),
           requests' = RemoveAt(requests, i), at' \in Nat \ {0}, Waiting',
           UNCHANGED <<token, funds, interest, stakes, lost, now, phase>>
    PROVE  TokenInv'
<1> DEFINE w == requests[i]
           t == w.to
           n == w.amount
<1>1. requests \in Seq(RequestObject) /\ Sorted(requests)
  BY DEF TokenInv, TokenTypes, Ordered
<1>2. w \in RequestObject
  BY <1>1
<1>3. t \in Account /\ n \in Nat
  BY <1>2, RequestFields
<1>4. /\ requests' \in Seq(RequestObject) /\ Sorted(requests')
      /\ Without(requests', requests, i)
  BY <1>1, DatedObjects, RemovedFacts
<1>5. \A x \in Account :
         /\ SeqSum(requests, ToShare(x)) \in Int /\ SeqSum(requests', ToShare(x)) \in Int
         /\ SeqSum(requests, ToShare(x)) = PartOf(w, x) + SeqSum(requests', ToShare(x))
  BY <1>1, <1>4, RequestSums
<1>6. PartOf(w, t) = n /\ \A x \in Account : x # t => PartOf(w, x) = 0
  BY DEF PartOf
<1>7. savings' = Add(savings, t, -n) /\ balance' = Add(balance, p, n)
  OBVIOUS
<1> HIDE DEF w, t, n
<1>8. n \in Int /\ -n \in Int /\ n + -n = 0
  BY <1>3
<1>9. /\ SeqSum(requests', ToShare(t)) = SeqSum(requests, ToShare(t)) + -n
      /\ \A x \in Account : x # t => SeqSum(requests', ToShare(x)) = SeqSum(requests, ToShare(x))
  BY <1>3, <1>5, <1>6, <1>8
<1>10. SavingsMove(p, t, n, -n)
  BY <1>4, <1>7, <1>8, <1>9 DEF SavingsMove
<1> QED BY <1>3, <1>8, <1>10, SavingsChange

LEMMA EndSavingsKeeps ==
    ASSUME TokenInv, NEW i \in DOMAIN requests,
           CancelTransferTokenSavings(i) \/ ConcludeTransferTokenSavings(i)
    PROVE  TokenInv'
<1>1. TokenOperation /\ TokenTypes
  BY DEF TokenInv, CancelTransferTokenSavings, ConcludeTransferTokenSavings
<1>2. token \in TokenObject /\ UNCHANGED <<now, phase, at>> /\ phase = "txs"
  BY <1>1, TokenOperationFacts
<1>3. requests \in Seq(RequestObject) /\ at \in Nat \ {0}
  BY <1>1 DEF TokenTypes
<1>4. i \in 1 .. Len(requests) /\ requests[i] \in RequestObject
  BY <1>3
<1>5. requests[i].from \in Account /\ requests[i].to \in Account
  BY <1>4, RequestFields
<1>6. Waiting' /\ at' \in Nat \ {0}
  BY <1>2, <1>3 DEF Waiting
<1>7. PICK p \in Account : balance' = Add(balance, p, requests[i].amount)
  BY <1>5 DEF CancelTransferTokenSavings, ConcludeTransferTokenSavings
<1>8. /\ savings' = Add(savings, requests[i].to, -requests[i].amount)
      /\ requests' = RemoveAt(requests, i)
      /\ UNCHANGED <<token, funds, interest, stakes, lost>>
  BY DEF CancelTransferTokenSavings, ConcludeTransferTokenSavings
<1>9. UNCHANGED <<token, funds, interest, stakes, lost, now, phase>>
  BY <1>2, <1>8
<1> QED BY <1>2, <1>4, <1>6, <1>7, <1>8, <1>9, RequestGoes

\* A stake is paid: it is the first of the index.
LEMMA PayStakeKeeps ==
    ASSUME TokenInv, PayStake
    PROVE  TokenInv'
<1> DEFINE w == Head(stakes)
           a == w.amount
           f == w.fund
           x == funds[f]
           y == Shifted(x, -a, -a)
<1>1. TokenTypes /\ Ordered /\ Founded /\ Unborn
  BY DEF TokenInv
<1>2. /\ phase = "stakes" /\ Due(stakes, 1) /\ FundCovers(w)
      /\ funds' = [funds EXCEPT ![f].balance = @ - a, ![f].withdraw = @ - a]
      /\ balance' = Add(balance, w.from, a) /\ stakes' = Tail(stakes)
      /\ UNCHANGED <<now, phase, token, savings, interest, requests, at, lost>>
  BY DEF PayStake
<1>3. stakes \in Seq(StakeObject) /\ funds \in [Fund -> FundObject]
  BY <1>1 DEF TokenTypes
<1>4. 1 <= Len(stakes)
  BY <1>2 DEF Due
<1>5. stakes # << >> /\ w = stakes[1] /\ 1 \in 1 .. Len(stakes) /\ w \in StakeObject
  BY <1>3, <1>4
<1>6. token \in TokenObject
  BY <1>1, <1>5 DEF Unborn, TokenTypes
<1>7. w.from \in Account /\ f \in Fund /\ a \in Nat
  BY <1>5, StakeFields
<1>8. Tail(stakes) \in Seq(StakeObject) /\ Without(Tail(stakes), stakes, 1)
  BY <1>3, <1>5 DEF Without
<1>9. Sorted(Tail(stakes))
  BY <1>1, <1>3, <1>5, <1>8, DatedObjects, SortedWithout DEF Ordered
<1>10. x \in FundObject /\ x.balance >= a
  BY <1>2, <1>3, <1>7 DEF FundCovers
<1>11. a \in Int /\ -a \in Int /\ a + -a = 0
  BY <1>7
<1>12. funds' = [funds EXCEPT ![f] = y]
  <2>1. x.balance - a = x.balance + -a /\ x.withdraw - a = x.withdraw + -a
    BY <1>7, <1>10 DEF FundObject
  <2> QED BY <1>2, <1>3, <1>7, <2>1 DEF Shifted
<1>13. /\ y \in FundObject /\ y.exists = x.exists /\ y.balance = x.balance + -a
       /\ y.withdraw = x.withdraw + -a
  BY <1>10, <1>11, FundShifts
<1> HIDE DEF y
<1>14. /\ funds' \in [Fund -> FundObject] /\ funds'[f] = y
       /\ \A z \in Fund : z # f => funds'[z] = funds[z]
  BY <1>3, <1>7, <1>12, <1>13
<1>15. Founded'
  <2>1. ASSUME ~x.exists PROVE y.balance = 0 /\ y.withdraw = 0
    <3>1. x.balance = 0 /\ x.withdraw = 0
      BY <1>1, <1>7, <2>1 DEF Founded
    <3>2. a = 0
      BY <1>7, <1>10, <3>1
    <3> QED BY <1>13, <3>1, <3>2
  <2> QED BY <1>1, <1>13, <1>14, <2>1 DEF Founded
<1>16. ASSUME NEW g \in Fund
       PROVE  SeqSum(stakes', FundShare(g)) = SeqSum(stakes, FundShare(g)) + IF g = f THEN -a ELSE 0
  <2>1. FundShare(g) \in [StakeObject -> Int] /\ FundShare(g)[w] = IF g = f THEN a ELSE 0
    BY <1>5, Shares
  <2>2. SumWithout(stakes, Tail(stakes), 1, FundShare(g))
    BY <1>3, <1>5, <1>8, <2>1, SeqSumWithout
  <2>3. SeqSum(Tail(stakes), FundShare(g)) \in Int
    BY <1>8, <2>1, ValuesFacts
  <2>4. SeqSum(stakes, FundShare(g)) = (IF g = f THEN a ELSE 0) + SeqSum(stakes', FundShare(g))
    BY <1>2, <1>5, <2>1, <2>2 DEF SumWithout
  <2>5. SeqSum(stakes', FundShare(g)) \in Int
    BY <1>2, <2>3
  <2> HIDE DEF a
  <2> QED BY <1>7, <2>4, <2>5
<1>17. /\ SeqSum(stakes', FundShare(f)) = SeqSum(stakes, FundShare(f)) + -a
       /\ \A g \in Fund : g # f => SeqSum(stakes', FundShare(g)) = SeqSum(stakes, FundShare(g))
  <2>1. \A g \in Fund : SeqSum(stakes, FundShare(g)) \in Int
    BY <1>3, Shares, ValuesFacts, SMTT(30)
  <2> HIDE DEF a, f
  <2> QED BY <1>7, <1>16, <2>1
<1>18. StakeMove(w.from, f, a, -a, -a)
  <2>1. stakes' \in Seq(StakeObject) /\ Sorted(stakes') /\ phase # "savings"
    BY <1>2, <1>8, <1>9
  <2>2. funds'[f].balance = funds[f].balance + -a /\ funds'[f].withdraw = funds[f].withdraw + -a
    BY <1>13, <1>14
  <2> QED BY <1>2, <1>11, <1>14, <1>15, <1>17, <2>1, <2>2 DEF StakeMove
<1> HIDE DEF a, f, w
<1> QED BY <1>6, <1>7, <1>11, <1>18, StakesChange

\* Where only the phase and the iterator change.
LEMMA PhaseChanges ==
    ASSUME TokenInv, phase' \in {"txs", "stakes", "savings"}, now' \in Nat, at' \in Nat \ {0}, Waiting',
           UNCHANGED <<token, balance, savings, funds, interest, stakes, requests, lost>>
    PROVE  TokenInv'
<1>1. TokenTypes'
  BY DEF TokenInv, TokenTypes
<1>2. Conserved' /\ Owing' /\ Promising' /\ Unborn' /\ Founded' /\ Ordered'
  BY DEF TokenInv, Conserved, Owing, Promising, Unborn, Founded, Ordered, Sorted
<1> QED BY <1>1, <1>2 DEF TokenInv

\* Of an index that is in order nothing is due if its first object is not.
LEMMA NothingDue ==
    ASSUME NEW S, Dated(S), NEW s \in Seq(S), Sorted(s), NEW k \in Nat \ {0}, ~Due(s, k), now \in Nat
    PROVE  \A i \in DOMAIN s : i >= k => s[i].date > now
<1> SUFFICES ASSUME NEW i \in 1 .. Len(s), i >= k PROVE s[i].date > now
  OBVIOUS
<1>1. k \in 1 .. Len(s)
  OBVIOUS
<1>2. ~(s[k].date <= now) /\ s[k].date <= s[i].date
  BY <1>1 DEF Due, Sorted
<1>3. s[k] \in S /\ s[i] \in S
  BY <1>1
<1>4. s[k].date \in Nat /\ s[i].date \in Nat
  BY <1>3 DEF Dated
<1> QED BY <1>2, <1>4

LEMMA PhasesKeep ==
    ASSUME TokenInv, (\E t \in 1 .. MaxTime : ApplyBlock(t)) \/ StakesPaid \/ StakeFails \/ SavingsPaid
    PROVE  TokenInv'
<1>1. /\ now \in Nat /\ at \in Nat \ {0} /\ 1 \in Nat \ {0} /\ stakes \in Seq(StakeObject)
      /\ Sorted(stakes)
  BY DEF TokenInv, TokenTypes, Ordered
<1>2. UNCHANGED <<token, balance, savings, funds, interest, stakes, requests, lost>>
  BY DEF ApplyBlock, StakesPaid, StakeFails, SavingsPaid, tokenVars
<1>3. /\ phase' \in {"txs", "stakes", "savings"} /\ now' \in Nat /\ at' \in Nat \ {0}
  BY <1>1, TokenConstants DEF ApplyBlock, StakesPaid, StakeFails, SavingsPaid, tokenVars
<1>4. Waiting'
  <2>1. CASE StakesPaid
    <3>1. ~Due(stakes, 1) /\ at' = 1 /\ UNCHANGED <<now, stakes>>
      BY <2>1 DEF StakesPaid
    <3>2. \A i \in DOMAIN stakes : i >= 1 => stakes[i].date > now
      BY <1>1, <3>1, DatedObjects, NothingDue
    <3>3. \A i \in DOMAIN stakes : stakes[i].date > now
      BY <1>1, <3>2
    <3> QED BY <3>1, <3>3 DEF Waiting
  <2>2. CASE ~StakesPaid
    BY <2>2 DEF Waiting, ApplyBlock, StakeFails, SavingsPaid
  <2> QED BY <2>1, <2>2
<1> QED BY <1>2, <1>3, <1>4, PhaseChanges

\* One round of the payments of savings.
LEMMA PaySavingsKeeps ==
    ASSUME TokenInv, PaySavings
    PROVE  TokenInv'
<1> DEFINE w == requests[at]
           t == w.to
           n == Payment(w)
           v == NextPayment(w)
           moved == Moved(requests, at, v)
<1>1. TokenTypes /\ Ordered /\ Unborn /\ Waiting
  BY DEF TokenInv
<1>2. /\ phase = "savings" /\ Due(requests, at)
      /\ savings' = Add(savings, t, -n) /\ balance' = Add(balance, t, n)
      /\ requests' = IF w.order = w.months THEN RemoveAt(requests, at) ELSE moved
      /\ at' = IF w.order = w.months THEN 1 ELSE 1 + CHOOSE i \in DOMAIN moved : moved[i] = v
      /\ UNCHANGED <<now, phase, token, funds, interest, stakes, lost>>
  BY DEF PaySavings
<1>3. requests \in Seq(RequestObject) /\ at \in Nat \ {0} /\ now \in Nat /\ Sorted(requests)
  BY <1>1 DEF TokenTypes, Ordered
<1>4. at \in 1 .. Len(requests)
  BY <1>2, <1>3 DEF Due
<1>5. w \in RequestObject /\ requests # << >>
  BY <1>3, <1>4
<1>6. token \in TokenObject
  BY <1>1, <1>5 DEF Unborn, TokenTypes
<1>7. t \in Account /\ n \in Nat /\ n <= w.amount /\ w.amount \in Nat /\ w.date \in Nat
  BY <1>5, RequestFields
<1>8. \A i \in DOMAIN stakes : stakes[i].date > now
  BY <1>1, <1>2 DEF Waiting
<1>9. CASE w.order = w.months
  <2>1. n = w.amount
    BY <1>9 DEF Payment
  <2>2. at' = 1 /\ requests' = RemoveAt(requests, at)
    BY <1>2, <1>9
  <2>3. Waiting' /\ at' \in Nat \ {0}
    BY <1>2, <1>8, <2>2 DEF Waiting
  <2>4. savings' = Add(savings, t, -w.amount) /\ balance' = Add(balance, t, w.amount)
    BY <1>2, <2>1
  <2> QED BY <1>2, <1>4, <1>6, <1>7, <2>2, <2>3, <2>4, RequestGoes
<1>10. CASE w.order # w.months
  <2> DEFINE k == CHOOSE i \in DOMAIN moved : moved[i] = v
  <2>1. /\ v \in RequestObject /\ v.to = t /\ v.amount = w.amount - n
        /\ v.date = w.date + Cycle /\ v.updated = now
    BY <1>3, <1>5, <1>10, NextFields
  <2>2. requests' = moved /\ at' = 1 + k
    BY <1>2, <1>10
  <2> HIDE DEF v
  <2>3. w.date <= v.date
    BY <1>7, <2>1, TokenConstants
  <2>4. /\ moved \in Seq(RequestObject) /\ Sorted(moved)
        /\ \E p \in DOMAIN moved : moved[p] = v
        /\ \A u \in [RequestObject -> Int] : SeqSum(moved, u) + u[w] = SeqSum(requests, u) + u[v]
    <3>1. /\ requests \in Seq(RequestObject) /\ Sorted(requests) /\ at \in 1 .. Len(requests)
          /\ v \in RequestObject /\ requests[at].date <= v.date /\ Dated(RequestObject)
      BY <1>3, <1>4, <2>1, <2>3, DatedObjects
    <3>2. Relocated(moved, requests, at, v, RequestObject)
      BY <3>1, MovedFacts
    <3> QED BY <3>2 DEF Relocated
  <2> HIDE DEF moved
  <2>5. k \in DOMAIN moved /\ moved[k] = v
    BY <2>4
  <2> HIDE DEF k
  <2>6. k \in Nat \ {0}
    BY <2>4, <2>5
  <2>7. at' \in Nat \ {0} /\ at' - 1 = k
    BY <2>2, <2>6
  <2>8. Waiting'
    BY <1>2, <1>8, <2>1, <2>2, <2>5, <2>7 DEF Waiting
  <2>9. \A x \in Account :
           /\ SeqSum(requests, ToShare(x)) \in Int /\ SeqSum(requests', ToShare(x)) \in Int
           /\ SeqSum(requests', ToShare(x)) + PartOf(w, x) = SeqSum(requests, ToShare(x)) + PartOf(v, x)
    <3> SUFFICES ASSUME NEW x \in Account
                 PROVE  /\ SeqSum(requests, ToShare(x)) \in Int /\ SeqSum(moved, ToShare(x)) \in Int
                        /\ SeqSum(moved, ToShare(x)) + PartOf(w, x)
                             = SeqSum(requests, ToShare(x)) + PartOf(v, x)
      BY <2>2
    <3>1. /\ ToShare(x) \in [RequestObject -> Int]
          /\ ToShare(x)[w] = PartOf(w, x) /\ ToShare(x)[v] = PartOf(v, x)
      BY <1>5, <2>1, Shares DEF PartOf
    <3>2. SeqSum(requests, ToShare(x)) \in Int /\ SeqSum(moved, ToShare(x)) \in Int
      BY <1>3, <2>4, <3>1, ValuesFacts
    <3> QED BY <2>4, <3>1, <3>2
  <2>10. /\ PartOf(w, t) = w.amount /\ PartOf(v, t) = w.amount - n
         /\ \A x \in Account : x # t => PartOf(w, x) = 0 /\ PartOf(v, x) = 0
    BY <2>1 DEF PartOf
  <2>11. n \in Int /\ -n \in Int /\ n + -n = 0
    BY <1>7
  <2> DEFINE m == w.amount
  <2>12. /\ SeqSum(requests', ToShare(t)) + m = SeqSum(requests, ToShare(t)) + (m - n)
         /\ \A x \in Account : x # t =>
               SeqSum(requests', ToShare(x)) + 0 = SeqSum(requests, ToShare(x)) + 0
    BY <1>7, <2>9, <2>10
  <2>13. m \in Int
    BY <1>7
  <2> HIDE DEF m, n, t, w
  <2>14. /\ SeqSum(requests', ToShare(t)) = SeqSum(requests, ToShare(t)) + -n
         /\ \A x \in Account : x # t => SeqSum(requests', ToShare(x)) = SeqSum(requests, ToShare(x))
    BY <1>7, <2>9, <2>11, <2>12, <2>13
  <2>15. SavingsMove(t, t, n, -n)
    BY <1>2, <2>2, <2>4, <2>7, <2>8, <2>11, <2>14 DEF SavingsMove
  <2> QED BY <1>6, <1>7, <2>11, <2>15, SavingsChange
<1> QED BY <1>9, <1>10

LEMMA NextTokens == Inv /\ TokenInv /\ [Next]_vars => TokenInv'
<1> SUFFICES ASSUME Inv, TokenInv, [Next]_vars PROVE TokenInv'
  OBVIOUS
<1>1. ASSUME UNCHANGED <<tokenVars, now, phase>> PROVE TokenInv'
  <2>1. /\ UNCHANGED <<token, balance, savings, funds, interest, stakes, requests, lost>>
        /\ UNCHANGED <<at, now, phase>>
    BY <1>1 DEF tokenVars
  <2>2. Waiting'
    BY <2>1 DEF TokenInv, Waiting
  <2>3. phase' \in {"txs", "stakes", "savings"} /\ now' \in Nat /\ at' \in Nat \ {0}
    BY <2>1 DEF TokenInv, TokenTypes
  <2> QED BY <2>1, <2>2, <2>3, PhaseChanges
<1>2. CASE UNCHANGED vars
  BY <1>1, <1>2 DEF vars
<1>3. CASE DappOperation /\ UNCHANGED tokenVars
  <2>1. UNCHANGED <<now, phase>>
    BY <1>3 DEF DappOperation, CreateDapp, JoinDapp, LeaveDapp, UpdateDappKey, CreateComment,
                EditComment, DeleteComment, CommentVote, VoteDapp, VoteDappTrxFee, Operation
  <2> QED BY <1>1, <1>3, <2>1
<1>4. CASE \E d \in DappName : CreateToken(d)
  BY <1>4, CreateTokenKeeps
<1>5. CASE \E n \in Amount : IssueToken(n) \/ BurnToken(n)
  BY <1>5, TotalKeeps
<1>6. CASE \E a, b \in Account, n \in Amount : TransferToken(a, b, n)
  BY <1>6, TransferTokenKeeps
<1>7. CASE \E f \in Fund, n \in Amount \cup {0} : SetupTokenFund(f, n)
  BY <1>7, SetupTokenFundKeeps
<1>8. CASE \E f \in Fund, n \in Amount : TransferTokenFund(f, n)
  BY <1>8, TransferTokenFundKeeps
<1>9. CASE \E m \in Month, r \in Rate \cup {NotOffered} : SetTokenStakingInterest(m, r)
  BY <1>9, SetTokenStakingInterestKeeps
<1>10. CASE \E a \in Account, f \in Fund, id \in RequestId, n \in Amount, m \in Month :
               StakingTokenFund(a, f, id, n, m)
  BY <1>10, StakingTokenFundKeeps
<1>11. CASE \E a, b \in Account, id \in RequestId, n \in Amount, m \in Month, t \in 1 .. MaxTime :
               TransferTokenSavings(a, b, id, n, m, t)
  BY <1>11, TransferTokenSavingsKeeps
<1>12. CASE \E i \in DOMAIN requests :
               CancelTransferTokenSavings(i) \/ ConcludeTransferTokenSavings(i)
  BY <1>12, EndSavingsKeeps
<1>13. CASE (\E t \in 1 .. MaxTime : ApplyBlock(t)) \/ StakesPaid \/ StakeFails \/ SavingsPaid
  BY <1>13, PhasesKeep
<1>14. CASE PayStake
  BY <1>14, PayStakeKeeps
<1>15. CASE PaySavings
  BY <1>15, PaySavingsKeeps
<1> QED BY <1>2, <1>3, <1>4, <1>5, <1>6, <1>7, <1>8, <1>9, <1>10, <1>11, <1>12, <1>13, <1>14, <1>15
        DEF Next

LEMMA TokenSafety == Spec => [](Inv /\ TokenInv)
<1>1. Init => Inv /\ TokenInv
  BY InvInit, InitTokens
<1>2. Inv /\ TokenInv /\ [Next]_vars => Inv' /\ TokenInv'
  BY InvNext, NextTokens
<1> QED BY <1>1, <1>2, PTL DEF Spec

\* No token is made or lost but where a fund was set up that existed: the
\* token's total is what balances, savings and funds hold, the savings of an
\* account are what its requests have left to pay, and the withdraw_balance of
\* a fund is what its stakes were promised; for any number of accounts, funds,
\* requests and stakes, and whatever payments failed.
THEOREM TokensAreAccounted == Spec => []TokensAccounted
<1>1. TokenInv => TokensAccounted
  <2> SUFFICES ASSUME TokenInv PROVE TokensAccounted
    OBVIOUS
  <2>1. Conserved /\ Owing /\ Promising /\ requests \in Seq(RequestObject) /\ stakes \in Seq(StakeObject)
    BY DEF TokenInv, TokenTypes
  <2>2. token.total = SumOver(balance, Account) + SumOver(savings, Account) + lost
                        + MapThenSumSet(LAMBDA f : funds[f].balance, Fund)
    BY <2>1 DEF Conserved, FundSum
  <2>3. ASSUME NEW a \in Account
        PROVE  savings[a] = SumWhere(requests, LAMBDA r : r.to = a)
    <3>1. savings[a] = SeqSum(requests, ToShare(a))
      BY <2>1 DEF Owing
    <3>2. SumWhere(requests, LAMBDA r : r.to = a) = SeqSum(requests, ToShare(a))
      BY <2>1, OwedIs
    <3> QED BY <3>1, <3>2
  <2>4. ASSUME NEW f \in Fund
        PROVE  funds[f].withdraw = SumWhere(stakes, LAMBDA r : r.fund = f)
    <3>1. funds[f].withdraw = SeqSum(stakes, FundShare(f))
      BY <2>1 DEF Promising
    <3>2. SumWhere(stakes, LAMBDA r : r.fund = f) = SeqSum(stakes, FundShare(f))
      BY <2>1, PromisedIs
    <3> QED BY <3>1, <3>2
  <2> QED BY <2>2, <2>3, <2>4 DEF TokensAccounted
<1> QED BY <1>1, TokenSafety, PTL

\* A block's payments that end before all that is due was paid end for want of
\* tokens in the fund of the first stake: an assertion on savings never fails,
\* since no request asks for more than the savings it is part of, and what the
\* iterator steps over was paid in this block.
THEOREM PaymentsWaitForFunds == Spec => DueOnlyWaits
<1> DEFINE Short == /\ stakes # << >> /\ stakes[1].date <= now
                    /\ funds[stakes[1].fund].balance < stakes[1].amount
           Done == /\ \A i \in DOMAIN stakes : stakes[i].date > now
                   /\ \A i \in DOMAIN requests : requests[i].date <= now =>
                         \E j \in i .. Len(requests) : requests[j].updated = now
<1>1. ASSUME TokenInv, [Next]_vars, phase # "txs", phase' = "txs"
      PROVE  Short \/ Done
  <2>1. TokenTypes /\ Owing /\ Promising /\ Ordered /\ Waiting
    BY <1>1 DEF TokenInv
  <2>2. /\ requests \in Seq(RequestObject) /\ stakes \in Seq(StakeObject)
        /\ Sorted(requests) /\ Sorted(stakes)
        /\ now \in Nat /\ at \in Nat \ {0} /\ funds \in [Fund -> FundObject]
    BY <2>1 DEF TokenTypes, Ordered
  <2>3. StakeFails \/ SavingsPaid
    <3>1. TokenOperation => phase = "txs"
      BY DEF TokenOperation, Operation
    <3>2. \A d : CreateToken(d) => phase = "txs"
      BY DEF CreateToken, Operation
    <3>3. DappOperation => phase = "txs"
      BY DEF DappOperation, CreateDapp, JoinDapp, LeaveDapp, UpdateDappKey, CreateComment,
             EditComment, DeleteComment, CommentVote, VoteDapp, VoteDappTrxFee, Operation
    <3>4. \A t : ApplyBlock(t) => phase = "txs"
      BY DEF ApplyBlock
    <3>5. PayStake \/ StakesPaid \/ PaySavings => phase' # "txs"
      BY <1>1 DEF PayStake, StakesPaid, PaySavings
    <3>6. Next
      BY <1>1 DEF vars
    <3> QED BY <1>1, <3>1, <3>2, <3>3, <3>4, <3>5, <3>6, KindsOfStep
  <2>4. CASE StakeFails
    <3> DEFINE w == stakes[1]
               f == w.fund
    <3>1. Due(stakes, 1) /\ ~FundCovers(Head(stakes))
      BY <2>4 DEF StakeFails
    <3>2. 1 \in 1 .. Len(stakes) /\ w.date <= now /\ stakes # << >> /\ Head(stakes) = w
      BY <2>2, <3>1 DEF Due
    <3>3. w \in StakeObject
      BY <2>2, <3>2
    <3>4. f \in Fund /\ w.amount \in Nat
      BY <3>3, StakeFields
    <3>5. FundShare(f) \in [StakeObject -> Nat] /\ FundShare(f)[w] = w.amount
      BY <3>3, Shares
    <3>6. FundShare(f)[w] <= SeqSum(stakes, FundShare(f))
      BY <2>2, <3>2, <3>5, SeqSumNat
    <3>7. funds[f].withdraw >= w.amount
      <4>1. funds[f].withdraw = SeqSum(stakes, FundShare(f)) /\ SeqSum(stakes, FundShare(f)) \in Nat
        BY <2>1, <2>2, <3>4, <3>5, SeqSumNat DEF Promising
      <4> HIDE DEF w, f
      <4> QED BY <3>4, <3>5, <3>6, <4>1
    <3>8. ~(funds[f].balance >= w.amount)
      BY <3>1, <3>2, <3>7 DEF FundCovers
    <3>9. funds[f].balance \in Int
      <4>1. funds[f] \in FundObject
        BY <2>2, <3>4
      <4> QED BY <4>1 DEF FundObject
    <3>10. funds[f].balance < w.amount
      BY <3>4, <3>8, <3>9
    <3> QED BY <3>2, <3>10
  <2>5. CASE SavingsPaid
    <3>1. /\ phase = "savings"
          /\ Due(requests, at) => savings[requests[at].to] < Payment(requests[at])
      BY <2>5 DEF SavingsPaid
    <3>2. /\ \A i \in DOMAIN stakes : stakes[i].date > now
          /\ at = 1 \/ (at - 1 \in DOMAIN requests /\ requests[at - 1].updated = now)
      BY <2>1, <3>1 DEF Waiting
    <3>3. ~Due(requests, at)
      <4> SUFFICES ASSUME Due(requests, at) PROVE FALSE
        OBVIOUS
      <4> DEFINE w == requests[at]
                 a == w.to
      <4>1. at \in 1 .. Len(requests)
        BY <2>2 DEF Due
      <4>2. w \in RequestObject
        BY <2>2, <4>1
      <4>3. a \in Account /\ w.amount \in Nat /\ Payment(w) \in Nat /\ Payment(w) <= w.amount
        BY <4>2, RequestFields
      <4>4. ToShare(a) \in [RequestObject -> Nat] /\ ToShare(a)[w] = w.amount
        BY <4>2, Shares
      <4>5. ToShare(a)[w] <= SeqSum(requests, ToShare(a)) /\ SeqSum(requests, ToShare(a)) \in Nat
        BY <2>2, <4>1, <4>4, SeqSumNat
      <4>6. savings[a] = SeqSum(requests, ToShare(a)) /\ savings[a] < Payment(w)
        BY <2>1, <3>1, <4>3 DEF Owing
      <4> HIDE DEF w, a
      <4> QED BY <4>3, <4>4, <4>5, <4>6
    <3>4. \A i \in DOMAIN requests : i >= at => requests[i].date > now
      BY <2>2, <3>3, DatedObjects, NothingDue
    <3>5. ASSUME NEW i \in DOMAIN requests, requests[i].date <= now
          PROVE  \E j \in i .. Len(requests) : requests[j].updated = now
      <4>1. requests[i] \in RequestObject /\ i \in 1 .. Len(requests)
        BY <2>2, <3>5
      <4>2. requests[i].date \in Nat
        BY <4>1, RequestFields
      <4>3. ~(requests[i].date > now)
        BY <2>2, <3>5, <4>2
      <4>4. i < at
        BY <2>2, <3>4, <4>1, <4>3
      <4>5. at - 1 \in i .. Len(requests) /\ requests[at - 1].updated = now
        BY <2>2, <3>2, <4>1, <4>4
      <4> QED BY <4>5
    <3> QED BY <3>2, <3>5
  <2> QED BY <2>3, <2>4, <2>5
<1>2. TokenInv /\ [Next]_vars => [phase # "txs" /\ phase' = "txs" => Short \/ Done]_vars
  BY <1>1
<1> QED BY <1>2, TokenSafety, PTL DEF Spec, DueOnlyWaits
=============================================================================
