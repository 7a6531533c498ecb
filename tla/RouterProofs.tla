---------------------------- MODULE RouterProofs ----------------------------
(***************************************************************************)
(* Proofs about routing, for every mesh, every traffic and every size of   *)
(* the tables.                                                             *)
(*                                                                         *)
(* What a flood says of its way is kept true from node to node: a frame    *)
(* that waits in a node's queue or is repeated from its table ends where   *)
(* that node is, so whoever hears it hears the last node of its path.  A   *)
(* returned path is true because the flood it was taken from was, and a    *)
(* route because the flood or the returned path it was learned from was.   *)
(***************************************************************************)
EXTENDS Router, ProofFacts

\* A path that begins with a node in range of a, and one whose last node b hears.
Begins(a, path) == path # <<>> => <<a, path[1]>> \in Links
Reaches(path, b) == path # <<>> => <<path[Len(path)], b>> \in Links

\* A way from a to b.
Leads(a, path, b) ==
    /\ Connected(path) /\ Begins(a, path) /\ Reaches(path, b)
    /\ path = <<>> => <<a, b>> \in Links

\* What a flood says wherever it is.
FloodOK(f) ==
    /\ \A i, j \in 1..Len(f.path) : f.path[i] = f.path[j] => i = j
    /\ Connected(f.path)
    /\ Sealed(f) => Begins(f.payload.from, f.path)
    /\ f.type = "TRACE" => f.payload = f.path

\* A frame, and a returned path that is true.
FrameOK(f) ==
    /\ IsFrame(f)
    /\ f.route = "FLOOD" => FloodOK(f)
    /\ f.type = "PATH" => Leads(f.payload.to, f.payload.plain, f.payload.from)

\* A frame n is about to send.
LeavesFrom(n, f) ==
    /\ FrameOK(f)
    /\ f.route = "FLOOD" =>
        /\ f.path # <<>> => f.path[Len(f.path)] = n
        /\ f.path = <<>> /\ Sealed(f) => f.payload.from = n

\* A frame that reaches n.
ComesTo(n, f) ==
    /\ FrameOK(f)
    /\ f.route = "FLOOD" =>
        /\ Reaches(f.path, n)
        /\ f.path = <<>> /\ Sealed(f) => <<f.payload.from, n>> \in Links

RouteRow == [to : Nodes, path : Seq(Nodes)]

IsEntry(e) == DOMAIN e = {"id", "expectedAck", "deadline", "attempts", "to", "frame"}

\* The sends of n that wait for their ack.
EntriesOK(n, table, next) ==
    /\ IsList(table)
    /\ \A i \in 1..Len(table) :
           /\ IsEntry(table[i]) /\ table[i].id \in 1..next - 1 /\ table[i].to \in Nodes
           /\ LeavesFrom(n, table[i].frame)

SeenOK ==
    /\ seenNext \in [Nodes -> 0..SeenSlots - 1]
    /\ DOMAIN seen = Nodes /\ \A n \in Nodes : DOMAIN seen[n] = 0..SeenSlots - 1

\* The other functions that are indexed by nodes.
IndexedOK ==
    /\ now \in [Nodes -> Nat] /\ nextId \in [Nodes -> Nat \ {0}]
    /\ DOMAIN queue = Nodes /\ DOMAIN pending = Nodes
    /\ routes \in [Nodes -> Seq(RouteRow)]

SendsOK == \A s \in sends :
    DOMAIN s = {"from", "id", "to", "text", "fate"} /\ s.fate \in {"waiting", "acked", "failed"}

Inv ==
    /\ IndexedOK
    /\ SeenOK
    /\ SendsOK
    /\ \A n \in Nodes : \A d \in queue[n] : d.notBefore \in Nat /\ LeavesFrom(n, d.frame)
    /\ \A n \in Nodes : EntriesOK(n, pending[n], nextId[n])
    /\ \A m \in air : m.to \in Nodes /\ ComesTo(m.to, m.frame)

\* A table of ways of n.
LeadFrom(n, table) == \A i \in 1..Len(table) : Leads(n, table[i].path, table[i].to)

RoutesLead == \A n \in Nodes : LeadFrom(n, routes[n])

-----------------------------------------------------------------------------
(* Paths.                                                                  *)

\* What a path is made of.
LEMMA PathFacts ==
    ASSUME NEW p \in Seq(Nodes)
    PROVE  /\ Len(p) \in Nat /\ p \in [1..Len(p) -> Nodes] /\ IsList(p)
           /\ p = <<>> <=> Len(p) = 0
           /\ \A i \in 1..Len(p) : p[i] \in Nodes
<1>1. Len(p) \in Nat /\ p \in [1..Len(p) -> Nodes] /\ IsList(p)
  BY LenProperties DEF IsList
<1> QED
  BY <1>1, EmptySeq

\* One more node at the end.
LEMMA ConnectedAppend ==
    ASSUME NEW p \in Seq(Nodes), NEW n \in Nodes, Connected(p), Reaches(p, n)
    PROVE  Connected(Append(p, n))
<1> DEFINE q == Append(p, n)
<1>1. /\ Len(p) \in Nat /\ Len(q) = Len(p) + 1
      /\ \A i \in 1..Len(p) : q[i] = p[i]
      /\ q[Len(p) + 1] = n
  BY PathFacts, AppendProperties
<1>2. Len(p) # 0 => <<p[Len(p)], n>> \in Links
  BY PathFacts DEF Reaches
<1>3. \A i \in 1..Len(p) - 1 : <<p[i], p[i + 1]>> \in Links
  BY DEF Connected
<1> HIDE DEF q
<1>4. ASSUME NEW i \in 1..Len(q) - 1 PROVE <<q[i], q[i + 1]>> \in Links
  <2>1. CASE i = Len(p)
    <3>1. Len(p) # 0 /\ i \in 1..Len(p)
      BY <1>1, <2>1
    <3>2. q[i] = p[Len(p)] /\ q[i + 1] = n
      BY <1>1, <2>1, <3>1
    <3> QED BY <1>2, <3>1, <3>2
  <2>2. CASE i # Len(p)
    <3>1. i \in 1..Len(p) - 1 /\ i \in 1..Len(p) /\ i + 1 \in 1..Len(p)
      BY <1>1, <2>2
    <3> QED BY <1>1, <1>3, <3>1
  <2> QED BY <2>1, <2>2
<1> QED
  BY <1>4 DEF Connected, q

\* One node and then a path.
LEMMA PrefixFacts ==
    ASSUME NEW p \in Seq(Nodes), NEW a \in Nodes
    PROVE  /\ <<a>> \o p \in Seq(Nodes) /\ Len(<<a>> \o p) = Len(p) + 1 /\ (<<a>> \o p)[1] = a
           /\ \A i \in 2..Len(p) + 1 : (<<a>> \o p)[i] = p[i - 1]
<1>1. <<a>> \in Seq(Nodes) /\ Len(<<a>>) = 1 /\ <<a>>[1] = a
  OBVIOUS
<1> DEFINE one == <<a>>
           q == one \o p
<1> HIDE DEF one
<1>2. one \in Seq(Nodes) /\ Len(one) = 1 /\ one[1] = a /\ Len(p) \in Nat
  BY <1>1, PathFacts DEF one
<1>3. /\ q \in Seq(Nodes) /\ Len(q) = Len(one) + Len(p)
      /\ \A i \in 1..Len(one) + Len(p) : q[i] = IF i <= Len(one) THEN one[i] ELSE p[i - Len(one)]
  BY <1>2, ConcatProperties
<1> HIDE DEF q
<1>4. Len(q) = Len(p) + 1
  BY <1>2, <1>3
<1>5. q[1] = a
  <2>1. 1 \in 1..Len(one) + Len(p) /\ 1 <= Len(one)
    BY <1>2
  <2> QED BY <1>2, <1>3, <2>1
<1>6. ASSUME NEW i \in 2..Len(p) + 1 PROVE q[i] = p[i - 1]
  <2>1. i \in 1..Len(one) + Len(p) /\ ~(i <= Len(one))
    BY <1>2
  <2> QED BY <1>2, <1>3, <2>1
<1> QED
  BY <1>3, <1>4, <1>5, <1>6 DEF one, q

\* A node at the head.
LEMMA ConnectedFrom ==
    ASSUME NEW p \in Seq(Nodes), NEW a \in Nodes, Connected(p), Begins(a, p)
    PROVE  Connected(<<a>> \o p) /\ <<a>> \o p \in Seq(Nodes)
<1> DEFINE q == <<a>> \o p
<1>1. Len(p) \in Nat
  BY PathFacts
<1>2. /\ q \in Seq(Nodes) /\ Len(q) = Len(p) + 1 /\ q[1] = a
      /\ \A i \in 2..Len(p) + 1 : q[i] = p[i - 1]
  BY PrefixFacts
<1>3. Len(p) # 0 => <<a, p[1]>> \in Links
  BY PathFacts DEF Begins
<1>4. \A i \in 1..Len(p) - 1 : <<p[i], p[i + 1]>> \in Links
  BY DEF Connected
<1> HIDE DEF q
<1>5. ASSUME NEW i \in 1..Len(q) - 1 PROVE <<q[i], q[i + 1]>> \in Links
  <2>1. CASE i = 1
    <3>1. Len(p) # 0 /\ 2 \in 2..Len(p) + 1
      BY <1>1, <1>2, <2>1
    <3>2. q[2] = p[1]
      BY <1>2, <3>1
    <3> QED BY <1>2, <1>3, <2>1, <3>1, <3>2
  <2>2. CASE i # 1
    <3>1. i - 1 \in 1..Len(p) - 1 /\ i \in 2..Len(p) + 1 /\ i + 1 \in 2..Len(p) + 1
          /\ (i + 1) - 1 = i /\ (i - 1) + 1 = i
      BY <1>1, <1>2, <2>2
    <3>2. q[i] = p[i - 1] /\ q[i + 1] = p[i]
      BY <1>2, <3>1
    <3> QED BY <1>4, <3>1, <3>2
  <2> QED BY <2>1, <2>2
<1>6. Connected(q)
  BY <1>5 DEF Connected
<1> QED
  BY <1>2, <1>6 DEF q

\* A way is connected from end to end.
LEMMA LeadsConnected ==
    ASSUME NEW p \in Seq(Nodes), NEW a \in Nodes, NEW b \in Nodes, Leads(a, p, b)
    PROVE  Connected(<<a>> \o p \o <<b>>)
<1> DEFINE q == <<a>> \o p
<1>1. Connected(q) /\ q \in Seq(Nodes)
  BY ConnectedFrom DEF Leads
<1>2. /\ Len(p) \in Nat /\ Len(q) = Len(p) + 1 /\ q[1] = a
      /\ Len(p) # 0 => q[Len(p) + 1] = p[Len(p)]
  <2>1. Len(p) \in Nat
    BY PathFacts
  <2>2. Len(p) # 0 => Len(p) + 1 \in 2..Len(p) + 1 /\ (Len(p) + 1) - 1 = Len(p)
    BY <2>1
  <2> QED BY <2>1, <2>2, PrefixFacts
<1> HIDE DEF q
<1>3. Reaches(q, b)
  <2>1. CASE Len(p) = 0
    BY <1>2, <2>1, PathFacts DEF Reaches, Leads
  <2>2. CASE Len(p) # 0
    BY <1>2, <2>2, PathFacts DEF Reaches, Leads
  <2> QED BY <2>1, <2>2
<1>4. Connected(Append(q, b))
  BY <1>1, <1>3, ConnectedAppend
<1>5. q \o <<b>> = Append(q, b)
  BY <1>1, AppendIsConcat
<1> QED
  BY <1>4, <1>5 DEF q

\* Where links go both ways, so does a way.
LEMMA ReverseLeads ==
    ASSUME \A l \in Links : <<l[2], l[1]>> \in Links,
           NEW p \in Seq(Nodes), NEW a \in Nodes, NEW b \in Nodes, Leads(a, p, b)
    PROVE  Leads(b, ReversePath(p), a)
<1> DEFINE q == ReversePath(p)
           L == Len(p)
<1>1. L \in Nat /\ q = [i \in 1..L |-> p[L + 1 - i]]
  BY PathFacts DEF ReversePath
<1>2. Len(q) = L /\ \A i \in 1..L : q[i] = p[L + 1 - i]
  <2>1. \A i \in 1..L : q[i] = p[L + 1 - i]
    BY <1>1
  <2>2. q = [i \in 1..L |-> q[i]]
    BY <1>1
  <2> HIDE DEF q, L
  <2> QED BY <1>1, <2>1, <2>2, ListOf
<1>3. (q = <<>> <=> L = 0) /\ (p = <<>> <=> L = 0)
  <2>1. p = <<>> <=> L = 0
    BY PathFacts
  <2>2. L = 0 => q = <<>>
    BY <1>1
  <2>3. Len(<<>>) = 0
    OBVIOUS
  <2> HIDE DEF q, L
  <2> QED BY <1>2, <2>1, <2>2, <2>3
<1>4. \A x, y : <<x, y>> \in Links => <<y, x>> \in Links
  OBVIOUS
<1>5. /\ \A i \in 1..L - 1 : <<p[i], p[i + 1]>> \in Links
      /\ L # 0 => <<a, p[1]>> \in Links /\ <<p[L], b>> \in Links
      /\ L = 0 => <<a, b>> \in Links
  BY <1>3 DEF Leads, Connected, Begins, Reaches
<1> HIDE DEF q, L
<1>6. ASSUME NEW i \in 1..Len(q) - 1 PROVE <<q[i], q[i + 1]>> \in Links
  <2>1. /\ L - i \in 1..L - 1 /\ i \in 1..L /\ i + 1 \in 1..L
        /\ (L - i) + 1 = L + 1 - i /\ L + 1 - (i + 1) = L - i
    BY <1>1, <1>2
  <2>2. <<p[L - i], p[L + 1 - i]>> \in Links
    BY <1>5, <2>1
  <2>3. q[i] = p[L + 1 - i] /\ q[i + 1] = p[L - i]
    BY <1>2, <2>1
  <2> QED BY <1>4, <2>2, <2>3
<1>7. L # 0 => q[1] = p[L] /\ q[L] = p[1]
  <2>1. L # 0 => 1 \in 1..L /\ L \in 1..L /\ L + 1 - 1 = L /\ L + 1 - L = 1
    BY <1>1
  <2> QED BY <1>2, <2>1
<1>8. Connected(q)
  BY <1>6 DEF Connected
<1>9. Begins(b, q) /\ Reaches(q, a) /\ (q = <<>> => <<b, a>> \in Links)
  BY <1>2, <1>3, <1>4, <1>5, <1>7 DEF Begins, Reaches
<1> QED
  BY <1>8, <1>9 DEF Leads, q

LEMMA ReverseIsPath ==
    ASSUME NEW p \in Seq(Nodes)
    PROVE  ReversePath(p) \in Seq(Nodes)
<1> DEFINE q == ReversePath(p)
           L == Len(p)
<1>1. L \in Nat /\ \A i \in 1..L : p[i] \in Nodes
  BY PathFacts
<1>2. \A i \in 1..L : L + 1 - i \in 1..L
  BY <1>1
<1>3. q \in [1..L -> Nodes]
  BY <1>1, <1>2 DEF ReversePath
<1> HIDE DEF q, L
<1> QED
  BY <1>1, <1>3, FunctionIsSeq DEF q

-----------------------------------------------------------------------------
(* Routes.                                                                 *)

\* Every row of new is a row of old, or leads to where we say along the path
\* we say.
RowsFrom(new, old, to, path) ==
    \A i \in 1..Len(new) :
        \/ \E j \in 1..Len(old) : new[i] = old[j]
        \/ new[i].to = to /\ new[i].path = path

LEMMA RouteRows ==
    ASSUME NEW table \in Seq(RouteRow)
    PROVE  /\ Len(table) \in Nat /\ IsList(table)
           /\ \A i \in 1..Len(table) :
                  table[i] \in RouteRow /\ table[i].to \in Nodes /\ table[i].path \in Seq(Nodes)
<1>1. Len(table) \in Nat /\ IsList(table) /\ \A i \in 1..Len(table) : table[i] \in RouteRow
  BY LenProperties, ElementOfSeq DEF IsList
<1> QED
  BY <1>1 DEF RouteRow

\* The row a key is looked up in.
LEMMA RoutesToFacts ==
    ASSUME NEW table \in Seq(RouteRow), NEW to, RoutesTo(table, to) # {}
    PROVE  Min(RoutesTo(table, to)) \in 1..Len(table) /\ table[Min(RoutesTo(table, to))].to = to
<1>1. RoutesTo(table, to) \subseteq Nat
  BY RouteRows DEF RoutesTo
<1>2. Min(RoutesTo(table, to)) \in RoutesTo(table, to)
  BY <1>1, MinFacts
<1> QED
  BY <1>2 DEF RoutesTo

LEMMA InstallRouteFacts ==
    ASSUME NEW table \in Seq(RouteRow), NEW to \in Nodes, NEW path \in Seq(Nodes)
    PROVE  /\ InstallRoute(table, to, path) \in Seq(RouteRow)
           /\ RowsFrom(InstallRoute(table, to, path), table, to, path)
<1> DEFINE new == InstallRoute(table, to, path)
<1>1. CASE RoutesTo(table, to) # {}
  <2> DEFINE i == Min(RoutesTo(table, to))
             row == [table[i] EXCEPT !.path = path]
  <2>1. i \in 1..Len(table) /\ table[i].to = to
    BY <1>1, RoutesToFacts
  <2> HIDE DEF i
  <2>2. table[i] \in RouteRow /\ Len(table) \in Nat
    BY <2>1, RouteRows
  <2>3. row \in RouteRow /\ row.to = to /\ row.path = path
    BY <2>1, <2>2 DEF RouteRow
  <2>4. new = [table EXCEPT ![i] = row]
    BY <1>1 DEF InstallRoute, i
  <2> HIDE DEF new, row
  <2>5. new \in Seq(RouteRow) /\ Len(new) = Len(table)
    BY <2>1, <2>3, <2>4, ExceptSeq
  <2>6. \A j \in 1..Len(table) : new[j] = IF j = i THEN row ELSE table[j]
    BY <2>4, LenProperties
  <2>7. RowsFrom(new, table, to, path)
    BY <2>3, <2>5, <2>6 DEF RowsFrom
  <2> QED BY <2>5, <2>7 DEF new
<1>2. CASE RoutesTo(table, to) = {}
  <2> DEFINE kept == IF Len(table) >= MaxRoutes THEN Tail(table) ELSE table
             row == [to |-> to, path |-> path]
  <2>1. /\ kept \in Seq(RouteRow) /\ Len(kept) \in Nat
        /\ \A i \in 1..Len(kept) : \E j \in 1..Len(table) : kept[i] = table[j]
    <3>1. CASE Len(table) >= MaxRoutes
      <4>1. Len(table) \in Nat /\ table # <<>>
        BY <3>1, RouteRows, RouterAssumption, LenProperties
      <4>2. /\ Tail(table) \in Seq(RouteRow) /\ Len(Tail(table)) = Len(table) - 1
            /\ \A i \in 1..Len(Tail(table)) : Tail(table)[i] = table[i + 1]
        BY <4>1, HeadTailProperties
      <4>3. \A i \in 1..Len(Tail(table)) : i + 1 \in 1..Len(table)
        BY <4>1, <4>2
      <4>4. \A i \in 1..Len(Tail(table)) : \E j \in 1..Len(table) : Tail(table)[i] = table[j]
        BY <4>2, <4>3
      <4> QED BY <3>1, <4>2, <4>4, LenProperties
    <3>2. CASE ~(Len(table) >= MaxRoutes)
      BY <3>2, RouteRows
    <3> QED BY <3>1, <3>2
  <2>2. new = Append(kept, row)
    BY <1>2 DEF InstallRoute
  <2>3. row \in RouteRow /\ row.to = to /\ row.path = path
    BY DEF RouteRow
  <2> HIDE DEF new, kept, row
  <2>4. /\ new \in Seq(RouteRow) /\ Len(new) = Len(kept) + 1
        /\ \A i \in 1..Len(kept) : new[i] = kept[i]
        /\ new[Len(kept) + 1] = row
    BY <2>1, <2>2, <2>3, AppendProperties
  <2>5. RowsFrom(new, table, to, path)
    <3>1. ASSUME NEW i \in 1..Len(new)
          PROVE  \/ \E j \in 1..Len(table) : new[i] = table[j]
                 \/ new[i].to = to /\ new[i].path = path
      <4>1. CASE i = Len(kept) + 1
        BY <2>3, <2>4, <4>1
      <4>2. CASE i # Len(kept) + 1
        <5>1. i \in 1..Len(kept)
          BY <2>1, <2>4, <4>2
        <5> QED BY <2>1, <2>4, <5>1
      <4> QED BY <4>1, <4>2
    <3> QED BY <3>1 DEF RowsFrom
  <2> QED BY <2>4, <2>5 DEF new
<1> QED
  BY <1>1, <1>2

LEMMA ForgetRoutesFacts ==
    ASSUME NEW table \in Seq(RouteRow), NEW gone
    PROVE  /\ ForgetRoutes(table, gone) \in Seq(RouteRow)
           /\ \A i \in 1..Len(ForgetRoutes(table, gone)) :
                  \E j \in 1..Len(table) : ForgetRoutes(table, gone)[i] = table[j]
<1> DEFINE places == {i \in 1..Len(table) : table[i].to \notin gone}
<1>1. ForgetRoutes(table, gone) = Keep(table, places)
  BY DEF ForgetRoutes
<1> HIDE DEF places
<1>2. Keep(table, places) \in Seq(RouteRow)
  BY KeepPicks
<1>3. IsList(table)
  BY DEF IsList
<1>4. \A i \in 1..Len(Keep(table, places)) :
          \E j \in 1..Len(table) : j \in places /\ Keep(table, places)[i] = table[j]
  BY <1>3, ListKeep
<1> QED
  BY <1>1, <1>2, <1>4

-----------------------------------------------------------------------------
(* Frames.                                                                 *)

\* A flood of n's own.
LEMMA NewFlood ==
    ASSUME NEW n \in Nodes, NEW type, NEW payload, IsFrame(Frame(type, "FLOOD", <<>>, payload)),
           type \in {"TXT_MSG", "PATH", "ANON_REQ"} => payload.from = n,
           type = "TRACE" => payload = <<>>,
           type = "PATH" => Leads(payload.to, payload.plain, payload.from)
    PROVE  LeavesFrom(n, Frame(type, "FLOOD", <<>>, payload))
<1> DEFINE f == Frame(type, "FLOOD", <<>>, payload)
<1>1. f.type = type /\ f.route = "FLOOD" /\ f.path = <<>> /\ f.payload = payload
  BY DEF Frame
<1>2. IsFrame(f)
  OBVIOUS
<1>3. Len(<<>>) = 0
  OBVIOUS
<1> HIDE DEF f
<1>4. FloodOK(f)
  BY <1>1, <1>3 DEF FloodOK, Connected, Begins
<1>5. FrameOK(f)
  BY <1>1, <1>2, <1>4 DEF FrameOK
<1>6. LeavesFrom(n, f)
  BY <1>1, <1>5 DEF LeavesFrom, Sealed
<1> QED
  BY <1>6 DEF f

\* A frame along a route.
LEMMA NewDirect ==
    ASSUME NEW n \in Nodes, NEW type, NEW path, NEW payload,
           IsFrame(Frame(type, "DIRECT", path, payload)),
           type = "PATH" => Leads(payload.to, payload.plain, payload.from)
    PROVE  LeavesFrom(n, Frame(type, "DIRECT", path, payload))
<1> DEFINE f == Frame(type, "DIRECT", path, payload)
<1>1. f.type = type /\ f.route = "DIRECT" /\ f.payload = payload
  BY DEF Frame
<1>2. IsFrame(f)
  OBVIOUS
<1> HIDE DEF f
<1>3. LeavesFrom(n, f)
  BY <1>1, <1>2 DEF LeavesFrom, FrameOK
<1> QED
  BY <1>3 DEF f

\* Whatever n builds, n may send.
LEMMA BuildFrameOK ==
    ASSUME NEW n \in Nodes, NEW table \in Seq(RouteRow), NEW to \in Nodes, NEW payload,
           NEW type \in {"TXT_MSG", "PATH", "ACK"},
           type \in {"TXT_MSG", "PATH"} => payload.from = n /\ payload.to \in Nodes,
           type = "PATH" => /\ payload.plain \in Seq(Nodes)
                            /\ Leads(payload.to, payload.plain, payload.from)
    PROVE  LeavesFrom(n, BuildFrame(table, type, to, payload))
<1>1. ASSUME NEW route \in {"FLOOD", "DIRECT"}, NEW path \in Seq(Nodes)
      PROVE  IsFrame(Frame(type, route, path, payload))
  <2> DEFINE f == Frame(type, route, path, payload)
  <2>1. /\ DOMAIN f = {"type", "route", "path", "payload"}
        /\ f.type = type /\ f.route = route /\ f.path = path /\ f.payload = payload
    BY DEF Frame
  <2> HIDE DEF f
  <2>2. IsFrame(f)
    BY <2>1 DEF IsFrame
  <2> QED BY <2>2 DEF f
<1>2. CASE RoutesTo(table, to) = {}
  <2>1. BuildFrame(table, type, to, payload) = Frame(type, "FLOOD", <<>>, payload)
    BY <1>2 DEF BuildFrame
  <2>2. <<>> \in Seq(Nodes)
    OBVIOUS
  <2>3. IsFrame(Frame(type, "FLOOD", <<>>, payload))
    BY <1>1, <2>2
  <2> QED BY <2>1, <2>3, NewFlood
<1>3. CASE RoutesTo(table, to) # {}
  <2> DEFINE path == table[Min(RoutesTo(table, to))].path
  <2>1. BuildFrame(table, type, to, payload) = Frame(type, "DIRECT", path, payload)
    BY <1>3 DEF BuildFrame
  <2>2. path \in Seq(Nodes)
    BY <1>3, RoutesToFacts, RouteRows
  <2> HIDE DEF path
  <2>3. IsFrame(Frame(type, "DIRECT", path, payload))
    BY <1>1, <2>2
  <2> QED BY <2>1, <2>3, NewDirect
<1> QED
  BY <1>2, <1>3

\* What n sends comes to those in range as it should.
LEMMA OnAirOK ==
    ASSUME NEW n \in Nodes, NEW frames, \A f \in frames : LeavesFrom(n, f)
    PROVE  \A m \in OnAir(n, frames) : m.to \in Nodes /\ ComesTo(m.to, m.frame)
<1> SUFFICES ASSUME NEW m \in OnAir(n, frames) PROVE m.to \in Nodes /\ ComesTo(m.to, m.frame)
  OBVIOUS
<1>1. PICK link \in Links, f \in frames : link[1] = n /\ m = [to |-> link[2], frame |-> f]
  BY DEF OnAir
<1>2. m.to = link[2] /\ m.frame = f /\ link[2] \in Nodes /\ <<n, link[2]>> \in Links
  BY <1>1, RouterAssumption
<1>3. LeavesFrom(n, f)
  OBVIOUS
<1>4. ComesTo(link[2], f)
  BY <1>2, <1>3 DEF LeavesFrom, ComesTo, Reaches
<1> QED
  BY <1>2, <1>4

\* A frame but for its path, which is q.
SameBut(g, f, q) ==
    /\ DOMAIN g = {"type", "route", "path", "payload"}
    /\ g.type = f.type /\ g.route = f.route /\ g.path = q
    /\ f.type # "TRACE" => g.payload = f.payload

\* What considerForwarding makes of a frame.
LEMMA ForwardedIs ==
    ASSUME NEW n, NEW f, IsFrame(f), NEW g \in Forwarded(n, f)
    PROVE  \/ /\ f.route = "FLOOD" /\ SameBut(g, f, Append(f.path, n))
              /\ f.type = "TRACE" => g.payload = Append(f.payload, n)
           \/ /\ f.route # "FLOOD" /\ f.path # <<>> /\ SameBut(g, f, Tail(f.path))
              /\ f.type = "TRACE" => g.payload = Append(f.payload, n)
<1> DEFINE moved == IF f.route = "FLOOD" THEN AppendSelf(n, f) ELSE StripSelf(n, f)
<1>1. PICK h \in moved : g \in WithReading(n, h)
  BY DEF Forwarded
<1>2. /\ DOMAIN f = {"type", "route", "path", "payload"}
  BY DEF IsFrame
<1>3. ASSUME NEW q, h = [f EXCEPT !.path = q]
      PROVE  SameBut(g, f, q) /\ (f.type = "TRACE" => g.payload = Append(f.payload, n))
  <2>1. /\ DOMAIN h = {"type", "route", "path", "payload"}
        /\ h.type = f.type /\ h.route = f.route /\ h.path = q /\ h.payload = f.payload
    BY <1>2, <1>3
  <2>2. CASE h.type # "TRACE"
    BY <1>1, <2>1, <2>2 DEF WithReading, SameBut
  <2>3. CASE h.type = "TRACE"
    <3>1. g = [h EXCEPT !.payload = Append(h.payload, n)]
      BY <1>1, <2>3 DEF WithReading
    <3>2. /\ DOMAIN g = {"type", "route", "path", "payload"}
          /\ g.type = h.type /\ g.route = h.route /\ g.path = h.path /\ g.payload = Append(h.payload, n)
      BY <2>1, <3>1
    <3> QED BY <2>1, <2>3, <3>2 DEF SameBut
  <2> QED BY <2>2, <2>3
<1>4. CASE f.route = "FLOOD"
  <2>1. h = [f EXCEPT !.path = Append(f.path, n)]
    BY <1>1, <1>4 DEF AppendSelf
  <2> QED BY <1>3, <1>4, <2>1
<1>5. CASE f.route # "FLOOD"
  <2>1. f.path # <<>> /\ h = [f EXCEPT !.path = Tail(f.path)]
    BY <1>1, <1>5 DEF StripSelf
  <2> QED BY <1>3, <1>5, <2>1
<1> QED
  BY <1>4, <1>5

\* A path that is passed on is a frame again.
LEMMA SameButIsFrame ==
    ASSUME NEW n \in Nodes, NEW f, IsFrame(f), NEW g, NEW q \in Seq(Nodes), SameBut(g, f, q),
           f.type = "TRACE" => g.payload = Append(f.payload, n)
    PROVE  IsFrame(g)
<1>1. ASSUME f.type = "TRACE" PROVE g.payload \in Seq(Nodes)
  <2>1. f.payload \in Seq(Nodes) /\ g.payload = Append(f.payload, n)
    BY <1>1 DEF IsFrame
  <2> QED BY <2>1, AppendProperties
<1>2. CASE f.type = "TRACE"
  BY <1>1, <1>2 DEF IsFrame, SameBut
<1>3. CASE f.type # "TRACE"
  BY <1>3 DEF IsFrame, SameBut
<1> QED
  BY <1>2, <1>3

\* Whatever n passes on, n may send.
LEMMA ForwardedOK ==
    ASSUME NEW n \in Nodes, NEW f, ComesTo(n, f), ~Echo(n, f), NEW g \in Forwarded(n, f)
    PROVE  LeavesFrom(n, g)
<1> DEFINE p == f.path
<1>1. IsFrame(f) /\ FrameOK(f) /\ p \in Seq(Nodes)
  BY DEF ComesTo, FrameOK, IsFrame
<1>2. CASE f.route # "FLOOD"
  <2>1. /\ p # <<>> /\ SameBut(g, f, Tail(p))
        /\ f.type = "TRACE" => g.payload = Append(f.payload, n)
    BY <1>1, <1>2, ForwardedIs
  <2>2. Tail(p) \in Seq(Nodes)
    BY <1>1, <2>1, HeadTailProperties
  <2>3. IsFrame(g)
    BY <1>1, <2>1, <2>2, SameButIsFrame
  <2>4. g.route # "FLOOD" /\ g.type = f.type /\ (f.type = "PATH" => g.payload = f.payload)
    BY <1>2, <2>1 DEF SameBut
  <2> QED BY <1>1, <2>3, <2>4 DEF LeavesFrom, FrameOK
<1>3. CASE f.route = "FLOOD"
  <2> DEFINE q == Append(p, n)
  <2>1. SameBut(g, f, q) /\ (f.type = "TRACE" => g.payload = Append(f.payload, n))
    BY <1>1, <1>3, ForwardedIs
  <2>2. /\ q \in Seq(Nodes) /\ Len(q) = Len(p) + 1 /\ Len(p) \in Nat
        /\ \A i \in 1..Len(p) : q[i] = p[i]
        /\ q[Len(p) + 1] = n
    BY <1>1, PathFacts, AppendProperties
  <2>3. IsFrame(g)
    BY <1>1, <2>1, <2>2, SameButIsFrame
  <2>4. /\ FloodOK(f) /\ Reaches(p, n)
        /\ p = <<>> /\ Sealed(f) => <<f.payload.from, n>> \in Links
    BY <1>1, <1>3 DEF FrameOK, ComesTo
  <2>5. \A i \in 1..Len(p) : p[i] # n
    BY <1>3 DEF Echo
  <2>6. Connected(q)
    BY <1>1, <2>4, ConnectedAppend DEF FloodOK
  <2>7. p = <<>> <=> Len(p) = 0
    BY <1>1, PathFacts
  <2>8. /\ g.type = f.type /\ g.route = "FLOOD" /\ g.path = q
        /\ f.type # "TRACE" => g.payload = f.payload
    BY <1>3, <2>1 DEF SameBut
  <2>9. \A i, j \in 1..Len(p) : p[i] = p[j] => i = j
    BY <2>4 DEF FloodOK
  <2>10. Sealed(f) => Begins(f.payload.from, p)
    BY <2>4 DEF FloodOK
  <2>11. f.type = "TRACE" => g.payload = q
    BY <2>1, <2>4 DEF FloodOK
  <2> HIDE DEF p, q
  <2>12. \A i, j \in 1..Len(q) : q[i] = q[j] => i = j
    <3>1. \A i \in 1..Len(p) : q[i] # n
      BY <2>2, <2>5
    <3>2. \A i \in 1..Len(q) : i \in 1..Len(p) \/ i = Len(p) + 1
      BY <2>2
    <3> QED BY <2>2, <2>9, <3>1, <3>2
  <2>13. ASSUME Sealed(f) PROVE <<f.payload.from, q[1]>> \in Links
    <3>1. CASE Len(p) = 0
      BY <2>2, <2>4, <2>7, <2>13, <3>1
    <3>2. CASE Len(p) # 0
      <4>1. 1 \in 1..Len(p)
        BY <2>2, <3>2
      <4> QED BY <2>2, <2>7, <2>10, <2>13, <3>2, <4>1 DEF Begins
    <3> QED BY <3>1, <3>2
  <2>14. Sealed(g) <=> Sealed(f)
    BY <2>8 DEF Sealed
  <2>15. Sealed(f) => g.payload = f.payload
    BY <2>8 DEF Sealed
  <2>16. FloodOK(g)
    BY <2>6, <2>8, <2>11, <2>12, <2>13, <2>14, <2>15 DEF FloodOK, Begins
  <2>17. FrameOK(g)
    BY <1>1, <2>3, <2>8, <2>16 DEF FrameOK
  <2>18. q # <<>> /\ q[Len(q)] = n
    <3>1. Len(q) # 0
      BY <2>2
    <3> QED BY <2>2, <3>1
  <2> QED BY <2>8, <2>17, <2>18 DEF LeavesFrom
<1> QED
  BY <1>2, <1>3

-----------------------------------------------------------------------------
(* What deliverToSelf learns and sends.                                    *)

\* A sealed flood has come all the way from its sender.
LEMMA SealedLeads ==
    ASSUME NEW n \in Nodes, NEW f, ComesTo(n, f), Sealed(f), f.route = "FLOOD"
    PROVE  /\ Leads(f.payload.from, f.path, n)
           /\ f.path \in Seq(Nodes) /\ f.payload.from \in Nodes
<1>1. f.path \in Seq(Nodes) /\ f.payload.from \in Nodes
  BY DEF ComesTo, FrameOK, IsFrame, Sealed
<1> QED
  BY <1>1 DEF ComesTo, FrameOK, FloodOK, Leads

\* The way back from a flood, as a table with it.
Back(n, f) == InstallRoute(routes[n], f.payload.from, ReversePath(f.path))

LEMMA BackFacts ==
    ASSUME NEW n \in Nodes, NEW f, ComesTo(n, f), Sealed(f), f.route = "FLOOD",
           routes[n] \in Seq(RouteRow)
    PROVE  /\ Back(n, f) \in Seq(RouteRow)
           /\ RowsFrom(Back(n, f), routes[n], f.payload.from, ReversePath(f.path))
BY SealedLeads, ReverseIsPath, InstallRouteFacts DEF Back

\* A table of ways of n is one with a way more.
LEMMA RowsLead ==
    ASSUME NEW n, NEW new, NEW old, NEW to, NEW path, RowsFrom(new, old, to, path),
           LeadFrom(n, old), Leads(n, path, to)
    PROVE  LeadFrom(n, new)
BY DEF RowsFrom, LeadFrom

Symmetric == \A l \in Links : <<l[2], l[1]>> \in Links

LEMMA BackLeads ==
    ASSUME NEW n \in Nodes, NEW f, ComesTo(n, f), Sealed(f), f.route = "FLOOD",
           routes[n] \in Seq(RouteRow), Symmetric, LeadFrom(n, routes[n])
    PROVE  LeadFrom(n, Back(n, f))
<1>1. Leads(n, ReversePath(f.path), f.payload.from)
  BY SealedLeads, ReverseLeads DEF Symmetric
<1> QED
  BY <1>1, BackFacts, RowsLead

LEMMA LearnedFacts ==
    ASSUME NEW n \in Nodes, NEW f, ComesTo(n, f), f.type \in {"TXT_MSG", "PATH"},
           f.payload.to = n, routes[n] \in Seq(RouteRow)
    PROVE  /\ Learned(n, f) \in Seq(RouteRow)
           /\ Symmetric /\ LeadFrom(n, routes[n]) => LeadFrom(n, Learned(n, f))
<1> DEFINE back == IF f.route = "FLOOD" THEN Back(n, f) ELSE routes[n]
<1>1. Sealed(f) /\ f.payload.from \in Nodes /\ (f.type = "PATH" => f.payload.plain \in Seq(Nodes))
  BY DEF Sealed, ComesTo, FrameOK, IsFrame
<1>2. /\ back \in Seq(RouteRow)
      /\ Symmetric /\ LeadFrom(n, routes[n]) => LeadFrom(n, back)
  BY <1>1, BackFacts, BackLeads
<1>3. Learned(n, f) = IF f.type = "PATH" THEN InstallRoute(back, f.payload.from, f.payload.plain) ELSE back
  BY DEF Learned, Back
<1> HIDE DEF back
<1>4. CASE f.type = "PATH"
  <2>1. Leads(n, f.payload.plain, f.payload.from)
    BY <1>4 DEF ComesTo, FrameOK
  <2>2. /\ InstallRoute(back, f.payload.from, f.payload.plain) \in Seq(RouteRow)
        /\ RowsFrom(InstallRoute(back, f.payload.from, f.payload.plain), back,
                    f.payload.from, f.payload.plain)
    BY <1>1, <1>2, <1>4, InstallRouteFacts
  <2> QED BY <1>2, <1>3, <1>4, <2>1, <2>2, RowsLead
<1>5. CASE f.type # "PATH"
  BY <1>2, <1>3, <1>5
<1> QED
  BY <1>4, <1>5

\* Whatever deliverToSelf answers, n may send.
LEMMA AnswersOK ==
    ASSUME NEW n \in Nodes, NEW f, ComesTo(n, f), f.type \in {"TXT_MSG", "PATH"},
           f.payload.to = n, routes[n] \in Seq(RouteRow)
    PROVE  /\ IsList(Answers(n, f))
           /\ \A i \in 1..Len(Answers(n, f)) : LeavesFrom(n, Answers(n, f)[i])
<1>1. Sealed(f) /\ f.payload.from \in Nodes
  BY DEF Sealed, ComesTo, FrameOK, IsFrame
<1>2. ASSUME f.route = "FLOOD" PROVE LeavesFrom(n, PathReturn(n, f))
  <2> DEFINE payload == Envelope(n, f.payload.from, f.path)
  <2>1. /\ payload.from = n /\ payload.to = f.payload.from /\ payload.plain = f.path
    BY DEF Envelope
  <2>2. PathReturn(n, f) = BuildFrame(Back(n, f), "PATH", f.payload.from, payload)
    BY DEF PathReturn, Back
  <2> HIDE DEF payload
  <2>3. Leads(payload.to, payload.plain, payload.from) /\ payload.plain \in Seq(Nodes)
    BY <1>1, <1>2, <2>1, SealedLeads
  <2>4. Back(n, f) \in Seq(RouteRow)
    BY <1>1, <1>2, BackFacts
  <2> QED BY <1>1, <2>1, <2>2, <2>3, <2>4, BuildFrameOK
<1>3. LeavesFrom(n, Ack(n, f))
  <2>1. Learned(n, f) \in Seq(RouteRow)
    BY LearnedFacts
  <2> QED BY <1>1, <2>1, BuildFrameOK DEF Ack
<1> DEFINE a == PathReturn(n, f)
           b == Ack(n, f)
<1>4. LeavesFrom(n, b) /\ (f.route = "FLOOD" => LeavesFrom(n, a))
  BY <1>2, <1>3
<1> DEFINE x == IF f.route = "FLOOD" THEN <<a>> ELSE <<>>
           y == IF f.type = "TXT_MSG" THEN <<b>> ELSE <<>>
<1>5. Answers(n, f) = x \o y
  BY DEF Answers
<1> HIDE DEF a, b
<1>6. x \in Seq({a, b}) /\ Len(x) \in Nat /\ \A i \in 1..Len(x) : x[i] = a /\ f.route = "FLOOD"
  <2>1. CASE f.route = "FLOOD"
    BY <2>1
  <2>2. CASE f.route # "FLOOD"
    BY <2>2
  <2> QED BY <2>1, <2>2
<1>7. y \in Seq({a, b}) /\ Len(y) \in Nat /\ \A i \in 1..Len(y) : y[i] = b
  <2>1. CASE f.type = "TXT_MSG"
    BY <2>1
  <2>2. CASE f.type # "TXT_MSG"
    BY <2>2
  <2> QED BY <2>1, <2>2
<1> HIDE DEF x, y
<1>8. /\ Len(x \o y) = Len(x) + Len(y) /\ IsList(x \o y)
      /\ \A i \in 1..Len(x) + Len(y) : (x \o y)[i] = IF i <= Len(x) THEN x[i] ELSE y[i - Len(x)]
  BY <1>6, <1>7, ConcatProperties DEF IsList
<1>9. ASSUME NEW i \in 1..Len(x \o y) PROVE LeavesFrom(n, (x \o y)[i])
  <2>1. CASE i <= Len(x)
    <3>1. i \in 1..Len(x) /\ (x \o y)[i] = x[i]
      BY <1>6, <1>7, <1>8, <2>1
    <3> QED BY <1>4, <1>6, <3>1
  <2>2. CASE ~(i <= Len(x))
    <3>1. i - Len(x) \in 1..Len(y) /\ (x \o y)[i] = y[i - Len(x)]
      BY <1>6, <1>7, <1>8, <2>2
    <3> QED BY <1>4, <1>7, <3>1
  <2> QED BY <2>1, <2>2
<1> QED
  BY <1>5, <1>8, <1>9

-----------------------------------------------------------------------------
(* The duplicate cache.                                                    *)

LEMMA RememberSeenKeeps ==
    ASSUME SeenOK, NEW n \in Nodes, NEW frames, IsList(frames), RememberSeen(n, frames)
    PROVE  SeenOK'
<1>1. Len(frames) \in Nat /\ seenNext[n] \in Nat /\ SeenSlots \in Nat \ {0}
  BY ListFacts, RouterAssumption DEF SeenOK
<1>2. \A a, b, c \in Nat : c # 0 => (a + b) % c \in 0..c - 1
  OBVIOUS
<1>3. NextSlot(seenNext[n], Len(frames)) \in 0..SeenSlots - 1
  BY <1>1, <1>2 DEF NextSlot
<1>4. seenNext' = [seenNext EXCEPT ![n] = NextSlot(seenNext[n], Len(frames))]
  BY DEF RememberSeen
<1>5. seenNext' \in [Nodes -> 0..SeenSlots - 1]
  BY <1>3, <1>4 DEF SeenOK
<1> DEFINE latest(s) == {i \in 1..Len(frames) : NextSlot(seenNext[n], i - 1) = s}
           slots == [s \in 0..SeenSlots - 1 |->
                        IF latest(s) = {} THEN seen[n][s]
                        ELSE [hash |-> HashOf(frames[Max(latest(s))]), at |-> now[n] + 1]]
<1>6. seen' = [seen EXCEPT ![n] = slots] /\ DOMAIN slots = 0..SeenSlots - 1
  BY DEF RememberSeen
<1> HIDE DEF slots
<1>7. DOMAIN seen' = Nodes /\ \A m \in Nodes : DOMAIN seen'[m] = 0..SeenSlots - 1
  BY <1>6 DEF SeenOK
<1> QED
  BY <1>5, <1>7 DEF SeenOK

-----------------------------------------------------------------------------
(* The steps.                                                              *)

QueuesOK == \A n \in Nodes : \A d \in queue[n] : d.notBefore \in Nat /\ LeavesFrom(n, d.frame)
AirOK == \A m \in air : m.to \in Nodes /\ ComesTo(m.to, m.frame)

LEMMA SendDirectKeeps ==
    ASSUME Inv, NEW n \in Nodes, NEW to \in Nodes, NEW text, SendDirect(n, to, text)
    PROVE  Inv' /\ routes' = routes
<1> DEFINE payload == Envelope(n, to, text)
           frame == BuildFrame(routes[n], "TXT_MSG", to, payload)
           entry == [id |-> nextId[n], expectedAck |-> ExpectedAck(text, n),
                     deadline |-> now[n] + Timeout(frame), attempts |-> 1,
                     to |-> to, frame |-> frame]
<1>1. nextId \in [Nodes -> Nat \ {0}] /\ routes \in [Nodes -> Seq(RouteRow)] /\ DOMAIN pending = Nodes
  BY DEF Inv, IndexedOK
<1>2. LeavesFrom(n, frame)
  <2>1. payload.from = n /\ payload.to = to
    BY DEF Envelope
  <2> HIDE DEF payload
  <2> QED BY <1>1, <2>1, BuildFrameOK
<1>3. /\ entry.id = nextId[n] /\ entry.to = to /\ entry.frame = frame /\ IsEntry(entry)
  BY DEF IsEntry
<1>4. /\ nextId' = [nextId EXCEPT ![n] = nextId[n] + 1]
      /\ pending' = [pending EXCEPT ![n] = IF HasRoom(n) THEN Append(pending[n], entry) ELSE pending[n]]
      /\ RememberSeen(n, <<frame>>)
      /\ air' = air \cup OnAir(n, {frame})
      /\ sends' = sends \cup {[from |-> n, id |-> nextId[n], to |-> to, text |-> text,
                               fate |-> "waiting"]}
      /\ UNCHANGED <<now, queue, routes, heard>>
  BY DEF SendDirect
<1> HIDE DEF frame, entry
<1>5. IndexedOK'
  BY <1>1, <1>4 DEF Inv, IndexedOK
<1>6. SeenOK'
  <2>1. IsList(<<frame>>)
    <3>1. <<frame>> \in Seq({frame})
      OBVIOUS
    <3> QED BY <3>1 DEF IsList
  <2> QED BY <1>4, <2>1, RememberSeenKeeps DEF Inv
<1>7. SendsOK'
  BY <1>4 DEF Inv, SendsOK
<1>8. QueuesOK'
  BY <1>4 DEF Inv, QueuesOK
<1>9. AirOK'
  BY <1>2, <1>4, OnAirOK DEF Inv, AirOK
<1>10. ASSUME NEW k \in Nodes PROVE EntriesOK(k, pending'[k], nextId'[k])
  <2>1. EntriesOK(k, pending[k], nextId[k])
    BY DEF Inv
  <2>2. nextId'[k] \in Nat /\ nextId[k] \in Nat /\ nextId[k] <= nextId'[k]
    BY <1>1, <1>4
  <2>3. EntriesOK(k, pending[k], nextId'[k])
    BY <2>1, <2>2 DEF EntriesOK
  <2>4. CASE k # n \/ ~HasRoom(n)
    <3>1. pending'[k] = pending[k]
      BY <1>1, <1>4, <2>4
    <3> QED BY <2>3, <3>1
  <2>5. CASE k = n /\ HasRoom(n)
    <3> DEFINE old == pending[n]
               next == nextId'[n]
               new == Append(old, entry)
    <3>1. pending'[k] = new
      BY <1>1, <1>4, <2>5
    <3>2. EntriesOK(n, old, next) /\ next = nextId[n] + 1 /\ nextId[n] \in Nat \ {0}
      BY <1>1, <1>4, <2>3, <2>5
    <3> HIDE DEF old, next
    <3>3. /\ IsList(new) /\ Len(new) = Len(old) + 1 /\ Len(old) \in Nat
          /\ \A i \in 1..Len(old) : new[i] = old[i]
          /\ new[Len(old) + 1] = entry
      BY <3>2, ListAppend, ListFacts DEF EntriesOK
    <3> HIDE DEF new
    <3>4. ASSUME NEW i \in 1..Len(new)
          PROVE  /\ IsEntry(new[i]) /\ new[i].id \in 1..next - 1 /\ new[i].to \in Nodes
                 /\ LeavesFrom(n, new[i].frame)
      <4>1. CASE i = Len(old) + 1
        BY <1>2, <1>3, <3>2, <3>3, <4>1
      <4>2. CASE i # Len(old) + 1
        <5>1. i \in 1..Len(old)
          BY <3>3, <4>2
        <5> QED BY <3>2, <3>3, <5>1 DEF EntriesOK
      <4> QED BY <4>1, <4>2
    <3>5. EntriesOK(n, new, next)
      BY <3>3, <3>4 DEF EntriesOK
    <3> QED BY <2>5, <3>1, <3>5 DEF next
  <2> QED BY <2>4, <2>5
<1> QED
  BY <1>4, <1>5, <1>6, <1>7, <1>8, <1>9, <1>10 DEF Inv, QueuesOK, AirOK

LEMMA SendFloodKeeps ==
    ASSUME Inv, NEW n \in Nodes, NEW type, NEW payload,
           LeavesFrom(n, Frame(type, "FLOOD", <<>>, payload)), SendFlood(n, type, payload)
    PROVE  Inv' /\ routes' = routes
<1> DEFINE frame == Frame(type, "FLOOD", <<>>, payload)
<1>1. /\ RememberSeen(n, <<frame>>)
      /\ air' = air \cup OnAir(n, {frame})
      /\ UNCHANGED <<now, nextId, queue, pending, routes, sends, heard>>
  BY DEF SendFlood
<1>2. LeavesFrom(n, frame)
  OBVIOUS
<1> HIDE DEF frame
<1>3. SeenOK'
  <2>1. IsList(<<frame>>)
    <3>1. <<frame>> \in Seq({frame})
      OBVIOUS
    <3> QED BY <3>1 DEF IsList
  <2> QED BY <1>1, <2>1, RememberSeenKeeps DEF Inv
<1>4. IndexedOK' /\ SendsOK'
  BY <1>1 DEF Inv, IndexedOK, SendsOK
<1>5. AirOK'
  BY <1>1, <1>2, OnAirOK DEF Inv, AirOK
<1>6. QueuesOK' /\ \A k \in Nodes : EntriesOK(k, pending'[k], nextId'[k])
  BY <1>1 DEF Inv, QueuesOK
<1> QED
  BY <1>1, <1>3, <1>4, <1>5, <1>6 DEF Inv, QueuesOK, AirOK

\* One entry less.
LEMMA EntriesWithout ==
    ASSUME NEW n, NEW next, NEW old, EntriesOK(n, old, next), NEW i \in 1..Len(old)
    PROVE  EntriesOK(n, [j \in 1..Len(old) - 1 |-> IF j < i THEN old[j] ELSE old[j + 1]], next)
<1> DEFINE L == Len(old)
           new == [j \in 1..L - 1 |-> IF j < i THEN old[j] ELSE old[j + 1]]
<1>1. L \in Nat /\ L - 1 \in Nat
  BY ListFacts DEF EntriesOK
<1>2. \A j \in 1..L - 1 : new[j] = IF j < i THEN old[j] ELSE old[j + 1]
  OBVIOUS
<1>3. new = [j \in 1..L - 1 |-> new[j]]
  OBVIOUS
<1> HIDE DEF new
<1>4. IsList(new) /\ Len(new) = L - 1
  <2> HIDE DEF L
  <2> QED BY <1>1, <1>3, ListOf
<1>5. \A j \in 1..L - 1 : j \in 1..L /\ j + 1 \in 1..L
  BY <1>1
<1>6. \A j \in 1..L - 1 : \E k \in 1..L : new[j] = old[k]
  BY <1>2, <1>5
<1>7. EntriesOK(n, new, next)
  BY <1>4, <1>6 DEF EntriesOK
<1> QED
  BY <1>7 DEF new

LEMMA ReportedOK ==
    ASSUME SendsOK, NEW n, NEW id, NEW fate \in {"waiting", "acked", "failed"},
           sends' = Reported(n, id, fate)
    PROVE  SendsOK'
<1>1. ASSUME NEW s \in sends'
      PROVE  /\ DOMAIN s = {"from", "id", "to", "text", "fate"}
             /\ s.fate \in {"waiting", "acked", "failed"}
  <2>1. PICK x \in sends : s = IF x.from = n /\ x.id = id THEN [x EXCEPT !.fate = fate] ELSE x
    BY DEF Reported
  <2>2. DOMAIN x = {"from", "id", "to", "text", "fate"} /\ x.fate \in {"waiting", "acked", "failed"}
    BY DEF SendsOK
  <2>3. CASE s = x
    BY <2>2, <2>3
  <2>4. CASE s = [x EXCEPT !.fate = fate]
    BY <2>2, <2>4
  <2> QED BY <2>1, <2>3, <2>4
<1> QED
  BY <1>1 DEF SendsOK

LEMMA HandleAckKeeps ==
    ASSUME Inv, NEW n \in Nodes, NEW f, HandleAck(n, f), nextId' = nextId
    PROVE  /\ SendsOK' /\ \A k \in Nodes : EntriesOK(k, pending'[k], nextId'[k])
           /\ DOMAIN pending' = Nodes /\ routes' = routes
<1> DEFINE waiting == Awaiting(n, f.payload)
           i == Min(waiting)
           old == pending[n]
           new == [j \in 1..Len(old) - 1 |-> IF j < i THEN old[j] ELSE old[j + 1]]
<1>1. DOMAIN pending = Nodes /\ SendsOK /\ \A k \in Nodes : EntriesOK(k, pending[k], nextId[k])
  BY DEF Inv, IndexedOK
<1>2. routes' = routes
  BY DEF HandleAck
<1>3. CASE waiting = {}
  <2>1. UNCHANGED <<pending, sends>>
    BY <1>3 DEF HandleAck
  <2> QED BY <1>1, <1>2, <2>1 DEF SendsOK
<1>4. CASE waiting # {}
  <2>1. pending' = [pending EXCEPT ![n] = new] /\ sends' = Reported(n, pending[n][i].id, "acked")
    BY <1>4 DEF HandleAck
  <2>2. EntriesOK(n, old, nextId[n])
    BY <1>1
  <2>3. i \in 1..Len(old)
    <3>1. waiting \subseteq Nat /\ waiting \subseteq 1..Len(old)
      BY <2>2, ListFacts DEF Awaiting, EntriesOK
    <3> HIDE DEF waiting
    <3> QED BY <1>4, <3>1, MinFacts
  <2> HIDE DEF i
  <2>4. EntriesOK(n, new, nextId[n])
    BY <2>2, <2>3, EntriesWithout
  <2> HIDE DEF new
  <2>5. ASSUME NEW k \in Nodes PROVE EntriesOK(k, pending'[k], nextId'[k])
    <3>1. CASE k = n
      <4>1. pending'[k] = new
        BY <1>1, <2>1, <3>1
      <4> QED BY <2>4, <3>1, <4>1
    <3>2. CASE k # n
      <4>1. pending'[k] = pending[k]
        BY <1>1, <2>1, <3>2
      <4> QED BY <1>1, <4>1
    <3> QED BY <3>1, <3>2
  <2>6. SendsOK'
    BY <1>1, <2>1, ReportedOK
  <2> QED BY <1>1, <1>2, <2>1, <2>5, <2>6
<1> QED
  BY <1>3, <1>4

\* What a node does with its tables for a frame it has not seen.
Handled(n, f) ==
    CASE f.type = "ACK" -> HandleAck(n, f)
      [] f.type = "ANON_REQ" /\ ForUs(n, f) -> DeliverAnon(n, f)
      [] f.type \in {"TXT_MSG", "PATH"} /\ ForUs(n, f) -> Deliver(n, f)
      [] OTHER -> UNCHANGED <<pending, routes, sends, heard>>

LEMMA HandledKeeps ==
    ASSUME Inv, NEW n \in Nodes, NEW f, ComesTo(n, f), Handled(n, f), nextId' = nextId
    PROVE  /\ SendsOK' /\ \A k \in Nodes : EntriesOK(k, pending'[k], nextId'[k])
           /\ DOMAIN pending' = Nodes /\ routes' \in [Nodes -> Seq(RouteRow)]
           /\ Symmetric /\ RoutesLead => RoutesLead'
<1>1. /\ routes \in [Nodes -> Seq(RouteRow)] /\ DOMAIN pending = Nodes
      /\ SendsOK /\ \A k \in Nodes : EntriesOK(k, pending[k], nextId[k])
  BY DEF Inv, IndexedOK
<1>2. ASSUME UNCHANGED <<pending, sends>>
      PROVE  /\ SendsOK' /\ \A k \in Nodes : EntriesOK(k, pending'[k], nextId'[k])
             /\ DOMAIN pending' = Nodes
  BY <1>1, <1>2 DEF SendsOK
<1>3. ASSUME NEW new \in Seq(RouteRow), Symmetric /\ LeadFrom(n, routes[n]) => LeadFrom(n, new),
             routes' = [routes EXCEPT ![n] = new]
      PROVE  routes' \in [Nodes -> Seq(RouteRow)] /\ (Symmetric /\ RoutesLead => RoutesLead')
  <2>1. ASSUME NEW k \in Nodes PROVE routes'[k] = IF k = n THEN new ELSE routes[k]
    BY <1>1, <1>3
  <2>2. routes' \in [Nodes -> Seq(RouteRow)]
    BY <1>1, <1>3
  <2>3. ASSUME Symmetric, RoutesLead, NEW k \in Nodes PROVE LeadFrom(k, routes'[k])
    BY <1>3, <2>1, <2>3 DEF RoutesLead
  <2> QED BY <2>2, <2>3 DEF RoutesLead
<1>4. CASE f.type = "ACK"
  <2>1. HandleAck(n, f)
    BY <1>4 DEF Handled
  <2> QED BY <1>1, <2>1, HandleAckKeeps DEF RoutesLead
<1>5. CASE f.type = "ANON_REQ" /\ ForUs(n, f)
  <2> DEFINE new == IF f.route = "FLOOD" THEN Back(n, f) ELSE routes[n]
  <2>1. DeliverAnon(n, f) /\ Sealed(f) /\ f.type # "ACK"
    BY <1>5 DEF Handled, Sealed
  <2>2. routes' = [routes EXCEPT ![n] = new] /\ UNCHANGED <<pending, sends>>
    BY <2>1 DEF DeliverAnon, Back
  <2>3. new \in Seq(RouteRow) /\ (Symmetric /\ LeadFrom(n, routes[n]) => LeadFrom(n, new))
    BY <1>1, <2>1, BackFacts, BackLeads
  <2> HIDE DEF new
  <2> QED BY <1>2, <1>3, <2>2, <2>3
<1>6. CASE f.type \in {"TXT_MSG", "PATH"} /\ ForUs(n, f)
  <2>1. Deliver(n, f) /\ f.payload.to = n
    BY <1>6 DEF Handled, ForUs
  <2>2. routes' = [routes EXCEPT ![n] = Learned(n, f)] /\ UNCHANGED <<pending, sends>>
    BY <2>1 DEF Deliver
  <2>3. /\ Learned(n, f) \in Seq(RouteRow)
        /\ Symmetric /\ LeadFrom(n, routes[n]) => LeadFrom(n, Learned(n, f))
    BY <1>1, <1>6, <2>1, LearnedFacts
  <2> QED BY <1>2, <1>3, <2>2, <2>3
<1>7. CASE f.type # "ACK" /\ ~(f.type \in {"TXT_MSG", "PATH", "ANON_REQ"} /\ ForUs(n, f))
  <2>1. UNCHANGED <<pending, routes, sends>>
    BY <1>7 DEF Handled
  <2> QED BY <1>1, <1>2, <2>1 DEF RoutesLead
<1> QED
  BY <1>4, <1>5, <1>6, <1>7

LEMMA OnFrameKeeps ==
    ASSUME Inv, NEW m \in air, NEW delay \in ForwardDelays, OnFrame(m.to, m.frame, delay)
    PROVE  Inv' /\ (Symmetric /\ RoutesLead => RoutesLead')
<1> DEFINE n == m.to
           f == m.frame
           out == IF ForUs(n, f) /\ f.type # "ANON_REQ" THEN Answers(n, f) ELSE <<>>
           here == [to |-> n, frame |-> f]
           more == {[notBefore |-> now[n] + delay, frame |-> g] : g \in Forwarded(n, f)}
<1>1. n \in Nodes /\ ComesTo(n, f)
  BY DEF Inv
<1>2. /\ now \in [Nodes -> Nat] /\ nextId \in [Nodes -> Nat \ {0}] /\ DOMAIN queue = Nodes
      /\ routes \in [Nodes -> Seq(RouteRow)] /\ delay \in Nat
  BY RouterAssumption DEF Inv, IndexedOK
<1>3. UNCHANGED <<now, nextId>>
  BY DEF OnFrame
<1>4. \A x : IsList(<<x>>)
  <2>1. \A x : <<x>> \in Seq({x})
    OBVIOUS
  <2> QED BY <2>1 DEF IsList
<1>5. CASE AlreadySeen(n, f)
  <2>1. air' = air \ {here} /\ UNCHANGED <<seen, seenNext, queue, pending, routes, sends>>
    BY <1>5 DEF OnFrame
  <2> HIDE DEF here
  <2> QED BY <1>3, <2>1 DEF Inv, IndexedOK, SeenOK, SendsOK, RoutesLead
<1>6. CASE ~AlreadySeen(n, f) /\ Echo(n, f)
  <2>1. /\ air' = air \ {here} /\ RememberSeen(n, <<f>>)
        /\ UNCHANGED <<queue, pending, routes, sends>>
    BY <1>6 DEF OnFrame
  <2>2. SeenOK'
    BY <1>1, <1>4, <2>1, RememberSeenKeeps DEF Inv
  <2> HIDE DEF here
  <2> QED BY <1>3, <2>1, <2>2 DEF Inv, IndexedOK, SendsOK, RoutesLead
<1>7. CASE ~AlreadySeen(n, f) /\ ~Echo(n, f)
  <2>1. /\ air' = (air \ {here}) \cup OnAir(n, {out[i] : i \in 1..Len(out)})
        /\ RememberSeen(n, <<f>> \o out)
        /\ Handled(n, f)
        /\ queue' = [queue EXCEPT ![n] = queue[n] \cup more]
    BY <1>7 DEF OnFrame, Handled
  <2>2. IsList(out) /\ \A i \in 1..Len(out) : LeavesFrom(n, out[i])
    <3>1. CASE ForUs(n, f) /\ f.type # "ANON_REQ"
      <4>1. f.type \in {"TXT_MSG", "PATH"} /\ f.payload.to = n
        BY <3>1 DEF ForUs, Sealed
      <4> QED BY <1>1, <1>2, <3>1, <4>1, AnswersOK
    <3>2. CASE ~(ForUs(n, f) /\ f.type # "ANON_REQ")
      <4>1. <<>> \in Seq({}) /\ Len(<<>>) = 0
        OBVIOUS
      <4> QED BY <3>2, <4>1 DEF IsList
    <3> QED BY <3>1, <3>2
  <2> HIDE DEF out
  <2>3. SeenOK'
    <3>1. IsList(<<f>> \o out)
      BY <1>4, <2>2, ListConcat
    <3> QED BY <1>1, <2>1, <3>1, RememberSeenKeeps DEF Inv
  <2>4. AirOK'
    <3> DEFINE F == {out[i] : i \in 1..Len(out)}
    <3>1. \A g \in F : LeavesFrom(n, g)
      BY <2>2
    <3> HIDE DEF F, here, n, f
    <3>2. \A x \in OnAir(n, F) : x.to \in Nodes /\ ComesTo(x.to, x.frame)
      BY <1>1, <3>1, OnAirOK
    <3>3. air' = (air \ {here}) \cup OnAir(n, F)
      BY <2>1 DEF F
    <3> QED BY <3>2, <3>3 DEF Inv, AirOK
  <2>5. /\ SendsOK' /\ \A k \in Nodes : EntriesOK(k, pending'[k], nextId'[k])
        /\ DOMAIN pending' = Nodes /\ routes' \in [Nodes -> Seq(RouteRow)]
        /\ Symmetric /\ RoutesLead => RoutesLead'
    BY <1>1, <1>3, <2>1, HandledKeeps
  <2>6. \A d \in more : d.notBefore \in Nat /\ LeavesFrom(n, d.frame)
    <3>1. \A g \in Forwarded(n, f) : LeavesFrom(n, g)
      BY <1>1, <1>7, ForwardedOK
    <3>2. now[n] + delay \in Nat
      BY <1>1, <1>2
    <3> QED BY <3>1, <3>2
  <2> HIDE DEF more, here
  <2>7. QueuesOK'
    <3>1. ASSUME NEW k \in Nodes, NEW d \in queue'[k] PROVE d.notBefore \in Nat /\ LeavesFrom(k, d.frame)
      <4>1. CASE k = n
        <5>1. d \in queue[n] \/ d \in more
          BY <1>1, <1>2, <2>1, <3>1, <4>1
        <5> QED BY <1>1, <2>6, <4>1, <5>1 DEF Inv
      <4>2. CASE k # n
        <5>1. d \in queue[k]
          BY <1>2, <2>1, <3>1, <4>2
        <5> QED BY <5>1 DEF Inv
      <4> QED BY <4>1, <4>2
    <3> QED BY <3>1 DEF QueuesOK
  <2>8. IndexedOK'
    BY <1>2, <1>3, <2>1, <2>5 DEF IndexedOK
  <2> QED BY <2>3, <2>4, <2>5, <2>7, <2>8 DEF Inv, QueuesOK, AirOK
<1> QED
  BY <1>5, <1>6, <1>7

\* The entries tick keeps, tried again or not.
LEMMA EntriesKept ==
    ASSUME NEW n, NEW next, NEW old, EntriesOK(n, old, next), NEW places, NEW new,
           new = [i \in 1..Len(Keep(old, places)) |-> new[i]],
           \A i \in 1..Len(Keep(old, places)) :
               LET e == Keep(old, places)[i] IN
               IsEntry(e) => /\ IsEntry(new[i]) /\ new[i].id = e.id /\ new[i].to = e.to
                             /\ new[i].frame = e.frame
    PROVE  /\ EntriesOK(n, new, next)
           /\ \A i \in 1..Len(Keep(old, places)) : LeavesFrom(n, Keep(old, places)[i].frame)
<1> DEFINE kept == Keep(old, places)
<1>1. /\ IsList(kept) /\ Len(kept) \in Nat
      /\ \A i \in 1..Len(kept) : \E j \in 1..Len(old) : kept[i] = old[j]
  BY ListKeep, ListFacts DEF EntriesOK
<1>2. /\ new = [i \in 1..Len(kept) |-> new[i]]
      /\ \A i \in 1..Len(kept) : IsEntry(kept[i]) =>
             /\ IsEntry(new[i]) /\ new[i].id = kept[i].id /\ new[i].to = kept[i].to
             /\ new[i].frame = kept[i].frame
  OBVIOUS
<1> HIDE DEF kept
<1>3. \A i \in 1..Len(kept) :
          /\ IsEntry(kept[i]) /\ kept[i].id \in 1..next - 1 /\ kept[i].to \in Nodes
          /\ LeavesFrom(n, kept[i].frame)
  BY <1>1 DEF EntriesOK
<1>4. IsList(new) /\ Len(new) = Len(kept)
  BY <1>1, <1>2, ListOf
<1>5. ASSUME NEW i \in 1..Len(new)
      PROVE  /\ IsEntry(new[i]) /\ new[i].id \in 1..next - 1 /\ new[i].to \in Nodes
             /\ LeavesFrom(n, new[i].frame)
  <2>1. i \in 1..Len(kept)
    BY <1>4
  <2>2. /\ IsEntry(new[i]) /\ new[i].id = kept[i].id /\ new[i].to = kept[i].to
        /\ new[i].frame = kept[i].frame
    BY <1>2, <1>3, <2>1
  <2> QED BY <1>3, <2>1, <2>2
<1>6. EntriesOK(n, new, next)
  BY <1>4, <1>5 DEF EntriesOK
<1> QED
  BY <1>3, <1>6 DEF kept

LEMMA TickKeeps ==
    ASSUME Inv, NEW n \in Nodes, NEW t \in 0..MaxTime, Tick(n, t)
    PROVE  Inv' /\ (RoutesLead => RoutesLead')
<1> DEFINE late(e) == e.deadline <= t
           lost == {pending[n][i] : i \in Failing(n, t)}
           again(e) == IF ~late(e) THEN e
                       ELSE [e EXCEPT !.attempts = @ + 1,
                                      !.deadline = t + IF e.frame.route = "FLOOD"
                                                       THEN FloodAckTimeout ELSE DirectAckBase]
           old == pending[n]
           places == (1..Len(old)) \ Failing(n, t)
           kept == Keep(old, places)
           retried == {kept[i].frame : i \in {j \in 1..Len(kept) : late(kept[j])}}
           due == {d.frame : d \in {q \in queue[n] : q.notBefore <= t}}
           new == [i \in 1..Len(kept) |-> again(kept[i])]
           gone == {e.to : e \in lost}
           ids == {e.id : e \in lost}
<1>1. /\ now' = [now EXCEPT ![n] = t]
      /\ queue' = [queue EXCEPT ![n] = {d \in queue[n] : ~(d.notBefore <= t)}]
      /\ pending' = [pending EXCEPT ![n] = new]
      /\ routes' = [routes EXCEPT ![n] = ForgetRoutes(routes[n], gone)]
      /\ sends' = {IF s.from = n /\ s.id \in ids THEN [s EXCEPT !.fate = "failed"] ELSE s : s \in sends}
      /\ air' = air \cup OnAir(n, due \cup retried)
      /\ UNCHANGED <<nextId, seen, seenNext>>
  BY DEF Tick
<1>2. /\ now \in [Nodes -> Nat] /\ nextId \in [Nodes -> Nat \ {0}] /\ DOMAIN queue = Nodes
      /\ DOMAIN pending = Nodes /\ routes \in [Nodes -> Seq(RouteRow)] /\ t \in Nat
      /\ \A k \in Nodes : EntriesOK(k, pending[k], nextId[k])
  BY RouterAssumption DEF Inv, IndexedOK
<1>3. ASSUME NEW e, IsEntry(e)
      PROVE  /\ IsEntry(again(e)) /\ again(e).id = e.id /\ again(e).to = e.to
             /\ again(e).frame = e.frame
  <2>1. CASE ~late(e)
    BY <1>3, <2>1
  <2>2. CASE late(e)
    BY <1>3, <2>2 DEF IsEntry
  <2> QED BY <2>1, <2>2
<1> HIDE DEF late, again
<1>4. EntriesOK(n, new, nextId[n]) /\ \A i \in 1..Len(kept) : LeavesFrom(n, kept[i].frame)
  <2>1. new = [i \in 1..Len(kept) |-> new[i]] /\ \A i \in 1..Len(kept) : new[i] = again(kept[i])
    OBVIOUS
  <2>2. EntriesOK(n, old, nextId[n])
    BY <1>2
  <2> HIDE DEF new, old, places
  <2>3. \A i \in 1..Len(kept) : IsEntry(kept[i]) =>
            /\ IsEntry(new[i]) /\ new[i].id = kept[i].id /\ new[i].to = kept[i].to
            /\ new[i].frame = kept[i].frame
    BY <1>3, <2>1
  <2> QED BY <2>1, <2>2, <2>3, EntriesKept
<1>5. ASSUME NEW k \in Nodes PROVE EntriesOK(k, pending'[k], nextId'[k])
  <2> HIDE DEF new
  <2>1. CASE k = n
    <3>1. pending'[k] = new /\ nextId'[k] = nextId[n]
      BY <1>1, <1>2, <2>1
    <3> QED BY <1>4, <2>1, <3>1
  <2>2. CASE k # n
    <3>1. pending'[k] = pending[k] /\ nextId'[k] = nextId[k]
      BY <1>1, <1>2, <2>2
    <3> QED BY <1>2, <3>1
  <2> QED BY <2>1, <2>2
<1>6. QueuesOK'
  <2>1. ASSUME NEW k \in Nodes PROVE queue'[k] \subseteq queue[k]
    BY <1>1, <1>2
  <2> QED BY <2>1 DEF QueuesOK, Inv
<1>7. AirOK'
  <2>1. \A g \in due \cup retried : LeavesFrom(n, g)
    <3>1. \A g \in due : LeavesFrom(n, g)
      BY DEF Inv
    <3>2. \A g \in retried : LeavesFrom(n, g)
      BY <1>4
    <3> QED BY <3>1, <3>2
  <2> HIDE DEF due, retried
  <2>2. \A x \in OnAir(n, due \cup retried) : x.to \in Nodes /\ ComesTo(x.to, x.frame)
    BY <2>1, OnAirOK
  <2> QED BY <1>1, <2>2 DEF Inv, AirOK
<1>8. SendsOK'
  <2> HIDE DEF ids
  <2>1. ASSUME NEW s \in sends'
        PROVE  /\ DOMAIN s = {"from", "id", "to", "text", "fate"}
               /\ s.fate \in {"waiting", "acked", "failed"}
    <3>1. PICK x \in sends :
              s = IF x.from = n /\ x.id \in ids THEN [x EXCEPT !.fate = "failed"] ELSE x
      BY <1>1, <2>1
    <3>2. DOMAIN x = {"from", "id", "to", "text", "fate"} /\ x.fate \in {"waiting", "acked", "failed"}
      BY DEF Inv, SendsOK
    <3>3. CASE s = x
      BY <3>2, <3>3
    <3>4. CASE s = [x EXCEPT !.fate = "failed"]
      BY <3>2, <3>4
    <3> QED BY <3>1, <3>3, <3>4
  <2> QED BY <2>1 DEF SendsOK
<1> HIDE DEF gone
<1>9. routes' \in [Nodes -> Seq(RouteRow)] /\ (RoutesLead => RoutesLead')
  <2> DEFINE table == ForgetRoutes(routes[n], gone)
  <2>1. /\ table \in Seq(RouteRow)
        /\ \A i \in 1..Len(table) : \E j \in 1..Len(routes[n]) : table[i] = routes[n][j]
    BY <1>2, ForgetRoutesFacts
  <2>2. routes' = [routes EXCEPT ![n] = table]
    BY <1>1
  <2> HIDE DEF table
  <2>3. routes' \in [Nodes -> Seq(RouteRow)]
    BY <1>2, <2>1, <2>2
  <2>4. LeadFrom(n, routes[n]) => LeadFrom(n, table)
    BY <2>1 DEF LeadFrom
  <2>5. \A k \in Nodes : routes'[k] = IF k = n THEN table ELSE routes[k]
    BY <1>2, <2>2
  <2>6. RoutesLead => RoutesLead'
    BY <2>4, <2>5 DEF RoutesLead
  <2> QED BY <2>3, <2>6
<1>10. IndexedOK'
  <2> HIDE DEF new
  <2>1. now' \in [Nodes -> Nat]
    BY <1>1, <1>2
  <2>2. nextId' \in [Nodes -> Nat \ {0}] /\ DOMAIN queue' = Nodes /\ DOMAIN pending' = Nodes
    BY <1>1, <1>2
  <2> QED BY <1>9, <2>1, <2>2 DEF IndexedOK
<1>11. SeenOK'
  BY <1>1 DEF Inv, SeenOK
<1> QED
  BY <1>5, <1>6, <1>7, <1>8, <1>9, <1>10, <1>11 DEF Inv, QueuesOK, AirOK

-----------------------------------------------------------------------------
(* The theorems.                                                           *)

LEMMA InitInv == Init => Inv /\ RoutesLead
<1> SUFFICES ASSUME Init PROVE Inv /\ RoutesLead
  OBVIOUS
<1>1. Len(<<>>) = 0 /\ <<>> \in Seq(RouteRow) /\ IsList(<<>>)
  BY DEF IsList
<1>2. IndexedOK
  BY <1>1 DEF Init, IndexedOK
<1>3. SeenOK
  BY RouterAssumption DEF Init, SeenOK
<1>4. \A n \in Nodes : EntriesOK(n, pending[n], nextId[n])
  BY <1>1 DEF Init, EntriesOK
<1>5. \A n \in Nodes : LeadFrom(n, routes[n])
  BY <1>1 DEF Init, LeadFrom
<1> QED
  BY <1>2, <1>3, <1>4, <1>5 DEF Init, Inv, SendsOK, RoutesLead

LEMMA NextInv ==
    Inv /\ [Next]_vars => Inv' /\ (Symmetric /\ RoutesLead => RoutesLead')
<1> SUFFICES ASSUME Inv, [Next]_vars PROVE Inv' /\ (Symmetric /\ RoutesLead => RoutesLead')
  OBVIOUS
<1>1. ASSUME NEW s \in Traffic, SendDirect(s[1], s[2], s[3]) PROVE Inv' /\ routes' = routes
  BY <1>1, RouterAssumption, SendDirectKeeps
<1>2. ASSUME NEW n \in Nodes, NEW type \in {"ANON_REQ", "ADVERT", "TRACE"}, NEW payload,
             type = "ANON_REQ" => payload.from = n /\ payload.to \in Nodes,
             type = "TRACE" => payload = <<>>,
             SendFlood(n, type, payload)
      PROVE  Inv' /\ routes' = routes
  <2> DEFINE f == Frame(type, "FLOOD", <<>>, payload)
  <2>1. /\ DOMAIN f = {"type", "route", "path", "payload"}
        /\ f.type = type /\ f.route = "FLOOD" /\ f.path = <<>> /\ f.payload = payload
        /\ <<>> \in Seq(Nodes)
    BY DEF Frame
  <2> HIDE DEF f
  <2>2. IsFrame(f)
    BY <1>2, <2>1 DEF IsFrame
  <2>3. LeavesFrom(n, f)
    BY <1>2, <2>2, NewFlood DEF f
  <2> QED BY <1>2, <2>3, SendFloodKeeps DEF f
<1>3. ASSUME NEW s \in Logins, SendFlood(s[1], "ANON_REQ", Envelope(s[1], s[2], s[3]))
      PROVE  Inv' /\ routes' = routes
  <2> DEFINE payload == Envelope(s[1], s[2], s[3])
  <2>1. payload.from = s[1] /\ payload.to = s[2] /\ s[1] \in Nodes /\ s[2] \in Nodes
    BY RouterAssumption DEF Envelope
  <2> HIDE DEF payload
  <2> QED BY <1>2, <1>3, <2>1 DEF payload
<1>4. ASSUME NEW n \in Nodes, SendFlood(n, "ADVERT", n) PROVE Inv' /\ routes' = routes
  BY <1>2, <1>4
<1>5. ASSUME NEW n \in Nodes, SendFlood(n, "TRACE", <<>>) PROVE Inv' /\ routes' = routes
  BY <1>2, <1>5
<1>6. ASSUME NEW m \in air, NEW delay \in ForwardDelays, OnFrame(m.to, m.frame, delay)
      PROVE  Inv' /\ (Symmetric /\ RoutesLead => RoutesLead')
  BY <1>6, OnFrameKeeps
<1>7. ASSUME NEW n \in Nodes, NEW t \in 0..MaxTime, Tick(n, t)
      PROVE  Inv' /\ (Symmetric /\ RoutesLead => RoutesLead')
  BY <1>7, TickKeeps
<1>8. ASSUME UNCHANGED vars PROVE Inv' /\ routes' = routes
  BY <1>8 DEF vars, Inv, IndexedOK, SeenOK, SendsOK
<1>9. routes' = routes => (RoutesLead => RoutesLead')
  BY DEF RoutesLead
<1> QED
  BY <1>1, <1>3, <1>4, <1>5, <1>6, <1>7, <1>8, <1>9 DEF Next

LEMMA Invariance == Spec => []Inv
<1>1. Inv /\ [Next]_vars => Inv'
  BY NextInv
<1> QED
  BY <1>1, InitInv, PTL DEF Spec

\* Routing's tables keep their types: whatever is heard, in whatever order, a
\* queue, a table of sends and the air hold frames, the duplicate cache keeps
\* its slots and every id in pending_ was given out (routing.cpp).
THEOREM TypeCorrect == Spec => []TypeOK
<1>1. Inv => TypeOK
  <2> SUFFICES ASSUME Inv PROVE TypeOK
    OBVIOUS
  <2>1. \A n, f : LeavesFrom(n, f) \/ ComesTo(n, f) => IsFrame(f)
    BY DEF LeavesFrom, ComesTo, FrameOK
  <2>2. /\ now \in [Nodes -> Nat] /\ nextId \in [Nodes -> Nat]
        /\ seenNext \in [Nodes -> 0..SeenSlots - 1]
        /\ \A n \in Nodes : DOMAIN seen[n] = 0..SeenSlots - 1
        /\ \A x \in sends : x.fate \in {"waiting", "acked", "failed"}
    BY DEF Inv, IndexedOK, SeenOK, SendsOK
  <2>3. \A n \in Nodes : \A d \in queue[n] : d.notBefore \in Nat /\ IsFrame(d.frame)
    BY <2>1 DEF Inv
  <2>4. \A n \in Nodes : \A i \in 1..Len(pending[n]) :
            /\ pending[n][i].id \in 1..nextId[n] - 1 /\ pending[n][i].to \in Nodes
            /\ IsFrame(pending[n][i].frame)
    BY <2>1 DEF Inv, EntriesOK
  <2>5. \A n \in Nodes : \A i \in 1..Len(routes[n]) :
            routes[n][i].to \in Nodes /\ routes[n][i].path \in Seq(Nodes)
    BY RouteRows DEF Inv, IndexedOK
  <2>6. \A m \in air : m.to \in Nodes /\ IsFrame(m.frame)
    BY <2>1 DEF Inv
  <2> QED BY <2>2, <2>3, <2>4, <2>5, <2>6 DEF TypeOK
<1> QED
  BY <1>1, Invariance, PTL

\* What a flood on the air says of the way it came is true: the path it
\* recorded is the way it went, it passed no node twice and a trace has one
\* reading of each node it passed (considerForwarding, appendTraceHop).
THEOREM FloodsStayTrue == Spec => []FloodsTrue
<1>1. Inv => FloodsTrue
  <2> SUFFICES ASSUME Inv, NEW m \in air, m.frame.route = "FLOOD"
               PROVE  /\ \A i, j \in 1..Len(m.frame.path) : m.frame.path[i] = m.frame.path[j] => i = j
                      /\ Connected(Append(m.frame.path, m.to))
                      /\ Sealed(m.frame) => Connected(<<m.frame.payload.from>> \o m.frame.path)
                      /\ m.frame.type = "TRACE" => m.frame.payload = m.frame.path
    BY DEF FloodsTrue
  <2>1. m.to \in Nodes /\ ComesTo(m.to, m.frame)
    BY DEF Inv
  <2>2. /\ m.frame.path \in Seq(Nodes) /\ FloodOK(m.frame) /\ Reaches(m.frame.path, m.to)
        /\ Sealed(m.frame) => m.frame.payload.from \in Nodes
    BY <2>1 DEF ComesTo, FrameOK, IsFrame, Sealed
  <2>3. Connected(Append(m.frame.path, m.to))
    BY <2>1, <2>2, ConnectedAppend DEF FloodOK
  <2>4. Sealed(m.frame) => Connected(<<m.frame.payload.from>> \o m.frame.path)
    BY <2>2, ConnectedFrom DEF FloodOK
  <2> QED BY <2>2, <2>3, <2>4 DEF FloodOK
<1> QED
  BY <1>1, Invariance, PTL

\* Where links go both ways, every route a node has learned, from a flood or
\* from a returned path, leads to its destination over links that exist
\* (learnRouteFrom, installRoute, reversePath).
THEOREM RoutesStayGood ==
    ASSUME Symmetric
    PROVE  Spec => []RoutesWork
<1> DEFINE Both == Inv /\ RoutesLead
<1>1. Init => Both
  BY InitInv
<1>2. Both /\ [Next]_vars => Both'
  BY NextInv
<1>3. Both => RoutesWork
  <2> SUFFICES ASSUME Inv, RoutesLead, NEW n \in Nodes, NEW i \in 1..Len(routes[n])
               PROVE  Connected(<<n>> \o routes[n][i].path \o <<routes[n][i].to>>)
    BY DEF RoutesWork
  <2>1. routes[n][i].to \in Nodes /\ routes[n][i].path \in Seq(Nodes)
    BY RouteRows DEF Inv, IndexedOK
  <2>2. Leads(n, routes[n][i].path, routes[n][i].to)
    BY DEF RoutesLead, LeadFrom
  <2> QED BY <2>1, <2>2, LeadsConnected
<1> QED
  BY <1>1, <1>2, <1>3, PTL DEF Spec

-----------------------------------------------------------------------------
(* Every send is answered once.                                            *)

\* The ids at these places.
IdsAt(table, places) == {table[i].id : i \in places}

\* A table of sends that are the ones waiting, each once.
TrackOK(table, waiting) ==
    /\ IdsAt(table, 1..Len(table)) = waiting
    /\ \A i, j \in 1..Len(table) : table[i].id = table[j].id => i = j
    /\ \A i \in 1..Len(table) : table[i].attempts \in Nat /\ table[i].attempts <= MaxAttempts

WaitingIds(n, all) == {s.id : s \in {x \in all : x.from = n /\ x.fate = "waiting"}}

Tracked == \A n \in Nodes : TrackOK(pending[n], WaitingIds(n, sends))

\* No send finds the table full.
RoomForSends == [][\A n \in Nodes : nextId'[n] # nextId[n] => HasRoom(n)]_vars

\* A table that has lost the entries at other places than these.
LEMMA TrackFewer ==
    ASSUME NEW old, NEW waiting, TrackOK(old, waiting), NEW new, NEW places \in SUBSET (1..Len(old)),
           NEW g \in [1..Len(new) -> places],
           \A i, j \in 1..Len(new) : g[i] = g[j] => i = j,
           \A j \in places : \E i \in 1..Len(new) : g[i] = j,
           \A i \in 1..Len(new) :
               /\ new[i].id = old[g[i]].id
               /\ new[i].attempts \in Nat /\ new[i].attempts <= MaxAttempts
    PROVE  TrackOK(new, waiting \ IdsAt(old, (1..Len(old)) \ places))
<1>1. \A i \in 1..Len(new) : g[i] \in places /\ g[i] \in 1..Len(old)
  OBVIOUS
<1>2. \A i, j \in 1..Len(old) : old[i].id = old[j].id => i = j
  BY DEF TrackOK
<1>3. ASSUME NEW i \in 1..Len(new), NEW j \in 1..Len(new), new[i].id = new[j].id PROVE i = j
  <2>1. old[g[i]].id = old[g[j]].id
    BY <1>3
  <2>2. g[i] = g[j]
    BY <1>1, <1>2, <2>1
  <2> QED BY <2>2
<1>4. IdsAt(new, 1..Len(new)) = IdsAt(old, places)
  <2>1. \A i \in 1..Len(new) : new[i].id = old[g[i]].id
    OBVIOUS
  <2>2. ASSUME NEW i \in 1..Len(new) PROVE new[i].id \in IdsAt(old, places)
    <3>1. g[i] \in places /\ new[i].id = old[g[i]].id
      BY <1>1, <2>1
    <3> QED BY <3>1 DEF IdsAt
  <2>3. IdsAt(old, places) \subseteq IdsAt(new, 1..Len(new))
    BY <2>1 DEF IdsAt
  <2>4. ASSUME NEW id \in IdsAt(new, 1..Len(new)) PROVE id \in IdsAt(old, places)
    <3>1. PICK i \in 1..Len(new) : id = new[i].id
      BY DEF IdsAt
    <3> QED BY <2>2, <3>1
  <2> QED BY <2>3, <2>4
<1>5. IdsAt(old, places) = IdsAt(old, 1..Len(old)) \ IdsAt(old, (1..Len(old)) \ places)
  BY <1>2 DEF IdsAt
<1> QED
  BY <1>3, <1>4, <1>5 DEF TrackOK

\* What reporting the fate of these leaves waiting.
Fated(all, n, ids, fate) ==
    {IF s.from = n /\ s.id \in ids THEN [s EXCEPT !.fate = fate] ELSE s : s \in all}

LEMMA WaitingAfter ==
    ASSUME NEW all, NEW n, NEW ids, NEW fate \in {"acked", "failed"},
           \A s \in all : DOMAIN s = {"from", "id", "to", "text", "fate"}
    PROVE  /\ WaitingIds(n, Fated(all, n, ids, fate)) = WaitingIds(n, all) \ ids
           /\ \A k : k # n => WaitingIds(k, Fated(all, n, ids, fate)) = WaitingIds(k, all)
<1> DEFINE new == Fated(all, n, ids, fate)
<1>1. ASSUME NEW k, NEW y \in new, y.from = k, y.fate = "waiting"
      PROVE  y \in all /\ ~(k = n /\ y.id \in ids)
  <2>1. PICK s \in all : y = IF s.from = n /\ s.id \in ids THEN [s EXCEPT !.fate = fate] ELSE s
    BY DEF Fated
  <2>2. CASE s.from = n /\ s.id \in ids
    BY <1>1, <2>1, <2>2
  <2>3. CASE ~(s.from = n /\ s.id \in ids)
    BY <1>1, <2>1, <2>3
  <2> QED BY <2>2, <2>3
<1>2. ASSUME NEW k, NEW s \in all, s.from = k, s.fate = "waiting", ~(k = n /\ s.id \in ids)
      PROVE  s \in new
  BY <1>2 DEF Fated
<1> HIDE DEF new
<1>3. WaitingIds(n, new) = WaitingIds(n, all) \ ids
  <2>1. WaitingIds(n, new) \subseteq WaitingIds(n, all) \ ids
    BY <1>1 DEF WaitingIds
  <2>2. WaitingIds(n, all) \ ids \subseteq WaitingIds(n, new)
    BY <1>2 DEF WaitingIds
  <2> QED BY <2>1, <2>2
<1>4. ASSUME NEW k, k # n PROVE WaitingIds(k, new) = WaitingIds(k, all)
  <2>1. WaitingIds(k, new) \subseteq WaitingIds(k, all)
    BY <1>1 DEF WaitingIds
  <2>2. WaitingIds(k, all) \subseteq WaitingIds(k, new)
    BY <1>2, <1>4 DEF WaitingIds
  <2> QED BY <2>1, <2>2
<1> QED
  BY <1>3, <1>4 DEF new

\* What may become of an entry that stays.
Goes(new, old) ==
    /\ new.id = old.id
    /\ old.attempts \in Nat /\ old.attempts <= MaxAttempts =>
           new.attempts \in Nat /\ new.attempts <= MaxAttempts

\* A table that has lost the entries at other places than these, and has the
\* rest in their order.
Thinned(new, old, places) ==
    \E g \in [1..Len(new) -> places] :
        /\ \A i, j \in 1..Len(new) : i < j => g[i] < g[j]
        /\ \A j \in places : \E i \in 1..Len(new) : g[i] = j
        /\ \A i \in 1..Len(new) : Goes(new[i], old[g[i]])

LEMMA ThinnedTracks ==
    ASSUME NEW old, Len(old) \in Nat, NEW new, Len(new) \in Nat, NEW waiting, TrackOK(old, waiting),
           NEW places \in SUBSET (1..Len(old)), Thinned(new, old, places)
    PROVE  TrackOK(new, waiting \ IdsAt(old, (1..Len(old)) \ places))
<1>1. PICK g \in [1..Len(new) -> places] :
          /\ \A i, j \in 1..Len(new) : i < j => g[i] < g[j]
          /\ \A j \in places : \E i \in 1..Len(new) : g[i] = j
          /\ \A i \in 1..Len(new) : Goes(new[i], old[g[i]])
  BY DEF Thinned
<1>2. \A i \in 1..Len(new) : g[i] \in 1..Len(old) /\ g[i] \in Nat
  <2>1. \A i \in 1..Len(new) : g[i] \in places
    OBVIOUS
  <2>2. \A j \in places : j \in 1..Len(old) /\ j \in Nat
    OBVIOUS
  <2> QED BY <2>1, <2>2
<1>3. \A i, j \in 1..Len(new) : g[i] = g[j] => i = j
  <2>1. \A i, j \in 1..Len(new) : i < j \/ j < i \/ i = j
    OBVIOUS
  <2> QED BY <1>1, <1>2, <2>1
<1>4. \A i \in 1..Len(new) : /\ new[i].id = old[g[i]].id
                             /\ new[i].attempts \in Nat /\ new[i].attempts <= MaxAttempts
  BY <1>1, <1>2 DEF TrackOK, Goes
<1> QED
  BY <1>1, <1>3, <1>4, TrackFewer

\* handleAck takes the first entry that waits for the number out of the table.
LEMMA HandleAckThins ==
    ASSUME Inv, NEW n \in Nodes, NEW f, HandleAck(n, f), Awaiting(n, f.payload) # {},
           NEW i, i = Min(Awaiting(n, f.payload))
    PROVE  /\ i \in Awaiting(n, f.payload) /\ \A j \in Awaiting(n, f.payload) : i <= j
           /\ i \in 1..Len(pending[n]) /\ pending[n][i].expectedAck = f.payload
           /\ Thinned(pending'[n], pending[n], (1..Len(pending[n])) \ {i})
           /\ Len(pending'[n]) <= Len(pending[n])
           /\ sends' = Fated(sends, n, {pending[n][i].id}, "acked")
           /\ \A k \in Nodes : k # n => pending'[k] = pending[k]
<1> DEFINE waiting == Awaiting(n, f.payload)
           old == pending[n]
           L == Len(old)
           new == [j \in 1..L - 1 |-> IF j < i THEN old[j] ELSE old[j + 1]]
           id == old[i].id
           g == [j \in 1..L - 1 |-> IF j < i THEN j ELSE j + 1]
           places == (1..L) \ {i}
<1>1. DOMAIN pending = Nodes /\ IsList(old) /\ L \in Nat
  BY ListFacts DEF Inv, IndexedOK, EntriesOK
<1>2. pending' = [pending EXCEPT ![n] = new] /\ sends' = Reported(n, id, "acked")
  BY DEF HandleAck
<1>3. i \in waiting /\ (\A j \in waiting : i <= j) /\ i \in 1..L /\ old[i].expectedAck = f.payload
  <2>1. waiting \subseteq Nat /\ \A j \in waiting : j \in 1..L /\ old[j].expectedAck = f.payload
    BY <1>1 DEF Awaiting
  <2> HIDE DEF waiting
  <2>2. i \in waiting /\ \A j \in waiting : i <= j
    BY <2>1, MinFacts DEF waiting
  <2> QED BY <2>1, <2>2
<1>4. /\ new = [j \in 1..L - 1 |-> new[j]]
      /\ \A j \in 1..L - 1 : new[j] = old[g[j]]
  OBVIOUS
<1>5. Len(new) = L - 1
  <2> HIDE DEF new, L
  <2>1. L - 1 \in Nat
    BY <1>1, <1>3
  <2> QED BY <1>4, <2>1, ListOf
<1> HIDE DEF new, L, old
<1>6. /\ g \in [1..L - 1 -> places]
      /\ \A j, k \in 1..L - 1 : j < k => g[j] < g[k]
  BY <1>1, <1>3
<1>7. ASSUME NEW j \in places PROVE \E k \in 1..L - 1 : g[k] = j
  <2>1. CASE j < i
    <3>1. j \in 1..L - 1 /\ g[j] = j
      BY <1>1, <1>3, <2>1
    <3> QED BY <3>1
  <2>2. CASE ~(j < i)
    <3>1. j - 1 \in 1..L - 1 /\ ~(j - 1 < i) /\ (j - 1) + 1 = j
      BY <1>1, <1>3, <2>2
    <3>2. g[j - 1] = j
      BY <3>1
    <3> QED BY <3>1, <3>2
  <2> QED BY <2>1, <2>2
<1> HIDE DEF g, places
<1>8. Thinned(new, old, places)
  <2>1. \A j \in 1..Len(new) : Goes(new[j], old[g[j]])
    BY <1>4, <1>5 DEF Goes
  <2> QED BY <1>5, <1>6, <1>7, <2>1 DEF Thinned
<1>9. sends' = Fated(sends, n, {id}, "acked")
  <2> HIDE DEF id
  <2> QED BY <1>2 DEF Reported, Fated
<1>10. \A k \in Nodes : pending'[k] = IF k = n THEN new ELSE pending[k]
  BY <1>1, <1>2
<1>11. Len(new) <= L
  BY <1>1, <1>5
<1> QED
  BY <1>3, <1>8, <1>9, <1>10, <1>11 DEF id, old, L, places, waiting

LEMMA HandleAckTracks ==
    ASSUME Inv, Inv', Tracked, NEW n \in Nodes, NEW f, HandleAck(n, f)
    PROVE  Tracked'
<1>1. CASE Awaiting(n, f.payload) = {}
  <2>1. UNCHANGED <<pending, sends>>
    BY <1>1 DEF HandleAck
  <2> QED BY <2>1 DEF Tracked, WaitingIds
<1>2. CASE Awaiting(n, f.payload) # {}
  <2> DEFINE i == Min(Awaiting(n, f.payload))
             old == pending[n]
             L == Len(old)
             places == (1..L) \ {i}
             id == old[i].id
  <2>1. /\ i \in 1..L /\ Thinned(pending'[n], old, places)
        /\ sends' = Fated(sends, n, {id}, "acked")
        /\ \A k \in Nodes : k # n => pending'[k] = pending[k]
    BY <1>2, HandleAckThins
  <2>2. TrackOK(old, WaitingIds(n, sends)) /\ L \in Nat /\ Len(pending'[n]) \in Nat
    BY ListFacts DEF Tracked, Inv, EntriesOK
  <2> HIDE DEF i, old
  <2>3. TrackOK(pending'[n], WaitingIds(n, sends) \ IdsAt(old, (1..L) \ places))
    BY <2>1, <2>2, ThinnedTracks
  <2>4. IdsAt(old, (1..L) \ places) = {id}
    BY <2>1 DEF IdsAt
  <2> HIDE DEF id, places
  <2>5. /\ WaitingIds(n, sends') = WaitingIds(n, sends) \ {id}
        /\ \A k : k # n => WaitingIds(k, sends') = WaitingIds(k, sends)
    <3>1. \A s \in sends : DOMAIN s = {"from", "id", "to", "text", "fate"}
      BY DEF Inv, SendsOK
    <3> QED BY <2>1, <3>1, WaitingAfter
  <2>6. ASSUME NEW k \in Nodes PROVE TrackOK(pending'[k], WaitingIds(k, sends'))
    <3>1. CASE k = n
      BY <2>3, <2>4, <2>5, <3>1
    <3>2. CASE k # n
      BY <2>1, <2>5, <3>2 DEF Tracked
    <3> QED BY <3>1, <3>2
  <2> QED BY <2>6 DEF Tracked
<1> QED
  BY <1>1, <1>2

LEMMA SendDirectTracks ==
    ASSUME Inv, Tracked, NEW n \in Nodes, NEW to \in Nodes, NEW text, SendDirect(n, to, text), HasRoom(n)
    PROVE  Tracked'
<1> DEFINE frame == BuildFrame(routes[n], "TXT_MSG", to, Envelope(n, to, text))
           entry == [id |-> nextId[n], expectedAck |-> ExpectedAck(text, n),
                     deadline |-> now[n] + Timeout(frame), attempts |-> 1,
                     to |-> to, frame |-> frame]
           send == [from |-> n, id |-> nextId[n], to |-> to, text |-> text, fate |-> "waiting"]
           old == pending[n]
           new == Append(old, entry)
<1>1. pending' = [pending EXCEPT ![n] = new] /\ sends' = sends \cup {send}
  BY DEF SendDirect
<1>2. /\ entry.id = nextId[n] /\ entry.attempts = 1
      /\ send.from = n /\ send.id = nextId[n] /\ send.fate = "waiting"
  OBVIOUS
<1> HIDE DEF entry, send
<1>3. /\ nextId[n] \in Nat \ {0} /\ DOMAIN pending = Nodes /\ EntriesOK(n, old, nextId[n])
      /\ IsList(old) /\ Len(old) \in Nat /\ TrackOK(old, WaitingIds(n, sends))
  BY ListFacts DEF Inv, IndexedOK, Tracked, EntriesOK
<1>4. /\ Len(new) = Len(old) + 1
      /\ \A i \in 1..Len(old) : new[i] = old[i]
      /\ new[Len(old) + 1] = entry
  BY <1>3, ListAppend
<1>5. \A k \in Nodes : pending'[k] = IF k = n THEN new ELSE pending[k]
  BY <1>1, <1>3
<1> HIDE DEF new, old
<1>6. \A i \in 1..Len(old) : old[i].id # nextId[n]
  BY <1>3 DEF EntriesOK
<1>7. \A i \in 1..Len(new) : i \in 1..Len(old) \/ i = Len(old) + 1
  BY <1>3, <1>4
<1>8. \A i, j \in 1..Len(new) : new[i].id = new[j].id => i = j
  <2>1. \A i \in 1..Len(old) : new[i].id # nextId[n]
    BY <1>4, <1>6
  <2> QED BY <1>2, <1>3, <1>4, <1>7, <2>1 DEF TrackOK
<1>9. \A i \in 1..Len(new) : new[i].attempts \in Nat /\ new[i].attempts <= MaxAttempts
  <2>1. 1 <= MaxAttempts
    BY RouterAssumption
  <2> QED BY <1>2, <1>3, <1>4, <1>7, <2>1 DEF TrackOK
<1>10. IdsAt(new, 1..Len(new)) = IdsAt(old, 1..Len(old)) \cup {nextId[n]}
  <2>1. Len(old) + 1 \in 1..Len(new) /\ 1..Len(old) \subseteq 1..Len(new)
    BY <1>3, <1>4
  <2>2. IdsAt(new, 1..Len(new)) \subseteq IdsAt(old, 1..Len(old)) \cup {nextId[n]}
    BY <1>2, <1>4, <1>7 DEF IdsAt
  <2>3. ASSUME NEW i \in 1..Len(old) PROVE old[i].id \in IdsAt(new, 1..Len(new))
    BY <1>4, <2>1 DEF IdsAt
  <2>4. nextId[n] \in IdsAt(new, 1..Len(new))
    BY <1>2, <1>4, <2>1 DEF IdsAt
  <2>5. IdsAt(old, 1..Len(old)) \subseteq IdsAt(new, 1..Len(new))
    BY <2>3 DEF IdsAt
  <2> QED BY <2>2, <2>4, <2>5
<1>11. WaitingIds(n, sends') = WaitingIds(n, sends) \cup {nextId[n]}
  BY <1>1, <1>2 DEF WaitingIds
<1>12. \A k : k # n => WaitingIds(k, sends') = WaitingIds(k, sends)
  BY <1>1, <1>2 DEF WaitingIds
<1>13. TrackOK(new, WaitingIds(n, sends'))
  BY <1>3, <1>8, <1>9, <1>10, <1>11 DEF TrackOK
<1>14. ASSUME NEW k \in Nodes PROVE TrackOK(pending'[k], WaitingIds(k, sends'))
  BY <1>5, <1>12, <1>13 DEF Tracked
<1> QED
  BY <1>14 DEF Tracked

\* tick takes the sends it gives up out of the table.
LEMMA TickThins ==
    ASSUME Inv, NEW n \in Nodes, NEW t \in 0..MaxTime, Tick(n, t)
    PROVE  /\ Thinned(pending'[n], pending[n], (1..Len(pending[n])) \ Failing(n, t))
           /\ Len(pending'[n]) <= Len(pending[n])
           /\ sends' = Fated(sends, n, IdsAt(pending[n], Failing(n, t)), "failed")
           /\ \A k \in Nodes : k # n => pending'[k] = pending[k]
<1> DEFINE late(e) == e.deadline <= t
           again(e) == IF ~late(e) THEN e
                       ELSE [e EXCEPT !.attempts = @ + 1,
                                      !.deadline = t + IF e.frame.route = "FLOOD"
                                                       THEN FloodAckTimeout ELSE DirectAckBase]
           old == pending[n]
           L == Len(old)
           places == (1..L) \ Failing(n, t)
           kept == Keep(old, places)
           new == [i \in 1..Len(kept) |-> again(kept[i])]
           ids == {e.id : e \in {old[i] : i \in Failing(n, t)}}
<1>1. /\ pending' = [pending EXCEPT ![n] = new]
      /\ sends' = Fated(sends, n, ids, "failed")
  BY DEF Tick, Fated
<1>2. /\ DOMAIN pending = Nodes /\ EntriesOK(n, old, nextId[n])
      /\ IsList(old) /\ L \in Nat
  BY ListFacts DEF Inv, IndexedOK, EntriesOK
<1>3. PICK g : Picks(g, kept, old, places, L)
  <2>1. PICK S : old \in Seq(S)
    BY <1>2 DEF IsList
  <2> QED BY <2>1, KeepPicks
<1>4. /\ Len(kept) \in Nat /\ places \subseteq 1..L /\ g \in [1..Len(kept) -> places]
      /\ \A i \in 1..Len(kept) : kept[i] = old[g[i]]
      /\ \A i, j \in 1..Len(kept) : i < j => g[i] < g[j]
      /\ \A j \in places : \E i \in 1..Len(kept) : g[i] = j
  <2> HIDE DEF kept
  <2>1. {j \in 1..L : j \in places} = places /\ places \subseteq 1..L /\ L \in Nat
    BY <1>2
  <2> HIDE DEF places, L, old
  <2>2. Len(kept) \in Nat /\ g \in [1..Len(kept) -> places]
    BY <1>3, <2>1 DEF Picks
  <2>3. \A j \in places : \E i \in 1..Len(kept) : g[i] = j
    BY <1>3, <2>1 DEF Picks
  <2> QED BY <1>3, <2>1, <2>2, <2>3 DEF Picks
<1>5. \A j \in places : j \in 1..L /\ (late(old[j]) => ~OutOfAttempts(old[j]))
  BY DEF Failing
<1>6. Len(new) = Len(kept) /\ \A i \in 1..Len(kept) : new[i] = again(kept[i])
  <2>1. new = [i \in 1..Len(kept) |-> new[i]] /\ \A i \in 1..Len(kept) : new[i] = again(kept[i])
    OBVIOUS
  <2> HIDE DEF new, kept, again
  <2> QED BY <1>4, <2>1, ListOf
<1>7. ASSUME NEW e, IsEntry(e), late(e) => ~OutOfAttempts(e)
      PROVE  Goes(again(e), e)
  <2>1. CASE ~late(e)
    BY <1>7, <2>1 DEF Goes
  <2>2. CASE late(e)
    <3>1. again(e).id = e.id /\ again(e).attempts = e.attempts + 1
      BY <1>7, <2>2 DEF IsEntry
    <3> HIDE DEF again
    <3>2. ASSUME e.attempts \in Nat, e.attempts <= MaxAttempts
          PROVE  again(e).attempts \in Nat /\ again(e).attempts <= MaxAttempts
      <4>1. e.attempts < MaxAttempts
        BY <1>7, <2>2, <3>2, RouterAssumption DEF OutOfAttempts
      <4> QED BY <3>1, <3>2, <4>1, RouterAssumption
    <3> QED BY <3>1, <3>2 DEF Goes
  <2> QED BY <2>1, <2>2
<1> HIDE DEF again, late, new, kept
<1>8. \A i \in 1..Len(new) : Goes(new[i], old[g[i]])
  <2>1. \A j \in 1..L : IsEntry(old[j])
    BY <1>2 DEF EntriesOK
  <2> HIDE DEF old, L, places
  <2>2. ASSUME NEW i \in 1..Len(kept) PROVE Goes(new[i], old[g[i]])
    <3>1. new[i] = again(old[g[i]]) /\ g[i] \in places /\ g[i] \in 1..L
      BY <1>4, <1>5, <1>6
    <3> QED BY <1>5, <1>7, <2>1, <3>1
  <2> QED BY <1>6, <2>2
<1>9. Thinned(new, old, places)
  <2> HIDE DEF old, L, places
  <2> QED BY <1>4, <1>6, <1>8 DEF Thinned
<1>10. ids = IdsAt(old, Failing(n, t))
  BY DEF IdsAt
<1>11. \A k \in Nodes : pending'[k] = IF k = n THEN new ELSE pending[k]
  BY <1>1, <1>2
<1>12. Len(new) <= L
  BY <1>2, <1>6, ListKeep DEF kept
<1> HIDE DEF ids
<1> QED
  BY <1>1, <1>9, <1>10, <1>11, <1>12

LEMMA TickTracks ==
    ASSUME Inv, Inv', Tracked, NEW n \in Nodes, NEW t \in 0..MaxTime, Tick(n, t)
    PROVE  Tracked'
<1> DEFINE old == pending[n]
           L == Len(old)
           failing == Failing(n, t)
           places == (1..L) \ failing
           ids == IdsAt(old, failing)
<1>1. /\ Thinned(pending'[n], old, places) /\ sends' = Fated(sends, n, ids, "failed")
      /\ \A k \in Nodes : k # n => pending'[k] = pending[k]
  BY TickThins
<1>2. TrackOK(old, WaitingIds(n, sends)) /\ L \in Nat /\ Len(pending'[n]) \in Nat
  BY ListFacts DEF Tracked, Inv, EntriesOK
<1>3. (1..L) \ places = failing
  BY DEF Failing
<1>4. places \in SUBSET (1..L)
  OBVIOUS
<1> HIDE DEF places, failing, old
<1>5. TrackOK(pending'[n], WaitingIds(n, sends) \ ids)
  BY <1>1, <1>2, <1>3, <1>4, ThinnedTracks
<1> HIDE DEF ids
<1>6. /\ WaitingIds(n, sends') = WaitingIds(n, sends) \ ids
      /\ \A k : k # n => WaitingIds(k, sends') = WaitingIds(k, sends)
  <2>1. \A s \in sends : DOMAIN s = {"from", "id", "to", "text", "fate"}
    BY DEF Inv, SendsOK
  <2> QED BY <1>1, <2>1, WaitingAfter
<1>7. ASSUME NEW k \in Nodes PROVE TrackOK(pending'[k], WaitingIds(k, sends'))
  <2>1. CASE k = n
    BY <1>5, <1>6, <2>1
  <2>2. CASE k # n
    BY <1>1, <1>6, <2>2 DEF Tracked
  <2> QED BY <2>1, <2>2
<1> QED
  BY <1>7 DEF Tracked

LEMMA NextTracks ==
    Inv /\ Inv' /\ Tracked /\ [Next]_vars
    /\ [\A n \in Nodes : nextId'[n] # nextId[n] => HasRoom(n)]_vars => Tracked'
<1> SUFFICES ASSUME Inv, Inv', Tracked, [Next]_vars,
                    [\A n \in Nodes : nextId'[n] # nextId[n] => HasRoom(n)]_vars
             PROVE  Tracked'
  OBVIOUS
<1>1. UNCHANGED <<pending, sends>> => Tracked'
  BY DEF Tracked
<1>2. ASSUME NEW s \in Traffic, SendDirect(s[1], s[2], s[3]) PROVE Tracked'
  <2>1. s[1] \in Nodes /\ s[2] \in Nodes
    BY RouterAssumption
  <2>2. nextId' # nextId /\ nextId'[s[1]] # nextId[s[1]]
    BY <1>2, <2>1 DEF SendDirect, Inv, IndexedOK
  <2>3. HasRoom(s[1])
    BY <2>1, <2>2 DEF vars
  <2> QED BY <1>2, <2>1, <2>3, SendDirectTracks
<1>3. ASSUME NEW n, NEW type, NEW payload, SendFlood(n, type, payload) PROVE Tracked'
  BY <1>1, <1>3 DEF SendFlood
<1>4. ASSUME NEW m \in air, NEW delay \in ForwardDelays, OnFrame(m.to, m.frame, delay) PROVE Tracked'
  <2>1. UNCHANGED <<pending, sends>> \/ HandleAck(m.to, m.frame)
    BY <1>4 DEF OnFrame, Deliver, DeliverAnon
  <2>2. m.to \in Nodes
    BY DEF Inv
  <2> QED BY <1>1, <2>1, <2>2, HandleAckTracks
<1>5. ASSUME NEW n \in Nodes, NEW t \in 0..MaxTime, Tick(n, t) PROVE Tracked'
  BY <1>5, TickTracks
<1>6. UNCHANGED vars => Tracked'
  BY <1>1 DEF vars
<1> QED
  BY <1>2, <1>3, <1>4, <1>5, <1>6 DEF Next

\* As long as no send finds pending_ full, the sends that wait for their ack and
\* the entries of pending_ are the same, one to one, and no frame is tried more
\* than maxAttempts times: none is reported twice, and none is dropped without
\* a report (sendDirect, handleAck, tick).
THEOREM SendsTrackedOnce == Spec /\ RoomForSends => []TrackedOnce
<1>1. Init => Tracked
  <2>1. Len(<<>>) = 0
    OBVIOUS
  <2> QED BY <2>1 DEF Init, Tracked, TrackOK, IdsAt, WaitingIds
<1>2. Tracked => TrackedOnce
  BY DEF Tracked, TrackOK, TrackedOnce, IdsAt, WaitingIds
<1> QED
  BY <1>1, <1>2, NextTracks, Invariance, PTL DEF Spec, RoomForSends

-----------------------------------------------------------------------------
(* An ack is a receipt.                                                    *)

\* One of these sends took this text from one to the other.
Sent(all, from, to, text) == \E s \in all : s.from = from /\ s.to = to /\ s.text = text

\* Whatever the first were sent to carry, the second were too.
AllSent(all, more) == \A s \in all : Sent(more, s.from, s.to, s.text)

IsLogin(payload) == \E s \in Logins : payload = Envelope(s[1], s[2], s[3])

\* A text is one that was sent, an ack is of one that somebody it was sent to
\* was handed, and a login is somebody's.
Genuine(f, all, handed) ==
    /\ f.type = "TXT_MSG" => Sent(all, f.payload.from, f.payload.to, f.payload.plain)
    /\ f.type = "ACK" => \E r : /\ <<r, f.payload.sender, f.payload.plain>> \in handed
                                /\ Sent(all, f.payload.sender, r, f.payload.plain)
    /\ f.type = "ANON_REQ" => IsLogin(f.payload)

\* The sends of n, and the acks they wait for.
ExpectsOK(n, table, all, handed) ==
    \A i \in 1..Len(table) :
        /\ Genuine(table[i].frame, all, handed)
        /\ \A s \in all : s.from = n /\ s.id = table[i].id =>
               table[i].expectedAck = ExpectedAck(s.text, n)

SentOK == \A s \in sends : s.from \in Nodes /\ s.id \in Nat /\ s.id < nextId[s.from]

AllGenuine ==
    /\ \A n \in Nodes : \A d \in queue[n] : Genuine(d.frame, sends, heard)
    /\ \A m \in air : Genuine(m.frame, sends, heard)

\* A send that is reported as acknowledged has a text that was handed up at a
\* node its sender sent it to.
AckedIsHeard ==
    \A s \in sends : s.fate = "acked" =>
        \E r : <<r, s.from, s.text>> \in heard /\ Sent(sends, s.from, r, s.text)

Receipts ==
    /\ SentOK
    /\ \A n \in Nodes : ExpectsOK(n, pending[n], sends, heard)
    /\ AllGenuine
    /\ AckedIsHeard

LEMMA GenuineGrows ==
    ASSUME NEW f, NEW A, NEW B, AllSent(A, B), NEW H, NEW G, H \subseteq G, Genuine(f, A, H)
    PROVE  Genuine(f, B, G)
<1>1. \A from, to, text : Sent(A, from, to, text) => Sent(B, from, to, text)
  BY DEF Sent, AllSent
<1> QED
  BY <1>1 DEF Genuine

LEMMA AllSentMore ==
    ASSUME NEW A, NEW B, A \subseteq B
    PROVE  AllSent(A, B)
BY DEF AllSent, Sent

\* Only texts, acks and logins have to be.
LEMMA OthersGenuine ==
    ASSUME NEW f, f.type \notin {"TXT_MSG", "ACK", "ANON_REQ"}, NEW A, NEW H
    PROVE  Genuine(f, A, H)
BY DEF Genuine

LEMMA BuiltFrame ==
    ASSUME NEW table, NEW type, NEW to, NEW payload
    PROVE  LET f == BuildFrame(table, type, to, payload) IN f.type = type /\ f.payload = payload
BY DEF BuildFrame, Frame

LEMMA ForwardedGenuine ==
    ASSUME NEW n, NEW f, IsFrame(f), NEW A, NEW H, Genuine(f, A, H), NEW g \in Forwarded(n, f)
    PROVE  Genuine(g, A, H)
<1>1. g.type = f.type /\ (f.type # "TRACE" => g.payload = f.payload)
  BY ForwardedIs DEF SameBut
<1> QED
  BY <1>1 DEF Genuine

LEMMA OnAirGenuine ==
    ASSUME NEW n, NEW frames, NEW A, NEW H, \A f \in frames : Genuine(f, A, H)
    PROVE  \A m \in OnAir(n, frames) : Genuine(m.frame, A, H)
BY DEF OnAir

\* Reporting a fate changes nothing else about a send.
LEMMA FatedFrom ==
    ASSUME NEW all, NEW n, NEW ids, NEW fate, NEW s \in Fated(all, n, ids, fate),
           \A x \in all : DOMAIN x = {"from", "id", "to", "text", "fate"}
    PROVE  \E x \in all :
               /\ s.from = x.from /\ s.id = x.id /\ s.to = x.to /\ s.text = x.text
               /\ s.fate = x.fate \/ (s.fate = fate /\ x.from = n /\ x.id \in ids)
<1>1. PICK x \in all : s = IF x.from = n /\ x.id \in ids THEN [x EXCEPT !.fate = fate] ELSE x
  BY DEF Fated
<1>2. CASE x.from = n /\ x.id \in ids
  BY <1>1, <1>2
<1>3. CASE ~(x.from = n /\ x.id \in ids)
  BY <1>1, <1>3
<1> QED
  BY <1>2, <1>3

LEMMA FatedAll ==
    ASSUME NEW all, NEW n, NEW ids, NEW fate,
           \A x \in all : DOMAIN x = {"from", "id", "to", "text", "fate"}
    PROVE  AllSent(all, Fated(all, n, ids, fate))
<1> SUFFICES ASSUME NEW x \in all
             PROVE  \E s \in Fated(all, n, ids, fate) :
                        s.from = x.from /\ s.to = x.to /\ s.text = x.text
  BY DEF AllSent, Sent
<1> DEFINE s == IF x.from = n /\ x.id \in ids THEN [x EXCEPT !.fate = fate] ELSE x
<1>1. s \in Fated(all, n, ids, fate)
  BY DEF Fated
<1>2. s.from = x.from /\ s.to = x.to /\ s.text = x.text
  <2>1. CASE x.from = n /\ x.id \in ids
    BY <2>1
  <2>2. CASE ~(x.from = n /\ x.id \in ids)
    BY <2>2
  <2> QED BY <2>1, <2>2
<1> QED
  BY <1>1, <1>2

LEMMA FatedSent ==
    ASSUME Inv, SentOK, NEW n, NEW ids, NEW fate, sends' = Fated(sends, n, ids, fate), nextId' = nextId
    PROVE  SentOK'
<1>1. \A x \in sends : DOMAIN x = {"from", "id", "to", "text", "fate"}
  BY DEF Inv, SendsOK
<1>2. ASSUME NEW s \in sends'
      PROVE  s.from \in Nodes /\ s.id \in Nat /\ s.id < nextId'[s.from]
  <2>1. PICK x \in sends : s.from = x.from /\ s.id = x.id
    BY <1>1, <1>2, FatedFrom
  <2> QED BY <2>1 DEF SentOK
<1> QED
  BY <1>2 DEF SentOK

LEMMA FatedExpects ==
    ASSUME NEW k, NEW table, NEW all, NEW H, NEW G, H \subseteq G, ExpectsOK(k, table, all, H),
           NEW n, NEW ids, NEW fate, \A x \in all : DOMAIN x = {"from", "id", "to", "text", "fate"}
    PROVE  ExpectsOK(k, table, Fated(all, n, ids, fate), G)
<1> SUFFICES ASSUME NEW i \in 1..Len(table)
             PROVE  /\ Genuine(table[i].frame, Fated(all, n, ids, fate), G)
                    /\ \A s \in Fated(all, n, ids, fate) : s.from = k /\ s.id = table[i].id =>
                           table[i].expectedAck = ExpectedAck(s.text, k)
  BY DEF ExpectsOK
<1>1. Genuine(table[i].frame, Fated(all, n, ids, fate), G)
  <2>1. Genuine(table[i].frame, all, H)
    BY DEF ExpectsOK
  <2> QED BY <2>1, FatedAll, GenuineGrows
<1>2. ASSUME NEW s \in Fated(all, n, ids, fate), s.from = k, s.id = table[i].id
      PROVE  table[i].expectedAck = ExpectedAck(s.text, k)
  <2>1. PICK x \in all : s.from = x.from /\ s.id = x.id /\ s.to = x.to /\ s.text = x.text
    BY FatedFrom
  <2> QED BY <1>2, <2>1 DEF ExpectsOK
<1> QED
  BY <1>1, <1>2

\* A table with some entries less, their frames and what they wait for as before.
LEMMA ExpectsFewer ==
    ASSUME NEW n, NEW old, NEW new, NEW all, NEW H, ExpectsOK(n, old, all, H),
           \A i \in 1..Len(new) : \E j \in 1..Len(old) :
               /\ new[i].frame = old[j].frame /\ new[i].id = old[j].id
               /\ new[i].expectedAck = old[j].expectedAck
    PROVE  ExpectsOK(n, new, all, H)
BY DEF ExpectsOK

LEMMA SendDirectReceipts ==
    ASSUME Inv, Receipts, NEW n \in Nodes, NEW to, NEW text, SendDirect(n, to, text)
    PROVE  Receipts'
<1> DEFINE payload == Envelope(n, to, text)
           frame == BuildFrame(routes[n], "TXT_MSG", to, payload)
           entry == [id |-> nextId[n], expectedAck |-> ExpectedAck(text, n),
                     deadline |-> now[n] + Timeout(frame), attempts |-> 1,
                     to |-> to, frame |-> frame]
           send == [from |-> n, id |-> nextId[n], to |-> to, text |-> text, fate |-> "waiting"]
           old == pending[n]
           new == IF HasRoom(n) THEN Append(old, entry) ELSE old
<1>1. /\ nextId' = [nextId EXCEPT ![n] = nextId[n] + 1]
      /\ pending' = [pending EXCEPT ![n] = new]
      /\ air' = air \cup OnAir(n, {frame})
      /\ sends' = sends \cup {send}
      /\ UNCHANGED <<queue, heard>>
  BY DEF SendDirect
<1>2. /\ entry.id = nextId[n] /\ entry.expectedAck = ExpectedAck(text, n) /\ entry.frame = frame
      /\ send.from = n /\ send.id = nextId[n] /\ send.to = to /\ send.text = text
      /\ send.fate = "waiting"
  OBVIOUS
<1>3. Genuine(frame, sends', heard)
  <2>1. frame.type = "TXT_MSG" /\ frame.payload = payload
    BY BuiltFrame
  <2>2. payload.from = n /\ payload.to = to /\ payload.plain = text
    BY DEF Envelope
  <2>3. Sent(sends', n, to, text)
    BY <1>1, <1>2 DEF Sent
  <2> HIDE DEF frame, payload
  <2> QED BY <2>1, <2>2, <2>3 DEF Genuine
<1> HIDE DEF frame, entry, send
<1>4. /\ nextId \in [Nodes -> Nat \ {0}] /\ DOMAIN pending = Nodes
      /\ \A k \in Nodes : EntriesOK(k, pending[k], nextId[k]) /\ ExpectsOK(k, pending[k], sends, heard)
  BY DEF Inv, IndexedOK, Receipts
<1>11. AllSent(sends, sends') /\ heard \subseteq heard
  BY <1>1, AllSentMore
<1>5. SentOK'
  <2>1. ASSUME NEW k \in Nodes PROVE nextId[k] \in Nat /\ nextId'[k] \in Nat /\ nextId[k] <= nextId'[k]
    BY <1>1, <1>4
  <2>2. nextId'[n] = nextId[n] + 1
    BY <1>1, <1>4
  <2>3. ASSUME NEW s \in sends'
        PROVE  s.from \in Nodes /\ s.id \in Nat /\ s.id < nextId'[s.from]
    <3>1. CASE s \in sends
      <4>1. s.from \in Nodes /\ s.id \in Nat /\ s.id < nextId[s.from]
        BY <3>1 DEF Receipts, SentOK
      <4> QED BY <2>1, <4>1
    <3>2. CASE s = send
      BY <1>2, <2>1, <2>2, <3>2
    <3> QED BY <1>1, <2>3, <3>1, <3>2
  <2> QED BY <2>3 DEF SentOK
<1>6. ASSUME NEW k \in Nodes PROVE ExpectsOK(k, pending[k], sends', heard)
  <2>1. ASSUME NEW i \in 1..Len(pending[k]), NEW s \in sends', s.from = k, s.id = pending[k][i].id
        PROVE  pending[k][i].expectedAck = ExpectedAck(s.text, k)
    <3>1. pending[k][i].id \in 1..nextId[k] - 1
      BY <1>4 DEF EntriesOK
    <3>2. s # send
      BY <1>2, <1>4, <2>1, <3>1
    <3> QED BY <1>1, <1>4, <2>1, <3>2 DEF ExpectsOK
  <2>2. ASSUME NEW i \in 1..Len(pending[k]) PROVE Genuine(pending[k][i].frame, sends', heard)
    <3>1. Genuine(pending[k][i].frame, sends, heard)
      BY <1>4 DEF ExpectsOK
    <3> QED BY <1>11, <3>1, GenuineGrows
  <2> QED BY <2>1, <2>2 DEF ExpectsOK
<1>7. ExpectsOK(n, new, sends', heard)
  <2>1. CASE ~HasRoom(n)
    BY <1>6, <2>1
  <2>2. CASE HasRoom(n)
    <3>1. new = Append(old, entry) /\ IsList(old) /\ Len(old) \in Nat
      BY <1>4, <2>2, ListFacts DEF EntriesOK
    <3>2. ExpectsOK(n, old, sends', heard)
      BY <1>6
    <3> HIDE DEF new, old
    <3>3. /\ Len(new) = Len(old) + 1
          /\ \A i \in 1..Len(old) : new[i] = old[i]
          /\ new[Len(old) + 1] = entry
      BY <3>1, ListAppend
    <3>4. ASSUME NEW s \in sends', s.from = n, s.id = nextId[n]
          PROVE  ExpectedAck(text, n) = ExpectedAck(s.text, n)
      <4>1. s \notin sends
        BY <1>4, <3>4 DEF Receipts, SentOK
      <4> QED BY <1>1, <1>2, <3>4, <4>1
    <3>5. ASSUME NEW i \in 1..Len(new)
          PROVE  /\ Genuine(new[i].frame, sends', heard)
                 /\ \A s \in sends' : s.from = n /\ s.id = new[i].id =>
                        new[i].expectedAck = ExpectedAck(s.text, n)
      <4>1. CASE i = Len(old) + 1
        BY <1>2, <1>3, <3>3, <3>4, <4>1
      <4>2. CASE i # Len(old) + 1
        <5>1. i \in 1..Len(old) /\ new[i] = old[i]
          BY <3>1, <3>3, <4>2
        <5> QED BY <3>2, <5>1 DEF ExpectsOK
      <4> QED BY <4>1, <4>2
    <3> QED BY <3>5 DEF ExpectsOK
  <2> QED BY <2>1, <2>2
<1> HIDE DEF new
<1>8. ASSUME NEW k \in Nodes PROVE ExpectsOK(k, pending'[k], sends', heard')
  <2>1. pending'[k] = IF k = n THEN new ELSE pending[k]
    BY <1>1, <1>4
  <2> QED BY <1>1, <1>6, <1>7, <2>1
<1>9. AllGenuine'
  <2>1. \A f \in {frame} : Genuine(f, sends', heard)
    BY <1>3
  <2>2. \A m \in OnAir(n, {frame}) : Genuine(m.frame, sends', heard)
    BY <2>1, OnAirGenuine
  <2>3. \A f : Genuine(f, sends, heard) => Genuine(f, sends', heard)
    BY <1>11, GenuineGrows
  <2> QED BY <1>1, <2>2, <2>3 DEF Receipts, AllGenuine
<1>10. AckedIsHeard'
  <2>1. ASSUME NEW s \in sends', s.fate = "acked"
        PROVE  \E r : <<r, s.from, s.text>> \in heard' /\ Sent(sends', s.from, r, s.text)
    <3>1. s \in sends
      BY <1>1, <1>2, <2>1
    <3>2. PICK r : <<r, s.from, s.text>> \in heard /\ Sent(sends, s.from, r, s.text)
      BY <2>1, <3>1 DEF Receipts, AckedIsHeard
    <3> QED BY <1>1, <3>2 DEF Sent
  <2> QED BY <2>1 DEF AckedIsHeard
<1> QED
  BY <1>5, <1>8, <1>9, <1>10 DEF Receipts

\* What is said of the sends, when nothing of theirs moves.
SendsReceipts ==
    /\ SentOK
    /\ \A n \in Nodes : ExpectsOK(n, pending[n], sends, heard)
    /\ AckedIsHeard

LEMMA StillReceipts ==
    ASSUME SendsReceipts, UNCHANGED <<pending, sends, nextId>>, heard \subseteq heard'
    PROVE  SendsReceipts'
<1>1. ASSUME NEW k \in Nodes PROVE ExpectsOK(k, pending[k], sends, heard')
  <2>1. ExpectsOK(k, pending[k], sends, heard)
    BY DEF SendsReceipts
  <2>2. \A f : Genuine(f, sends, heard) => Genuine(f, sends, heard')
    BY AllSentMore, GenuineGrows
  <2> QED BY <2>1, <2>2 DEF ExpectsOK
<1> QED
  BY <1>1 DEF SendsReceipts, SentOK, AckedIsHeard

LEMMA HandleAckReceipts ==
    ASSUME Inv, SendsReceipts, NEW n \in Nodes, NEW f, f.type = "ACK", Genuine(f, sends, heard),
           HandleAck(n, f), nextId' = nextId
    PROVE  SendsReceipts'
<1> DEFINE waiting == Awaiting(n, f.payload)
           i == Min(waiting)
           old == pending[n]
           L == Len(old)
           new == [j \in 1..L - 1 |-> IF j < i THEN old[j] ELSE old[j + 1]]
           ids == {old[i].id}
<1>1. /\ DOMAIN pending = Nodes /\ IsList(old) /\ L \in Nat
      /\ \A k \in Nodes : ExpectsOK(k, pending[k], sends, heard)
      /\ \A x \in sends : DOMAIN x = {"from", "id", "to", "text", "fate"}
  BY ListFacts DEF Inv, IndexedOK, EntriesOK, SendsOK, SendsReceipts
<1>2. UNCHANGED heard
  BY DEF HandleAck
<1>3. CASE waiting = {}
  <2>1. UNCHANGED <<pending, sends>>
    BY <1>3 DEF HandleAck
  <2> QED BY <1>2, <2>1, StillReceipts
<1>4. CASE waiting # {}
  <2>1. pending' = [pending EXCEPT ![n] = new] /\ sends' = Fated(sends, n, ids, "acked")
    BY <1>4 DEF HandleAck, Reported, Fated
  <2>2. i \in 1..L /\ old[i].expectedAck = f.payload
    <3>1. waiting \subseteq Nat /\ \A j \in waiting : j \in 1..L /\ old[j].expectedAck = f.payload
      BY <1>1 DEF Awaiting
    <3> HIDE DEF waiting, old, L
    <3> QED BY <1>4, <3>1, MinFacts
  <2> HIDE DEF i
  <2>3. SentOK'
    BY <2>1, FatedSent DEF SendsReceipts
  <2>4. ExpectsOK(n, new, sends, heard)
    <3>1. new = [j \in 1..L - 1 |-> new[j]] /\ \A j \in 1..L - 1 : new[j] = old[j] \/ new[j] = old[j + 1]
      OBVIOUS
    <3>2. ExpectsOK(n, old, sends, heard)
      BY <1>1
    <3> HIDE DEF new, L, old
    <3>3. L - 1 \in Nat /\ \A j \in 1..L - 1 : j \in 1..L /\ j + 1 \in 1..L
      BY <1>1, <2>2
    <3>4. Len(new) = L - 1
      BY <3>1, <3>3, ListOf
    <3>5. \A j \in 1..Len(new) : \E k \in 1..L : new[j] = old[k]
      BY <3>1, <3>3, <3>4
    <3>6. \A j \in 1..Len(new) : \E k \in 1..Len(old) :
              /\ new[j].frame = old[k].frame /\ new[j].id = old[k].id
              /\ new[j].expectedAck = old[k].expectedAck
      BY <3>5 DEF L
    <3> QED BY <3>2, <3>6, ExpectsFewer
  <2> HIDE DEF new
  <2>5. ASSUME NEW k \in Nodes PROVE ExpectsOK(k, pending'[k], sends', heard')
    <3>1. pending'[k] = IF k = n THEN new ELSE pending[k]
      BY <1>1, <2>1
    <3>2. ExpectsOK(k, pending'[k], sends, heard)
      BY <1>1, <2>4, <3>1
    <3>3. heard \subseteq heard /\ heard' = heard
      BY <1>2
    <3> HIDE DEF ids
    <3> QED BY <1>1, <2>1, <3>2, <3>3, FatedExpects
  <2>6. ASSUME NEW s \in sends', s.fate = "acked"
        PROVE  \E r : <<r, s.from, s.text>> \in heard /\ Sent(sends', s.from, r, s.text)
    <3>1. PICK x \in sends :
              /\ s.from = x.from /\ s.id = x.id /\ s.to = x.to /\ s.text = x.text
              /\ s.fate = x.fate \/ (x.from = n /\ x.id \in ids)
      BY <1>1, <2>1, <2>6, FatedFrom
    <3>4. \A r : Sent(sends, s.from, r, s.text) => Sent(sends', s.from, r, s.text)
      <4> HIDE DEF ids
      <4>1. AllSent(sends, sends')
        BY <1>1, <2>1, FatedAll
      <4> QED BY <4>1 DEF AllSent, Sent
    <3>2. CASE s.fate = x.fate
      BY <2>6, <3>1, <3>2, <3>4 DEF SendsReceipts, AckedIsHeard
    <3>3. CASE x.from = n /\ x.id = old[i].id
      <4>1. f.payload = ExpectedAck(x.text, n)
        BY <1>1, <2>2, <3>3 DEF ExpectsOK
      <4>2. f.payload.plain = x.text /\ f.payload.sender = n
        BY <4>1 DEF ExpectedAck
      <4>3. PICK r : <<r, n, x.text>> \in heard /\ Sent(sends, n, r, x.text)
        BY <4>2 DEF Genuine
      <4> QED BY <3>1, <3>3, <3>4, <4>3
    <3> QED BY <3>1, <3>2, <3>3
  <2>7. AckedIsHeard'
    BY <1>2, <2>6 DEF AckedIsHeard
  <2> QED BY <2>3, <2>5, <2>7 DEF SendsReceipts
<1> QED
  BY <1>3, <1>4

\* An ack settles one send at most.
LEMMA HandleAckSends ==
    ASSUME NEW n, NEW f, HandleAck(n, f)
    PROVE  sends' = sends \/ \E id : sends' = Fated(sends, n, {id}, "acked")
<1> DEFINE i == Min(Awaiting(n, f.payload))
           id == pending[n][i].id
<1>1. CASE Awaiting(n, f.payload) = {}
  BY <1>1 DEF HandleAck
<1>2. CASE Awaiting(n, f.payload) # {}
  <2>1. sends' = Reported(n, id, "acked")
    BY <1>2 DEF HandleAck
  <2> HIDE DEF id
  <2>2. Reported(n, id, "acked") = Fated(sends, n, {id}, "acked")
    BY DEF Reported, Fated
  <2> QED BY <2>1, <2>2
<1> QED
  BY <1>1, <1>2

LEMMA HandledReceipts ==
    ASSUME Inv, SendsReceipts, NEW n \in Nodes, NEW f, Genuine(f, sends, heard), Handled(n, f),
           nextId' = nextId
    PROVE  SendsReceipts' /\ heard \subseteq heard' /\ AllSent(sends, sends')
<1>1. CASE f.type = "ACK"
  <2>1. HandleAck(n, f)
    BY <1>1 DEF Handled
  <2>2. heard' = heard
    BY <2>1 DEF HandleAck
  <2>3. AllSent(sends, sends')
    <3>1. \A x \in sends : DOMAIN x = {"from", "id", "to", "text", "fate"}
      BY DEF Inv, SendsOK
    <3>2. sends' = sends \/ \E id : sends' = Fated(sends, n, {id}, "acked")
      BY <2>1, HandleAckSends
    <3>3. sends' = sends => AllSent(sends, sends')
      BY AllSentMore
    <3>4. \A id : AllSent(sends, Fated(sends, n, {id}, "acked"))
      BY <3>1, FatedAll
    <3> QED BY <3>2, <3>3, <3>4
  <2> QED BY <1>1, <2>1, <2>2, <2>3, HandleAckReceipts
<1>2. CASE f.type # "ACK"
  <2>1. UNCHANGED <<pending, sends>> /\ heard \subseteq heard'
    BY <1>2 DEF Handled, DeliverAnon, Deliver
  <2> QED BY <2>1, StillReceipts, AllSentMore
<1> QED
  BY <1>1, <1>2

\* The answer to a text is an ack of what has just been handed up.
LEMMA AnswersGenuine ==
    ASSUME NEW n \in Nodes, NEW f, f.type \in {"TXT_MSG", "PATH"}, f.payload.to = n, NEW A, NEW H,
           Genuine(f, A, H), f.type = "TXT_MSG" => <<n, f.payload.from, f.payload.plain>> \in H
    PROVE  \A i \in 1..Len(Answers(n, f)) : Genuine(Answers(n, f)[i], A, H)
<1> DEFINE a == PathReturn(n, f)
           b == Ack(n, f)
           x == IF f.route = "FLOOD" THEN <<a>> ELSE <<>>
           y == IF f.type = "TXT_MSG" THEN <<b>> ELSE <<>>
<1>1. Genuine(a, A, H)
  <2>1. a.type = "PATH"
    BY BuiltFrame DEF PathReturn
  <2> QED BY <2>1, OthersGenuine
<1>2. ASSUME f.type = "TXT_MSG" PROVE Genuine(b, A, H)
  <2>1. b.type = "ACK" /\ b.payload = ExpectedAck(f.payload.plain, f.payload.from)
    BY BuiltFrame DEF Ack
  <2>2. b.payload.sender = f.payload.from /\ b.payload.plain = f.payload.plain
    BY <2>1 DEF ExpectedAck
  <2>3. Sent(A, f.payload.from, n, f.payload.plain)
    BY <1>2 DEF Genuine
  <2> HIDE DEF b
  <2> QED BY <1>2, <2>1, <2>2, <2>3 DEF Genuine
<1>3. Answers(n, f) = x \o y
  BY DEF Answers
<1> HIDE DEF a, b
<1>4. x \in Seq({a, b}) /\ Len(x) \in Nat /\ \A i \in 1..Len(x) : x[i] = a
  <2>1. CASE f.route = "FLOOD"
    BY <2>1
  <2>2. CASE f.route # "FLOOD"
    BY <2>2
  <2> QED BY <2>1, <2>2
<1>5. y \in Seq({a, b}) /\ Len(y) \in Nat /\ \A i \in 1..Len(y) : y[i] = b /\ f.type = "TXT_MSG"
  <2>1. CASE f.type = "TXT_MSG"
    BY <2>1
  <2>2. CASE f.type # "TXT_MSG"
    BY <2>2
  <2> QED BY <2>1, <2>2
<1> HIDE DEF x, y
<1>6. /\ Len(x \o y) = Len(x) + Len(y)
      /\ \A i \in 1..Len(x) + Len(y) : (x \o y)[i] = IF i <= Len(x) THEN x[i] ELSE y[i - Len(x)]
  BY <1>4, <1>5, ConcatProperties
<1>7. ASSUME NEW i \in 1..Len(x \o y) PROVE Genuine((x \o y)[i], A, H)
  <2>1. CASE i <= Len(x)
    <3>1. i \in 1..Len(x) /\ (x \o y)[i] = x[i]
      BY <1>4, <1>5, <1>6, <2>1
    <3> QED BY <1>1, <1>4, <3>1
  <2>2. CASE ~(i <= Len(x))
    <3>1. i - Len(x) \in 1..Len(y) /\ (x \o y)[i] = y[i - Len(x)]
      BY <1>4, <1>5, <1>6, <2>2
    <3> QED BY <1>2, <1>5, <3>1
  <2> QED BY <2>1, <2>2
<1> QED
  BY <1>3, <1>7

LEMMA OnFrameReceipts ==
    ASSUME Inv, Receipts, NEW m \in air, NEW delay \in ForwardDelays,
           OnFrame(m.to, m.frame, delay)
    PROVE  Receipts'
<1> DEFINE n == m.to
           f == m.frame
           out == IF ForUs(n, f) /\ f.type # "ANON_REQ" THEN Answers(n, f) ELSE <<>>
           here == [to |-> n, frame |-> f]
           more == {[notBefore |-> now[n] + delay, frame |-> g] : g \in Forwarded(n, f)}
<1>1. n \in Nodes /\ IsFrame(f) /\ Genuine(f, sends, heard) /\ SendsReceipts /\ DOMAIN queue = Nodes
  BY DEF Inv, IndexedOK, ComesTo, FrameOK, Receipts, AllGenuine, SendsReceipts
<1>2. nextId' = nextId
  BY DEF OnFrame
<1>3. CASE AlreadySeen(n, f) \/ Echo(n, f)
  <2>1. air' = air \ {here} /\ UNCHANGED <<queue, pending, sends, heard>>
    BY <1>3 DEF OnFrame
  <2> HIDE DEF here
  <2>2. SendsReceipts'
    BY <1>1, <1>2, <2>1, StillReceipts
  <2>3. AllGenuine'
    BY <2>1 DEF Receipts, AllGenuine
  <2> QED BY <2>2, <2>3 DEF Receipts, SendsReceipts
<1>4. CASE ~AlreadySeen(n, f) /\ ~Echo(n, f)
  <2>1. /\ air' = (air \ {here}) \cup OnAir(n, {out[i] : i \in 1..Len(out)})
        /\ Handled(n, f)
        /\ queue' = [queue EXCEPT ![n] = queue[n] \cup more]
    BY <1>4 DEF OnFrame, Handled
  <2>2. SendsReceipts' /\ heard \subseteq heard' /\ AllSent(sends, sends')
    BY <1>1, <1>2, <2>1, HandledReceipts
  <2>3. \A i \in 1..Len(out) : Genuine(out[i], sends', heard')
    <3>1. CASE ForUs(n, f) /\ f.type # "ANON_REQ"
      <4>1. f.type \in {"TXT_MSG", "PATH"} /\ f.payload.to = n
        BY <3>1 DEF ForUs, Sealed
      <4>2. Deliver(n, f)
        BY <2>1, <3>1, <4>1 DEF Handled
      <4>3. f.type = "TXT_MSG" => <<n, f.payload.from, f.payload.plain>> \in heard'
        BY <4>2 DEF Deliver
      <4>4. Genuine(f, sends', heard')
        BY <1>1, <2>2, GenuineGrows
      <4> QED BY <1>1, <3>1, <4>1, <4>3, <4>4, AnswersGenuine
    <3>2. CASE ~(ForUs(n, f) /\ f.type # "ANON_REQ")
      <4>1. Len(<<>>) = 0
        OBVIOUS
      <4> QED BY <3>2, <4>1
    <3> QED BY <3>1, <3>2
  <2>4. \A d \in more : Genuine(d.frame, sends', heard')
    <3>1. Genuine(f, sends', heard')
      BY <1>1, <2>2, GenuineGrows
    <3> QED BY <1>1, <3>1, ForwardedGenuine
  <2> DEFINE F == {out[i] : i \in 1..Len(out)}
  <2>5. \A x \in OnAir(n, F) : Genuine(x.frame, sends', heard')
    <3>1. \A g \in F : Genuine(g, sends', heard')
      BY <2>3
    <3> HIDE DEF F
    <3> QED BY <3>1, OnAirGenuine
  <2>6. air' = (air \ {here}) \cup OnAir(n, F)
    BY <2>1
  <2> HIDE DEF F, here, more, out
  <2>7. ASSUME NEW x \in air' PROVE Genuine(x.frame, sends', heard')
    <3>1. CASE x \in OnAir(n, F)
      BY <2>5, <3>1
    <3>2. CASE x \in air
      <4>1. Genuine(x.frame, sends, heard)
        BY <3>2 DEF Receipts, AllGenuine
      <4> QED BY <2>2, <4>1, GenuineGrows
    <3> QED BY <2>6, <2>7, <3>1, <3>2
  <2>8. ASSUME NEW k \in Nodes, NEW d \in queue'[k] PROVE Genuine(d.frame, sends', heard')
    <3>1. d \in queue[k] \/ (k = n /\ d \in more)
      BY <1>1, <2>1, <2>8
    <3>2. CASE d \in queue[k]
      <4>1. Genuine(d.frame, sends, heard)
        BY <3>2 DEF Receipts, AllGenuine
      <4> QED BY <2>2, <4>1, GenuineGrows
    <3> QED BY <2>4, <3>1, <3>2
  <2>9. AllGenuine'
    BY <2>7, <2>8 DEF AllGenuine
  <2> QED BY <2>2, <2>9 DEF Receipts, SendsReceipts
<1> QED
  BY <1>3, <1>4

LEMMA TickReceipts ==
    ASSUME Inv, Receipts, NEW n \in Nodes, NEW t \in 0..MaxTime, Tick(n, t)
    PROVE  Receipts'
<1> DEFINE late(e) == e.deadline <= t
           again(e) == IF ~late(e) THEN e
                       ELSE [e EXCEPT !.attempts = @ + 1,
                                      !.deadline = t + IF e.frame.route = "FLOOD"
                                                       THEN FloodAckTimeout ELSE DirectAckBase]
           old == pending[n]
           places == (1..Len(old)) \ Failing(n, t)
           kept == Keep(old, places)
           new == [i \in 1..Len(kept) |-> again(kept[i])]
           ids == {e.id : e \in {old[i] : i \in Failing(n, t)}}
           retried == {kept[i].frame : i \in {j \in 1..Len(kept) : late(kept[j])}}
           due == {d.frame : d \in {q \in queue[n] : q.notBefore <= t}}
<1>1. /\ queue' = [queue EXCEPT ![n] = {d \in queue[n] : ~(d.notBefore <= t)}]
      /\ pending' = [pending EXCEPT ![n] = new]
      /\ sends' = Fated(sends, n, ids, "failed")
      /\ air' = air \cup OnAir(n, due \cup retried)
      /\ UNCHANGED <<nextId, heard>>
  BY DEF Tick, Fated
<1>2. /\ DOMAIN pending = Nodes /\ DOMAIN queue = Nodes /\ IsList(old) /\ EntriesOK(n, old, nextId[n])
      /\ \A k \in Nodes : ExpectsOK(k, pending[k], sends, heard)
      /\ \A x \in sends : DOMAIN x = {"from", "id", "to", "text", "fate"}
  BY DEF Inv, IndexedOK, EntriesOK, SendsOK, Receipts
<1>3. ASSUME NEW e, IsEntry(e)
      PROVE  /\ again(e).id = e.id /\ again(e).frame = e.frame /\ again(e).expectedAck = e.expectedAck
  <2>1. CASE ~late(e)
    BY <1>3, <2>1
  <2>2. CASE late(e)
    BY <1>3, <2>2 DEF IsEntry
  <2> QED BY <2>1, <2>2
<1>4. new = [i \in 1..Len(kept) |-> new[i]] /\ \A i \in 1..Len(kept) : new[i] = again(kept[i])
  OBVIOUS
<1> HIDE DEF again, late, new
<1>5. /\ Len(kept) \in Nat /\ \A i \in 1..Len(kept) : \E j \in 1..Len(old) : kept[i] = old[j]
  <2> HIDE DEF places, old
  <2> QED BY <1>2, ListKeep, ListFacts
<1> HIDE DEF kept
<1>6. Len(new) = Len(kept)
  BY <1>4, <1>5, ListOf
<1>7. ExpectsOK(n, new, sends, heard) /\ \A i \in 1..Len(kept) : Genuine(kept[i].frame, sends, heard)
  <2>1. ExpectsOK(n, old, sends, heard) /\ \A j \in 1..Len(old) : IsEntry(old[j])
    BY <1>2 DEF EntriesOK
  <2> HIDE DEF old
  <2>2. ASSUME NEW i \in 1..Len(new)
        PROVE  \E j \in 1..Len(old) :
                   /\ new[i].frame = old[j].frame /\ new[i].id = old[j].id
                   /\ new[i].expectedAck = old[j].expectedAck
    <3>1. i \in 1..Len(kept)
      BY <1>6
    <3>2. PICK j \in 1..Len(old) : kept[i] = old[j]
      BY <1>5, <3>1
    <3>3. new[i] = again(old[j]) /\ IsEntry(old[j])
      BY <1>4, <2>1, <3>1, <3>2
    <3> QED BY <1>3, <3>3
  <2>3. ExpectsOK(n, new, sends, heard)
    BY <2>1, <2>2, ExpectsFewer
  <2>4. \A i \in 1..Len(kept) : Genuine(kept[i].frame, sends, heard)
    BY <1>5, <2>1 DEF ExpectsOK
  <2> QED BY <2>3, <2>4
<1>13. AllSent(sends, sends') /\ heard \subseteq heard
  <2> HIDE DEF ids
  <2> QED BY <1>1, <1>2, FatedAll
<1>8. SentOK'
  <2> HIDE DEF ids
  <2> QED BY <1>1, FatedSent DEF Receipts
<1>9. ASSUME NEW k \in Nodes PROVE ExpectsOK(k, pending'[k], sends', heard')
  <2>1. pending'[k] = IF k = n THEN new ELSE pending[k]
    BY <1>1, <1>2
  <2>2. ExpectsOK(k, pending'[k], sends, heard) /\ heard \subseteq heard /\ heard' = heard
    BY <1>1, <1>2, <1>7, <2>1
  <2> HIDE DEF ids
  <2> QED BY <1>1, <1>2, <2>2, FatedExpects
<1>10. AllGenuine'
  <2>1. \A g \in due \cup retried : Genuine(g, sends, heard)
    <3>1. \A g \in due : Genuine(g, sends, heard)
      BY DEF Receipts, AllGenuine
    <3>2. \A g \in retried : Genuine(g, sends, heard)
      BY <1>7
    <3> QED BY <3>1, <3>2
  <2> HIDE DEF due, retried
  <2>2. \A x \in OnAir(n, due \cup retried) : Genuine(x.frame, sends, heard)
    BY <2>1, OnAirGenuine
  <2>3. ASSUME NEW k \in Nodes PROVE queue'[k] \subseteq queue[k]
    BY <1>1, <1>2
  <2>4. \A x \in air' : Genuine(x.frame, sends, heard)
    BY <1>1, <2>2 DEF Receipts, AllGenuine
  <2>5. \A k \in Nodes : \A d \in queue'[k] : Genuine(d.frame, sends, heard)
    BY <2>3 DEF Receipts, AllGenuine
  <2>6. \A f : Genuine(f, sends, heard) => Genuine(f, sends', heard)
    BY <1>13, GenuineGrows
  <2> QED BY <1>1, <2>4, <2>5, <2>6 DEF AllGenuine
<1>11. ASSUME NEW s \in sends', s.fate = "acked"
       PROVE  \E r : <<r, s.from, s.text>> \in heard /\ Sent(sends', s.from, r, s.text)
  <2> HIDE DEF ids
  <2>1. PICK x \in sends :
            /\ s.from = x.from /\ s.id = x.id /\ s.to = x.to /\ s.text = x.text
            /\ s.fate = x.fate \/ s.fate = "failed"
    BY <1>1, <1>2, <1>11, FatedFrom
  <2>2. PICK r : <<r, x.from, x.text>> \in heard /\ Sent(sends, x.from, r, x.text)
    BY <1>11, <2>1 DEF Receipts, AckedIsHeard
  <2>3. Sent(sends', x.from, r, x.text)
    BY <1>13, <2>2 DEF AllSent, Sent
  <2> QED BY <2>1, <2>2, <2>3
<1>12. AckedIsHeard'
  BY <1>1, <1>11 DEF AckedIsHeard
<1> QED
  BY <1>8, <1>9, <1>10, <1>12 DEF Receipts

LEMMA SendFloodReceipts ==
    ASSUME Receipts, NEW n, NEW type \in {"ANON_REQ", "ADVERT", "TRACE"}, NEW payload,
           type = "ANON_REQ" => IsLogin(payload), SendFlood(n, type, payload)
    PROVE  Receipts'
<1> DEFINE frame == Frame(type, "FLOOD", <<>>, payload)
<1>1. air' = air \cup OnAir(n, {frame}) /\ UNCHANGED <<nextId, queue, pending, sends, heard>>
  BY DEF SendFlood
<1>2. frame.type = type /\ frame.payload = payload
  BY DEF Frame
<1> HIDE DEF frame
<1>3. \A f \in {frame} : Genuine(f, sends, heard)
  BY <1>2, OthersGenuine DEF Genuine
<1>4. \A x \in OnAir(n, {frame}) : Genuine(x.frame, sends, heard)
  BY <1>3, OnAirGenuine
<1>5. AllGenuine'
  BY <1>1, <1>4 DEF Receipts, AllGenuine
<1> QED
  BY <1>1, <1>5 DEF Receipts, SentOK, AckedIsHeard

LEMMA NextReceipts == Inv /\ Receipts /\ [Next]_vars => Receipts'
<1> SUFFICES ASSUME Inv, Receipts, [Next]_vars PROVE Receipts'
  OBVIOUS
<1>1. ASSUME NEW s \in Traffic, SendDirect(s[1], s[2], s[3]) PROVE Receipts'
  <2>1. s[1] \in Nodes
    BY RouterAssumption
  <2> QED BY <1>1, <2>1, SendDirectReceipts
<1>2. ASSUME NEW n, NEW type \in {"ADVERT", "TRACE"}, NEW payload, SendFlood(n, type, payload)
      PROVE  Receipts'
  BY <1>2, SendFloodReceipts
<1>6. ASSUME NEW s \in Logins, SendFlood(s[1], "ANON_REQ", Envelope(s[1], s[2], s[3])) PROVE Receipts'
  BY <1>6, SendFloodReceipts DEF IsLogin
<1>3. ASSUME NEW m \in air, NEW delay \in ForwardDelays, OnFrame(m.to, m.frame, delay) PROVE Receipts'
  BY <1>3, OnFrameReceipts
<1>4. ASSUME NEW n \in Nodes, NEW t \in 0..MaxTime, Tick(n, t) PROVE Receipts'
  BY <1>4, TickReceipts
<1>5. ASSUME UNCHANGED vars PROVE Receipts'
  BY <1>5 DEF vars, Receipts, SentOK, AllGenuine, AckedIsHeard
<1> QED
  BY <1>1, <1>2, <1>3, <1>4, <1>5, <1>6 DEF Next

LEMMA InitReceipts == Init => Receipts
<1>1. Len(<<>>) = 0
  OBVIOUS
<1> QED
  BY <1>1 DEF Init, Receipts, SentOK, AllGenuine, AckedIsHeard, ExpectsOK

\* What an ack is worth, whoever sends what to whom: a send that is reported as
\* acknowledged has a text that was handed up at some node its sender sent it
\* to; through retries, late and repeated acks, and acks that other nodes carry
\* (handleAck, sendAck).
THEOREM AcksAreOfTexts == Spec => []AckedIsHeard
<1>1. Receipts => AckedIsHeard
  BY DEF Receipts
<1> QED
  BY <1>1, InitReceipts, NextReceipts, Invariance, PTL DEF Spec

-----------------------------------------------------------------------------
(* The table and the sends, whether or not there was room.                 *)

\* In the order of their ids, and all of them waiting.
ListOK(table, waiting) ==
    /\ \A i, j \in 1..Len(table) : i < j => table[i].id < table[j].id
    /\ IdsAt(table, 1..Len(table)) \subseteq waiting

\* An id of a node names one send.
OneEach(all) == \A s, x \in all : s.from = x.from /\ s.id = x.id => s = x

Listed == OneEach(sends) /\ \A n \in Nodes : ListOK(pending[n], WaitingIds(n, sends))

LEMMA ThinnedListed ==
    ASSUME NEW old, Len(old) \in Nat, NEW new, Len(new) \in Nat, NEW waiting, ListOK(old, waiting),
           \A i \in 1..Len(old) : old[i].id \in Nat,
           NEW places \in SUBSET (1..Len(old)), Thinned(new, old, places)
    PROVE  ListOK(new, waiting \ IdsAt(old, (1..Len(old)) \ places))
<1>1. PICK g \in [1..Len(new) -> places] :
          /\ \A i, j \in 1..Len(new) : i < j => g[i] < g[j]
          /\ \A i \in 1..Len(new) : Goes(new[i], old[g[i]])
  BY DEF Thinned
<1>2. \A i \in 1..Len(new) : g[i] \in places /\ g[i] \in 1..Len(old) /\ new[i].id = old[g[i]].id
  <2>1. \A i \in 1..Len(new) : g[i] \in places
    OBVIOUS
  <2>2. \A j \in places : j \in 1..Len(old)
    OBVIOUS
  <2> QED BY <1>1, <2>1, <2>2 DEF Goes
<1>3. ASSUME NEW i \in 1..Len(new), NEW j \in 1..Len(new), i < j PROVE new[i].id < new[j].id
  <2>1. g[i] < g[j]
    BY <1>1, <1>3
  <2> QED BY <1>2, <2>1 DEF ListOK
<1>4. \A i, j \in 1..Len(old) : old[i].id = old[j].id => i = j
  <2>1. \A i, j \in 1..Len(old) : i < j \/ j < i \/ i = j
    OBVIOUS
  <2>2. ASSUME NEW i \in 1..Len(old), NEW j \in 1..Len(old), old[i].id = old[j].id PROVE i = j
    <3>1. ~(old[i].id < old[j].id) /\ ~(old[j].id < old[i].id)
      BY <2>2
    <3> QED BY <2>1, <3>1 DEF ListOK
  <2> QED BY <2>2
<1>5. ASSUME NEW i \in 1..Len(new)
      PROVE  new[i].id \in waiting \ IdsAt(old, (1..Len(old)) \ places)
  <2>1. new[i].id \in waiting
    BY <1>2 DEF ListOK, IdsAt
  <2>2. ASSUME NEW j \in (1..Len(old)) \ places PROVE old[j].id # new[i].id
    BY <1>2, <1>4
  <2> QED BY <2>1, <2>2 DEF IdsAt
<1> QED
  BY <1>3, <1>5 DEF ListOK, IdsAt

LEMMA FatedOneEach ==
    ASSUME NEW all, OneEach(all), NEW n, NEW ids, NEW fate,
           \A x \in all : DOMAIN x = {"from", "id", "to", "text", "fate"}
    PROVE  OneEach(Fated(all, n, ids, fate))
<1> DEFINE told(s) == IF s.from = n /\ s.id \in ids THEN [s EXCEPT !.fate = fate] ELSE s
<1>1. ASSUME NEW x \in all PROVE told(x).from = x.from /\ told(x).id = x.id
  <2>1. CASE x.from = n /\ x.id \in ids
    BY <2>1
  <2>2. CASE ~(x.from = n /\ x.id \in ids)
    BY <2>2
  <2> QED BY <2>1, <2>2
<1>2. \A s \in Fated(all, n, ids, fate) : \E x \in all : s = told(x)
  BY DEF Fated
<1> HIDE DEF told
<1> QED
  BY <1>1, <1>2 DEF OneEach

\* One node's table has changed, and the sends as they should with it.
LEMMA ListedStep ==
    ASSUME Inv, Inv', Listed, NEW n \in Nodes, NEW places \in SUBSET (1..Len(pending[n])),
           NEW fate \in {"acked", "failed"}, Thinned(pending'[n], pending[n], places),
           sends' = Fated(sends, n, IdsAt(pending[n], (1..Len(pending[n])) \ places), fate),
           \A k \in Nodes : k # n => pending'[k] = pending[k]
    PROVE  Listed'
<1> DEFINE old == pending[n]
           ids == IdsAt(old, (1..Len(old)) \ places)
<1>1. /\ \A s \in sends : DOMAIN s = {"from", "id", "to", "text", "fate"}
      /\ Len(old) \in Nat /\ Len(pending'[n]) \in Nat /\ ListOK(old, WaitingIds(n, sends))
      /\ \A i \in 1..Len(old) : old[i].id \in Nat
  <2>1. nextId \in [Nodes -> Nat \ {0}] /\ EntriesOK(n, old, nextId[n])
    BY DEF Inv, IndexedOK
  <2>2. \A i \in 1..Len(old) : old[i].id \in Nat
    BY <2>1 DEF EntriesOK
  <2> QED BY <2>2, ListFacts DEF Inv, SendsOK, EntriesOK, Listed
<1> HIDE DEF old
<1>2. ListOK(pending'[n], WaitingIds(n, sends) \ ids)
  BY <1>1, ThinnedListed DEF old
<1>3. sends' = Fated(sends, n, ids, fate)
  BY DEF old
<1> HIDE DEF ids
<1>4. /\ WaitingIds(n, sends') = WaitingIds(n, sends) \ ids
      /\ \A k : k # n => WaitingIds(k, sends') = WaitingIds(k, sends)
  BY <1>1, <1>3, WaitingAfter
<1>5. OneEach(sends')
  BY <1>1, <1>3, FatedOneEach DEF Listed
<1>6. ASSUME NEW k \in Nodes PROVE ListOK(pending'[k], WaitingIds(k, sends'))
  <2>1. CASE k = n
    BY <1>2, <1>4, <2>1
  <2>2. CASE k # n
    BY <1>4, <2>2 DEF Listed
  <2> QED BY <2>1, <2>2
<1> QED
  BY <1>5, <1>6 DEF Listed

LEMMA HandleAckListed ==
    ASSUME Inv, Inv', Listed, NEW n \in Nodes, NEW f, HandleAck(n, f)
    PROVE  Listed'
<1>1. CASE Awaiting(n, f.payload) = {}
  <2>1. UNCHANGED <<pending, sends>>
    BY <1>1 DEF HandleAck
  <2> QED BY <2>1 DEF Listed
<1>2. CASE Awaiting(n, f.payload) # {}
  <2> DEFINE i == Min(Awaiting(n, f.payload))
             places == (1..Len(pending[n])) \ {i}
  <2>1. /\ i \in 1..Len(pending[n]) /\ Thinned(pending'[n], pending[n], places)
        /\ sends' = Fated(sends, n, {pending[n][i].id}, "acked")
        /\ \A k \in Nodes : k # n => pending'[k] = pending[k]
    BY <1>2, HandleAckThins
  <2> HIDE DEF i
  <2>2. /\ places \in SUBSET (1..Len(pending[n]))
        /\ IdsAt(pending[n], (1..Len(pending[n])) \ places) = {pending[n][i].id}
    BY <2>1 DEF IdsAt
  <2> HIDE DEF places
  <2> QED BY <2>1, <2>2, ListedStep
<1> QED
  BY <1>1, <1>2

LEMMA TickListed ==
    ASSUME Inv, Inv', Listed, NEW n \in Nodes, NEW t \in 0..MaxTime, Tick(n, t)
    PROVE  Listed'
<1> DEFINE L == Len(pending[n])
           places == (1..L) \ Failing(n, t)
<1>1. /\ Thinned(pending'[n], pending[n], places)
      /\ sends' = Fated(sends, n, IdsAt(pending[n], Failing(n, t)), "failed")
      /\ \A k \in Nodes : k # n => pending'[k] = pending[k]
  BY TickThins
<1>2. (1..L) \ places = Failing(n, t) /\ places \in SUBSET (1..L)
  BY DEF Failing
<1> HIDE DEF places
<1> QED
  BY <1>1, <1>2, ListedStep

LEMMA OnFrameListed ==
    ASSUME Inv, Inv', Listed, NEW m \in air, NEW delay, OnFrame(m.to, m.frame, delay)
    PROVE  Listed'
<1>1. UNCHANGED <<pending, sends>> \/ HandleAck(m.to, m.frame)
  BY DEF OnFrame, Deliver, DeliverAnon
<1>2. m.to \in Nodes
  BY DEF Inv
<1>3. UNCHANGED <<pending, sends>> => Listed'
  BY DEF Listed
<1> QED
  BY <1>1, <1>2, <1>3, HandleAckListed

LEMMA SendDirectListed ==
    ASSUME Inv, SentOK, Listed, NEW n \in Nodes, NEW to, NEW text, SendDirect(n, to, text)
    PROVE  Listed'
<1> DEFINE frame == BuildFrame(routes[n], "TXT_MSG", to, Envelope(n, to, text))
           entry == [id |-> nextId[n], expectedAck |-> ExpectedAck(text, n),
                     deadline |-> now[n] + Timeout(frame), attempts |-> 1,
                     to |-> to, frame |-> frame]
           send == [from |-> n, id |-> nextId[n], to |-> to, text |-> text, fate |-> "waiting"]
           old == pending[n]
           new == IF HasRoom(n) THEN Append(old, entry) ELSE old
<1>1. pending' = [pending EXCEPT ![n] = new] /\ sends' = sends \cup {send}
  BY DEF SendDirect
<1>2. /\ entry.id = nextId[n]
      /\ send.from = n /\ send.id = nextId[n] /\ send.fate = "waiting"
  OBVIOUS
<1> HIDE DEF entry, send
<1>3. /\ nextId[n] \in Nat \ {0} /\ DOMAIN pending = Nodes
      /\ IsList(old) /\ Len(old) \in Nat /\ ListOK(old, WaitingIds(n, sends))
      /\ \A i \in 1..Len(old) : old[i].id \in Nat /\ old[i].id < nextId[n]
  <2>1. nextId[n] \in Nat \ {0} /\ EntriesOK(n, old, nextId[n])
    BY DEF Inv, IndexedOK
  <2>2. \A i \in 1..Len(old) : old[i].id \in Nat /\ old[i].id < nextId[n]
    BY <2>1 DEF EntriesOK
  <2> QED BY <2>1, <2>2, ListFacts DEF Inv, IndexedOK, Listed, EntriesOK
<1>4. \A k : WaitingIds(k, sends) \subseteq WaitingIds(k, sends')
  BY <1>1 DEF WaitingIds
<1>5. nextId[n] \in WaitingIds(n, sends')
  BY <1>1, <1>2 DEF WaitingIds
<1>6. OneEach(sends')
  <2>1. ASSUME NEW s \in sends, s.from = n PROVE s.id # nextId[n]
    BY <1>3, <2>1 DEF SentOK
  <2> QED BY <1>1, <1>2, <2>1 DEF Listed, OneEach
<1>7. \A k \in Nodes : pending'[k] = IF k = n THEN new ELSE pending[k]
  BY <1>1, <1>3
<1> HIDE DEF old
<1>8. ListOK(new, WaitingIds(n, sends'))
  <2>1. CASE ~HasRoom(n)
    BY <1>3, <1>4, <2>1 DEF ListOK
  <2>2. CASE HasRoom(n)
    <3>1. /\ Len(new) = Len(old) + 1
          /\ \A i \in 1..Len(old) : new[i] = old[i]
          /\ new[Len(old) + 1] = entry
      BY <1>3, <2>2, ListAppend
    <3> HIDE DEF new
    <3>2. ASSUME NEW i \in 1..Len(new) PROVE i \in 1..Len(old) \/ i = Len(old) + 1
      BY <1>3, <3>1
    <3>3. ASSUME NEW i \in 1..Len(new), NEW j \in 1..Len(new), i < j PROVE new[i].id < new[j].id
      <4>1. i \in 1..Len(old)
        BY <1>3, <3>1, <3>3
      <4>2. CASE j \in 1..Len(old)
        BY <1>3, <3>1, <3>3, <4>1, <4>2 DEF ListOK
      <4>3. CASE j = Len(old) + 1
        BY <1>2, <1>3, <3>1, <4>1, <4>3
      <4> QED BY <3>2, <4>2, <4>3
    <3>4. ASSUME NEW i \in 1..Len(new) PROVE new[i].id \in WaitingIds(n, sends')
      <4>1. CASE i \in 1..Len(old)
        BY <1>3, <1>4, <3>1, <4>1 DEF ListOK, IdsAt
      <4>2. CASE i = Len(old) + 1
        BY <1>2, <1>5, <3>1, <4>2
      <4> QED BY <3>2, <4>1, <4>2
    <3> QED BY <3>3, <3>4 DEF ListOK, IdsAt
  <2> QED BY <2>1, <2>2
<1> HIDE DEF new
<1>9. ASSUME NEW k \in Nodes PROVE ListOK(pending'[k], WaitingIds(k, sends'))
  <2>1. CASE k = n
    BY <1>7, <1>8, <2>1
  <2>2. CASE k # n
    BY <1>4, <1>7, <2>2 DEF Listed, ListOK
  <2> QED BY <2>1, <2>2
<1> QED
  BY <1>6, <1>9 DEF Listed

LEMMA InitListed == Init => Listed
<1>1. Len(<<>>) = 0
  OBVIOUS
<1> QED
  BY <1>1 DEF Init, Listed, OneEach, ListOK, IdsAt
=============================================================================
