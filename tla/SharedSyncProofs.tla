-------------------------- MODULE SharedSyncProofs --------------------------
(***************************************************************************)
(* Proofs about the cards, hand levels and money that the players of a run *)
(* share.  A connection keeps its order, so what a game will be like when  *)
(* it has read its mail is known before it reads it: the invariant says    *)
(* of that game, of every player, that it agrees with the server's book,   *)
(* and that the server knows its money or is about to be told.  The start  *)
(* of a run divides the mail: nothing before it counts.                    *)
(***************************************************************************)
EXTENDS SharedSync, FiniteSetTheorems, TLAPS

\* the run the server runs, or ran last
Run == seen.runs

\* the start of run n waits in d
Waits(d, n) == \E i \in 1 .. Len(d) : d[i].type = "start" /\ d[i].run = n

\* what of d will be read in run n
Fresh(d, n) ==
  {i \in 1 .. Len(d) : \A j \in i .. Len(d) : ~(d[j].type = "start" /\ d[j].run = n)}

\* the news of k among it
News(d, n, k) == {i \in Fresh(d, n) : d[i].type = "entry" /\ d[i].key = k}

\* the player will read its mail in the run, or reads it in the run already
Heading(p) ==
  /\ server.running /\ p \in server.inMatch
  /\ client[p].run = Run \/ Waits(down[p], Run)

\* what the game has of k when it starts to read what is fresh
Base(p, k) == IF Waits(down[p], Run) THEN Start ELSE client[p].copy[k]

\* A game that has base and reads d ends with what the book says, e.  An
\* absent player has lost its mail and will be sent the book.
Follows(d, n, k, base, e, present) ==
  /\ e = NoEntry => News(d, n, k) = {} /\ base = Start
  /\ present /\ e # NoEntry =>
       \/ News(d, n, k) = {} /\ base = e
       \/ \E i \in News(d, n, k) : d[i].val = e /\ \A j \in News(d, n, k) : j <= i
  /\ base = Gone => e = Gone /\ \A i \in News(d, n, k) : d[i].val = Gone
  /\ \A i, j \in News(d, n, k) : i < j /\ d[i].val = Gone => d[j].val = Gone
  /\ \A i \in News(d, n, k) : d[i].val = Gone => e = Gone

\* a game that has base and reads d has removed k in the end
Removes(d, n, k, base) ==
  base = Gone \/ \E i \in News(d, n, k) : d[i].val = Gone

\* a report of the player's money in run n
Tells(m, n) == m.type = "money" /\ m.run = n

\* the last report of the run in u tells wallet; without one the server knows
Told(u, n, wallet, known) ==
  /\ \A i \in 1 .. Len(u) :
       u[i].run = n /\ (\A j \in (i + 1) .. Len(u) : ~Tells(u[j], n)) =>
         /\ u[i].type = "money" => u[i].amount = wallet
         /\ u[i].type = "give" => u[i].money = wallet
  /\ (\A i \in 1 .. Len(u) : ~Tells(u[i], n)) => known

------------------------------------------------------------------------------
(* The invariant: of a player p, and of the server *)

\* Runs are started in order, and nobody plays or reports one that it has yet
\* to read of.
Numbered(p) ==
  /\ client[p].run <= Run
  /\ \A i \in 1 .. Len(up[p]) : up[p][i].run <= Run
  /\ \A i \in 1 .. Len(down[p]) : down[p][i].type = "start" =>
       /\ down[p][i].run <= Run
       /\ client[p].run < down[p][i].run
       /\ \A j \in 1 .. Len(up[p]) : up[p][j].run < down[p][i].run
  /\ \A i, j \in 1 .. Len(down[p]) :
       i < j /\ down[p][i].type = "start" /\ down[p][j].type = "start" =>
         down[p][i].run < down[p][j].run

\* nothing is under way to and from an absent player
Absent(p) == p \notin server.seated => up[p] = <<>> /\ down[p] = <<>>

\* A report of the run is one of an entry the player wrote, and what it
\* removed is gone from its game.
OwnReports(p) ==
  \A i \in 1 .. Len(up[p]) : up[p][i].type = "entry" =>
    /\ up[p][i].val = Gone => up[p][i].key \in Cards
    /\ server.running /\ up[p][i].run = Run /\ client[p].run = Run =>
         /\ up[p][i].key \in seen.wrote[p]
         /\ up[p][i].val = Gone => client[p].copy[up[p][i].key] = Gone

\* who only follows ends with what the book says
Following(p) ==
  \A k \in Keys :
    Heading(p) /\ k \notin seen.stray[p] /\ (Waits(down[p], Run) \/ k \notin seen.wrote[p]) =>
      Follows(down[p], Run, k, Base(p, k), server.book[BookOf(p, k)][k], p \in server.seated)

\* who is in the run has removed in the end what the book says is removed
Removing(p) ==
  \A k \in Cards :
    Heading(p) /\ p \in server.seated /\ k \notin seen.stray[p] /\ server.book[GLOBAL][k] = Gone =>
      Removes(down[p], Run, k, Base(p, k))

\* Who returns reads the replayed entries first and reports nothing before.
MoneyFirst(p) ==
  \A i \in 1 .. Len(down[p]) : down[p][i].type = "money" =>
    /\ up[p] = <<>>
    /\ \A j \in 1 .. (i - 1) : down[p][j].type = "entry"

\* A transfer is under way, which the game will answer with its money; or the
\* server knows the money the run starts with; or it sends what it knows; or
\* the game has told it.
MoneyKnown(p) ==
  Heading(p) /\ p \in server.seated =>
    \/ \E i \in Fresh(down[p], Run) : down[p][i].type = "delta"
    \/ /\ Waits(down[p], Run)
       /\ server.reported[p] = 0 \/ p \in seen.strayMoney
    \/ /\ ~Waits(down[p], Run)
       /\ \E i \in 1 .. Len(down[p]) :
            down[p][i].type = "money" /\ down[p][i].amount = server.reported[p]
    \/ /\ ~Waits(down[p], Run)
       /\ \A i \in 1 .. Len(down[p]) : down[p][i].type # "money"
       /\ Told(up[p], Run, client[p].wallet,
               server.reported[p] = client[p].wallet \/ p \in seen.strayMoney)

PlayerInv(p) ==
  /\ Numbered(p) /\ Absent(p) /\ OwnReports(p)
  /\ Following(p) /\ Removing(p)
  /\ MoneyFirst(p) /\ MoneyKnown(p)

Runs ==
  /\ seen.runs <= seen.events
  /\ server.running => seen.runs # 0

\* only cards are removed, and a book is finite
Books ==
  \A g \in Groups :
    /\ \A k \in Keys : server.book[g][k] = Gone => k \in Cards
    /\ IsFiniteSet({k \in Keys : server.book[g][k] # NoEntry})

SyncInv == TypeOK /\ Runs /\ Books /\ \A p \in Players : PlayerInv(p)

------------------------------------------------------------------------------
(* Mail *)

LEMMA Appended ==
  ASSUME NEW S, NEW d \in Seq(S), NEW m \in S
  PROVE  /\ Append(d, m) \in Seq(S) /\ Len(d) \in Nat
         /\ Len(Append(d, m)) = Len(d) + 1
         /\ Append(d, m)[Len(d) + 1] = m
         /\ \A i \in 1 .. Len(d) : Append(d, m)[i] = d[i]
OBVIOUS

LEMMA Tailed ==
  ASSUME NEW S, NEW d \in Seq(S), d # <<>>
  PROVE  /\ Tail(d) \in Seq(S) /\ Len(d) \in Nat \ {0}
         /\ Head(d) = d[1] /\ Head(d) \in S
         /\ Len(Tail(d)) = Len(d) - 1
         /\ \A i \in 1 .. Len(Tail(d)) : Tail(d)[i] = d[i + 1] /\ i + 1 \in 1 .. Len(d)
OBVIOUS

LEMMA WaitsAppend ==
  ASSUME NEW d \in Seq(Message), NEW m \in Message, NEW n
  PROVE  Waits(Append(d, m), n) <=> Waits(d, n) \/ (m.type = "start" /\ m.run = n)
<1> DEFINE e == Append(d, m)
<1>1. /\ Len(d) \in Nat /\ Len(e) = Len(d) + 1 /\ e[Len(d) + 1] = m
      /\ \A i \in 1 .. Len(d) : e[i] = d[i]
  BY Appended
<1> HIDE DEF e
<1>2. Waits(e, n) <=> Waits(d, n) \/ (m.type = "start" /\ m.run = n)
  <2>1. \A i : i \in 1 .. Len(e) <=> i \in 1 .. Len(d) \/ i = Len(d) + 1
    BY <1>1
  <2> QED BY <1>1, <2>1 DEF Waits
<1> QED BY <1>2 DEF e

LEMMA FreshAppend ==
  ASSUME NEW d \in Seq(Message), NEW m \in Message, NEW n
  PROVE  Fresh(Append(d, m), n) =
           IF m.type = "start" /\ m.run = n THEN {} ELSE Fresh(d, n) \cup {Len(d) + 1}
<1> DEFINE e == Append(d, m)
<1>1. /\ Len(d) \in Nat /\ Len(e) = Len(d) + 1 /\ e[Len(d) + 1] = m
      /\ \A i \in 1 .. Len(d) : e[i] = d[i]
  BY Appended
<1> HIDE DEF e
<1>2. CASE m.type = "start" /\ m.run = n
  <2>1. \A i \in 1 .. Len(e) : Len(e) \in i .. Len(e) /\ e[Len(e)] = m
    BY <1>1
  <2> QED BY <1>2, <2>1 DEF Fresh, e
<1>3. CASE ~(m.type = "start" /\ m.run = n)
  <2>1. ASSUME NEW i \in Fresh(e, n) PROVE i \in Fresh(d, n) \cup {Len(d) + 1}
    <3>1. i \in 1 .. Len(e) /\ \A j \in i .. Len(e) : ~(e[j].type = "start" /\ e[j].run = n)
      BY DEF Fresh
    <3>2. CASE i \in 1 .. Len(d)
      <4>1. \A j \in i .. Len(d) : j \in i .. Len(e) /\ j \in 1 .. Len(d)
        BY <1>1, <3>2
      <4> QED BY <1>1, <3>1, <3>2, <4>1 DEF Fresh
    <3> QED BY <1>1, <3>1, <3>2
  <2>2. ASSUME NEW i \in Fresh(d, n) \cup {Len(d) + 1} PROVE i \in Fresh(e, n)
    <3>1. i \in 1 .. Len(e)
      BY <1>1 DEF Fresh
    <3>2. ASSUME NEW j \in i .. Len(e) PROVE ~(e[j].type = "start" /\ e[j].run = n)
      <4>1. CASE j = Len(d) + 1
        BY <1>1, <1>3, <4>1
      <4>2. CASE j # Len(d) + 1
        <5>1. i \in Fresh(d, n) /\ j \in i .. Len(d) /\ j \in 1 .. Len(d)
          BY <1>1, <3>1, <4>2
        <5> QED BY <5>1, <1>1 DEF Fresh
      <4> QED BY <4>1, <4>2
    <3> QED BY <3>1, <3>2 DEF Fresh
  <2> QED BY <2>1, <2>2, <1>3 DEF e
<1> QED BY <1>2, <1>3

LEMMA FreshTail ==
  ASSUME NEW d \in Seq(Message), d # <<>>, NEW n
  PROVE  \A i : i \in Fresh(Tail(d), n) <=> i \in 1 .. Len(Tail(d)) /\ i + 1 \in Fresh(d, n)
<1> DEFINE e == Tail(d)
<1>1. /\ Len(d) \in Nat \ {0} /\ Len(e) = Len(d) - 1
      /\ \A i \in 1 .. Len(e) : e[i] = d[i + 1] /\ i + 1 \in 1 .. Len(d)
  BY Tailed
<1> HIDE DEF e
<1>2. ASSUME NEW i \in 1 .. Len(e)
      PROVE  (\A j \in i .. Len(e) : ~(e[j].type = "start" /\ e[j].run = n))
             <=> (\A j \in (i + 1) .. Len(d) : ~(d[j].type = "start" /\ d[j].run = n))
  <2>1. \A j \in i .. Len(e) : e[j] = d[j + 1] /\ j + 1 \in (i + 1) .. Len(d)
    BY <1>1
  <2>2. \A j \in (i + 1) .. Len(d) : j - 1 \in i .. Len(e) /\ e[j - 1] = d[j]
    BY <1>1
  <2> QED BY <2>1, <2>2
<1>3. \A i : i \in Fresh(e, n) <=> i \in 1 .. Len(e) /\ i + 1 \in Fresh(d, n)
  BY <1>1, <1>2 DEF Fresh
<1> QED BY <1>3 DEF e

\* reading what is not the awaited start
LEMMA WaitsTail ==
  ASSUME NEW d \in Seq(Message), d # <<>>, NEW n, ~(Head(d).type = "start" /\ Head(d).run = n)
  PROVE  Waits(Tail(d), n) <=> Waits(d, n)
<1> DEFINE e == Tail(d)
<1>1. /\ Len(d) \in Nat \ {0} /\ Len(e) = Len(d) - 1 /\ Head(d) = d[1]
      /\ \A i \in 1 .. Len(e) : e[i] = d[i + 1] /\ i + 1 \in 1 .. Len(d)
  BY Tailed
<1> HIDE DEF e
<1>2. \A j \in 1 .. Len(d) : j # 1 => j - 1 \in 1 .. Len(e) /\ e[j - 1] = d[j]
  BY <1>1
<1>3. Waits(e, n) <=> Waits(d, n)
  BY <1>1, <1>2 DEF Waits
<1> QED BY <1>3 DEF e

\* without an awaited start everything is fresh
LEMMA AllFresh ==
  ASSUME NEW d, NEW n, ~Waits(d, n), Len(d) \in Nat
  PROVE  Fresh(d, n) = 1 .. Len(d)
BY DEF Waits, Fresh

LEMMA EmptyMail ==
  ASSUME NEW n, NEW k
  PROVE  ~Waits(<<>>, n) /\ Fresh(<<>>, n) = {} /\ News(<<>>, n, k) = {}
BY DEF Waits, Fresh, News

------------------------------------------------------------------------------
(* News *)

LEMMA NewsAppend ==
  ASSUME NEW d \in Seq(Message), NEW m \in Message, NEW n, NEW k
  PROVE  /\ m.type = "start" /\ m.run = n => News(Append(d, m), n, k) = {}
         /\ ~(m.type = "start" /\ m.run = n) /\ ~(m.type = "entry" /\ m.key = k) =>
              News(Append(d, m), n, k) = News(d, n, k)
         /\ m.type = "entry" /\ m.key = k =>
              News(Append(d, m), n, k) = News(d, n, k) \cup {Len(d) + 1}
         /\ \A i \in News(d, n, k) : Append(d, m)[i] = d[i] /\ i \in 1 .. Len(d)
         /\ Append(d, m)[Len(d) + 1] = m /\ Len(d) \in Nat
<1>1. /\ Len(d) \in Nat /\ Append(d, m)[Len(d) + 1] = m
      /\ \A i \in 1 .. Len(d) : Append(d, m)[i] = d[i]
  BY Appended
<1>2. Fresh(d, n) \subseteq 1 .. Len(d)
  BY DEF Fresh
<1>3. m.type = "start" /\ m.run = n => News(Append(d, m), n, k) = {}
  BY FreshAppend DEF News
<1>4. ASSUME ~(m.type = "start" /\ m.run = n)
      PROVE  /\ ~(m.type = "entry" /\ m.key = k) => News(Append(d, m), n, k) = News(d, n, k)
             /\ m.type = "entry" /\ m.key = k =>
                  News(Append(d, m), n, k) = News(d, n, k) \cup {Len(d) + 1}
  <2>1. Fresh(Append(d, m), n) = Fresh(d, n) \cup {Len(d) + 1}
    BY <1>4, FreshAppend
  <2>2. \A i \in Fresh(d, n) : Append(d, m)[i] = d[i]
    BY <1>1, <1>2
  <2> QED BY <1>1, <2>1, <2>2 DEF News
<1> QED BY <1>1, <1>2, <1>3, <1>4 DEF News

LEMMA NewsTail ==
  ASSUME NEW d \in Seq(Message), d # <<>>, NEW n, NEW k
  PROVE  /\ \A i : i \in News(Tail(d), n, k) <=> i \in 1 .. Len(Tail(d)) /\ i + 1 \in News(d, n, k)
         /\ \A i \in News(Tail(d), n, k) : Tail(d)[i] = d[i + 1]
         /\ News(d, n, k) \subseteq 1 .. Len(d)
<1>1. \A i : i \in Fresh(Tail(d), n) <=> i \in 1 .. Len(Tail(d)) /\ i + 1 \in Fresh(d, n)
  BY FreshTail
<1>2. \A i \in 1 .. Len(Tail(d)) : Tail(d)[i] = d[i + 1]
  BY Tailed
<1> QED BY <1>1, <1>2 DEF News, Fresh

------------------------------------------------------------------------------
(* Following an entry *)

\* a message about something else
LEMMA FollowsOther ==
  ASSUME NEW d \in Seq(Message), NEW m \in Message, NEW n, NEW k, NEW base, NEW e, NEW present,
         ~(m.type = "start" /\ m.run = n), ~(m.type = "entry" /\ m.key = k),
         Follows(d, n, k, base, e, present)
  PROVE  Follows(Append(d, m), n, k, base, e, present)
<1> DEFINE d2 == Append(d, m)
<1>1. News(d2, n, k) = News(d, n, k) /\ \A i \in News(d, n, k) : d2[i] = d[i]
  BY NewsAppend
<1> HIDE DEF d2
<1>2. Follows(d2, n, k, base, e, present)
  BY <1>1 DEF Follows
<1> QED BY <1>2 DEF d2

\* a report the server took, which the book keeps; a removed card stays so
LEMMA FollowsEntry ==
  ASSUME NEW d \in Seq(Message), NEW m \in Message, NEW n, NEW k, NEW base, NEW e, NEW present,
         m.type = "entry", m.key = k, m.val # NoEntry, e = Gone => m.val = Gone, e # NoEntry => present,
         Follows(d, n, k, base, e, present)
  PROVE  Follows(Append(d, m), n, k, base, m.val, TRUE)
<1> DEFINE d2 == Append(d, m)
           l == Len(d) + 1
<1>1. /\ News(d2, n, k) = News(d, n, k) \cup {l}
      /\ \A i \in News(d, n, k) : d2[i] = d[i] /\ i \in 1 .. Len(d)
      /\ d2[l] = m /\ Len(d) \in Nat
  BY NewsAppend
<1>2. \A i \in News(d, n, k) : i < l
  BY <1>1
<1>3. l \in Nat
  BY <1>1
<1> HIDE DEF d2, l
<1>4. \E i \in News(d2, n, k) : d2[i].val = m.val /\ \A j \in News(d2, n, k) : j <= i
  <2>1. \A j \in News(d2, n, k) : j <= l
    BY <1>1, <1>2, <1>3
  <2> QED BY <1>1, <2>1
<1>5. base = Gone => m.val = Gone /\ \A i \in News(d2, n, k) : d2[i].val = Gone
  BY <1>1 DEF Follows
<1>6. ASSUME NEW i \in News(d2, n, k), NEW j \in News(d2, n, k), i < j, d2[i].val = Gone
      PROVE  d2[j].val = Gone
  <2>1. i \in News(d, n, k)
    BY <1>1, <1>2, <1>3, <1>6
  <2>2. e = Gone
    BY <1>1, <1>6, <2>1 DEF Follows
  <2> QED BY <1>1, <1>6, <2>1, <2>2 DEF Follows
<1>7. \A i \in News(d2, n, k) : d2[i].val = Gone => m.val = Gone
  BY <1>1 DEF Follows
<1>8. Follows(d2, n, k, base, m.val, TRUE)
  BY <1>4, <1>5, <1>6, <1>7 DEF Follows
<1> QED BY <1>8 DEF d2

\* a run starts, with an empty book
LEMMA FollowsStart ==
  ASSUME NEW d \in Seq(Message), NEW m \in Message, NEW n, NEW k, NEW present,
         m.type = "start", m.run = n
  PROVE  Follows(Append(d, m), n, k, Start, NoEntry, present)
<1>1. News(Append(d, m), n, k) = {}
  BY NewsAppend
<1> QED BY <1>1, SharedAssumption DEF Follows

\* reading what does not concern k
LEMMA FollowsReadOther ==
  ASSUME NEW d \in Seq(Message), d # <<>>, NEW n, NEW k, NEW base, NEW e, NEW present,
         1 \notin News(d, n, k), Follows(d, n, k, base, e, present)
  PROVE  Follows(Tail(d), n, k, base, e, present)
<1> DEFINE t == Tail(d)
<1>1. /\ \A i : i \in News(t, n, k) <=> i \in 1 .. Len(t) /\ i + 1 \in News(d, n, k)
      /\ \A i \in News(t, n, k) : t[i] = d[i + 1]
      /\ News(d, n, k) \subseteq 1 .. Len(d)
  BY NewsTail
<1>2. Len(d) \in Nat \ {0} /\ Len(t) = Len(d) - 1
  BY Tailed
<1> HIDE DEF t
<1>3. \A i \in News(d, n, k) : i - 1 \in News(t, n, k) /\ t[i - 1] = d[i]
  BY <1>1, <1>2
<1>4. \A i \in News(t, n, k) : i \in Nat /\ i + 1 \in News(d, n, k) /\ t[i] = d[i + 1]
  BY <1>1, <1>2
<1>5. News(d, n, k) = {} => News(t, n, k) = {}
  BY <1>4
<1>6. ASSUME NEW i \in News(d, n, k), d[i].val = e, \A j \in News(d, n, k) : j <= i
      PROVE  \E l \in News(t, n, k) : t[l].val = e /\ \A j \in News(t, n, k) : j <= l
  <2>1. i - 1 \in News(t, n, k) /\ t[i - 1].val = e
    BY <1>3, <1>6
  <2>2. \A j \in News(t, n, k) : j <= i - 1
    <3> TAKE j \in News(t, n, k)
    <3>1. j \in Nat /\ j + 1 <= i /\ i \in Nat
      BY <1>1, <1>2, <1>4, <1>6
    <3> QED BY <3>1
  <2> QED BY <2>1, <2>2
<1>7. ASSUME NEW i \in News(t, n, k), NEW j \in News(t, n, k), i < j, t[i].val = Gone
      PROVE  t[j].val = Gone
  <2>1. i + 1 < j + 1
    BY <1>4, <1>7
  <2> QED BY <1>4, <1>7, <2>1 DEF Follows
<1>8. Follows(t, n, k, base, e, present)
  BY <1>4, <1>5, <1>6, <1>7 DEF Follows
<1> QED BY <1>8 DEF t

\* reading a report of k: the game does not bring back what it removed
LEMMA FollowsRead ==
  ASSUME NEW d \in Seq(Message), d # <<>>, NEW n, NEW k, NEW base, NEW e,
         1 \in News(d, n, k), Follows(d, n, k, base, e, TRUE)
  PROVE  Follows(Tail(d), n, k, IF base = Gone THEN Gone ELSE Head(d).val, e, TRUE)
<1> DEFINE t == Tail(d)
           new == IF base = Gone THEN Gone ELSE Head(d).val
<1>1. /\ \A i : i \in News(t, n, k) <=> i \in 1 .. Len(t) /\ i + 1 \in News(d, n, k)
      /\ \A i \in News(t, n, k) : t[i] = d[i + 1]
      /\ News(d, n, k) \subseteq 1 .. Len(d)
  BY NewsTail
<1>2. Len(d) \in Nat \ {0} /\ Len(t) = Len(d) - 1 /\ Head(d) = d[1]
  BY Tailed
<1> HIDE DEF t
<1>3. \A i \in News(d, n, k) : i # 1 => i - 1 \in News(t, n, k) /\ t[i - 1] = d[i]
  BY <1>1, <1>2
<1>4. \A i \in News(t, n, k) :
        i \in Nat \ {0} /\ i + 1 \in News(d, n, k) /\ t[i] = d[i + 1] /\ 1 < i + 1
  BY <1>1, <1>2
<1>5. e # NoEntry
  BY DEF Follows
<1>6. PICK i \in News(d, n, k) : d[i].val = e /\ \A j \in News(d, n, k) : j <= i
  BY <1>5 DEF Follows
<1>7. (News(t, n, k) = {} /\ new = e)
      \/ \E l \in News(t, n, k) : t[l].val = e /\ \A j \in News(t, n, k) : j <= l
  <2>1. CASE i = 1
    <3>1. News(t, n, k) = {}
      <4> SUFFICES ASSUME NEW j \in News(t, n, k) PROVE FALSE
        OBVIOUS
      <4>1. j + 1 <= 1 /\ j \in Nat \ {0}
        BY <1>4, <1>6, <2>1
      <4> QED BY <4>1
    <3>2. new = e
      BY <1>2, <1>6, <2>1 DEF Follows
    <3> QED BY <3>1, <3>2
  <2>2. CASE i # 1
    <3>1. i - 1 \in News(t, n, k) /\ t[i - 1].val = e
      BY <1>3, <1>6, <2>2
    <3>2. \A j \in News(t, n, k) : j <= i - 1
      <4> TAKE j \in News(t, n, k)
      <4>1. j \in Nat /\ j + 1 <= i /\ i \in Nat
        BY <1>1, <1>2, <1>4, <1>6
      <4> QED BY <4>1
    <3> QED BY <3>1, <3>2
  <2> QED BY <2>1, <2>2
<1>8. ASSUME new = Gone PROVE e = Gone /\ \A j \in News(t, n, k) : t[j].val = Gone
  BY <1>2, <1>4, <1>8 DEF Follows
<1>9. ASSUME NEW l \in News(t, n, k), NEW j \in News(t, n, k), l < j, t[l].val = Gone
      PROVE  t[j].val = Gone
  <2>1. l + 1 < j + 1
    BY <1>4, <1>9
  <2> QED BY <1>4, <1>9, <2>1 DEF Follows
<1>10. \A j \in News(t, n, k) : t[j].val = Gone => e = Gone
  BY <1>4 DEF Follows
<1> HIDE DEF new
<1>11. Follows(t, n, k, new, e, TRUE)
  BY <1>5, <1>7, <1>8, <1>9, <1>10 DEF Follows
<1> QED BY <1>11 DEF t, new

\* Who is absent, and has no mail, has nothing that contradicts a newer entry.
LEMMA FollowsAbsent ==
  ASSUME NEW n, NEW k, NEW base, NEW e, NEW v,
         v # NoEntry, e = Gone => v = Gone, Follows(<<>>, n, k, base, e, FALSE)
  PROVE  Follows(<<>>, n, k, base, v, FALSE)
BY EmptyMail DEF Follows

------------------------------------------------------------------------------
(* Removing a card *)

LEMMA RemovesOther ==
  ASSUME NEW d \in Seq(Message), NEW m \in Message, NEW n, NEW k, NEW base,
         ~(m.type = "start" /\ m.run = n), Removes(d, n, k, base)
  PROVE  Removes(Append(d, m), n, k, base)
<1>1. News(d, n, k) \subseteq News(Append(d, m), n, k)
  <2>1. CASE m.type = "entry" /\ m.key = k
    <3>1. News(Append(d, m), n, k) = News(d, n, k) \cup {Len(d) + 1}
      BY <2>1, NewsAppend
    <3> QED BY <3>1
  <2>2. CASE ~(m.type = "entry" /\ m.key = k)
    <3>1. News(Append(d, m), n, k) = News(d, n, k)
      BY <2>2, NewsAppend
    <3> QED BY <3>1
  <2> QED BY <2>1, <2>2
<1>2. \A i \in News(d, n, k) : Append(d, m)[i] = d[i]
  BY NewsAppend
<1> QED BY <1>1, <1>2 DEF Removes

LEMMA RemovesEntry ==
  ASSUME NEW d \in Seq(Message), NEW m \in Message, NEW n, NEW k, NEW base,
         m.type = "entry", m.key = k, m.val = Gone
  PROVE  Removes(Append(d, m), n, k, base)
<1>1. News(Append(d, m), n, k) = News(d, n, k) \cup {Len(d) + 1}
  BY NewsAppend
<1>2. Append(d, m)[Len(d) + 1] = m
  BY NewsAppend
<1> QED BY <1>1, <1>2 DEF Removes

LEMMA RemovesReadOther ==
  ASSUME NEW d \in Seq(Message), d # <<>>, NEW n, NEW k, NEW base,
         1 \notin News(d, n, k), Removes(d, n, k, base)
  PROVE  Removes(Tail(d), n, k, base)
<1> DEFINE t == Tail(d)
<1>1. /\ \A i : i \in News(t, n, k) <=> i \in 1 .. Len(t) /\ i + 1 \in News(d, n, k)
      /\ \A i \in News(t, n, k) : t[i] = d[i + 1]
      /\ News(d, n, k) \subseteq 1 .. Len(d)
  BY NewsTail
<1>2. Len(d) \in Nat \ {0} /\ Len(t) = Len(d) - 1
  BY Tailed
<1> HIDE DEF t
<1>3. \A i \in News(d, n, k) : i - 1 \in News(t, n, k) /\ t[i - 1] = d[i]
  BY <1>1, <1>2
<1>4. Removes(t, n, k, base)
  BY <1>3 DEF Removes
<1> QED BY <1>4 DEF t

LEMMA RemovesRead ==
  ASSUME NEW d \in Seq(Message), d # <<>>, NEW n, NEW k, NEW base,
         Removes(d, n, k, base)
  PROVE  Removes(Tail(d), n, k, IF base = Gone THEN Gone ELSE Head(d).val)
<1> DEFINE t == Tail(d)
           new == IF base = Gone THEN Gone ELSE Head(d).val
<1>1. /\ \A i : i \in News(t, n, k) <=> i \in 1 .. Len(t) /\ i + 1 \in News(d, n, k)
      /\ \A i \in News(t, n, k) : t[i] = d[i + 1]
      /\ News(d, n, k) \subseteq 1 .. Len(d)
  BY NewsTail
<1>2. Len(d) \in Nat \ {0} /\ Len(t) = Len(d) - 1 /\ Head(d) = d[1]
  BY Tailed
<1>3. CASE base = Gone
  BY <1>3 DEF Removes
<1>4. ASSUME NEW i \in News(d, n, k), d[i].val = Gone PROVE Removes(t, n, k, new)
  <2>1. CASE i = 1
    BY <1>2, <1>4, <2>1 DEF Removes
  <2>2. CASE i # 1
    <3> HIDE DEF t
    <3>1. i - 1 \in News(t, n, k) /\ t[i - 1] = d[i]
      BY <1>1, <1>2, <2>2
    <3> QED BY <3>1, <1>4 DEF Removes
  <2> QED BY <2>1, <2>2
<1> QED BY <1>3, <1>4 DEF Removes

------------------------------------------------------------------------------
(* Telling the server of money *)

LEMMA ToldByReport ==
  ASSUME NEW u \in Seq(Report), NEW m \in Report, NEW n, NEW known, Tells(m, n)
  PROVE  Told(Append(u, m), n, m.amount, known)
<1> DEFINE v == Append(u, m)
<1>1. /\ Len(u) \in Nat /\ Len(v) = Len(u) + 1 /\ v[Len(u) + 1] = m
      /\ \A i \in 1 .. Len(u) : v[i] = u[i]
  BY Appended
<1> HIDE DEF v
<1>2. \A i \in 1 .. Len(u) : Len(v) \in (i + 1) .. Len(v) /\ Tells(v[Len(v)], n)
  BY <1>1
<1>3. Len(v) \in 1 .. Len(v) /\ Tells(v[Len(v)], n)
  BY <1>1
<1>4. \A i \in 1 .. Len(v) : i \in 1 .. Len(u) \/ v[i] = m
  BY <1>1
<1>5. Told(v, n, m.amount, known)
  <2>1. ASSUME NEW i \in 1 .. Len(v), v[i].run = n,
               \A j \in (i + 1) .. Len(v) : ~Tells(v[j], n)
        PROVE  /\ v[i].type = "money" => v[i].amount = m.amount
               /\ v[i].type = "give" => v[i].money = m.amount
    <3>1. v[i] = m
      BY <1>2, <1>4, <2>1
    <3> QED BY <3>1 DEF Tells
  <2> QED BY <2>1, <1>3 DEF Told
<1> QED BY <1>5 DEF v

\* a report of something else, an offer with the money the player has
LEMMA ToldOther ==
  ASSUME NEW u \in Seq(Report), NEW m \in Report, NEW n, NEW wallet, NEW known,
         ~Tells(m, n), m.type = "give" => m.money = wallet, Told(u, n, wallet, known)
  PROVE  Told(Append(u, m), n, wallet, known)
<1> DEFINE v == Append(u, m)
<1>1. /\ Len(u) \in Nat /\ Len(v) = Len(u) + 1 /\ v[Len(u) + 1] = m
      /\ \A i \in 1 .. Len(u) : v[i] = u[i]
  BY Appended
<1> HIDE DEF v
<1>2. ASSUME NEW i \in 1 .. Len(v), v[i].run = n, \A j \in (i + 1) .. Len(v) : ~Tells(v[j], n)
      PROVE  /\ v[i].type = "money" => v[i].amount = wallet
             /\ v[i].type = "give" => v[i].money = wallet
  <2>1. CASE i = Len(u) + 1
    BY <1>1, <1>2, <2>1 DEF Tells
  <2>2. CASE i # Len(u) + 1
    <3>1. i \in 1 .. Len(u) /\ u[i] = v[i]
      BY <1>1, <2>2
    <3>2. \A j \in (i + 1) .. Len(u) : ~Tells(u[j], n)
      <4> TAKE j \in (i + 1) .. Len(u)
      <4>1. j \in (i + 1) .. Len(v) /\ u[j] = v[j]
        BY <1>1, <3>1
      <4> QED BY <4>1, <1>2
    <3> QED BY <3>1, <3>2, <1>2 DEF Told
  <2> QED BY <2>1, <2>2
<1>3. ASSUME \A i \in 1 .. Len(v) : ~Tells(v[i], n) PROVE known
  <2>1. \A i \in 1 .. Len(u) : i \in 1 .. Len(v) /\ u[i] = v[i]
    BY <1>1
  <2> QED BY <2>1, <1>3 DEF Told
<1>4. Told(v, n, wallet, known)
  BY <1>2, <1>3 DEF Told
<1> QED BY <1>4 DEF v

\* the server takes a report
LEMMA ToldTaken ==
  ASSUME NEW u \in Seq(Report), u # <<>>, NEW n, NEW wallet, NEW known, NEW known2,
         Told(u, n, wallet, known),
         Tells(Head(u), n) /\ Head(u).amount = wallet => known2,
         ~Tells(Head(u), n) /\ known /\ (Head(u).type = "give" /\ Head(u).run = n => Head(u).money = wallet)
           => known2
  PROVE  Told(Tail(u), n, wallet, known2)
<1> DEFINE v == Tail(u)
<1>1. /\ Len(u) \in Nat \ {0} /\ Len(v) = Len(u) - 1 /\ Head(u) = u[1]
      /\ \A i \in 1 .. Len(v) : v[i] = u[i + 1] /\ i + 1 \in 1 .. Len(u)
  BY Tailed
<1> HIDE DEF v
<1>2. ASSUME NEW i \in 1 .. Len(v), v[i].run = n, \A j \in (i + 1) .. Len(v) : ~Tells(v[j], n)
      PROVE  /\ v[i].type = "money" => v[i].amount = wallet
             /\ v[i].type = "give" => v[i].money = wallet
  <2>1. \A j \in (i + 1) + 1 .. Len(u) : ~Tells(u[j], n)
    <3> TAKE j \in (i + 1) + 1 .. Len(u)
    <3>1. j - 1 \in (i + 1) .. Len(v) /\ v[j - 1] = u[j]
      BY <1>1
    <3> QED BY <3>1, <1>2
  <2>2. i + 1 \in 1 .. Len(u) /\ u[i + 1].run = n /\ u[i + 1] = v[i]
    BY <1>1, <1>2
  <2> QED BY <2>1, <2>2 DEF Told
<1>3. ASSUME \A i \in 1 .. Len(v) : ~Tells(v[i], n) PROVE known2
  <2>1. \A j \in 2 .. Len(u) : ~Tells(u[j], n)
    <3> TAKE j \in 2 .. Len(u)
    <3>1. j - 1 \in 1 .. Len(v) /\ v[j - 1] = u[j]
      BY <1>1
    <3> QED BY <3>1, <1>3
  <2>2. 1 \in 1 .. Len(u) /\ \A j \in 1 .. Len(u) : j = 1 \/ j \in 2 .. Len(u)
    BY <1>1
  <2>3. u[1].run = n => /\ u[1].type = "money" => u[1].amount = wallet
                        /\ u[1].type = "give" => u[1].money = wallet
    <3>1. \A j \in (1 + 1) .. Len(u) : ~Tells(u[j], n)
      BY <2>1
    <3> QED BY <2>2, <3>1 DEF Told
  <2>4. CASE Tells(Head(u), n)
    BY <1>1, <2>3, <2>4 DEF Tells
  <2>5. CASE ~Tells(Head(u), n)
    <3>1. \A i \in 1 .. Len(u) : ~Tells(u[i], n)
      BY <1>1, <2>1, <2>2, <2>5
    <3>2. known
      BY <3>1 DEF Told
    <3> QED BY <1>1, <2>3, <2>5, <3>2
  <2> QED BY <2>4, <2>5
<1>4. Told(v, n, wallet, known2)
  BY <1>2, <1>3 DEF Told
<1> QED BY <1>4 DEF v

\* no report of the run is under way
LEMMA ToldNothing ==
  ASSUME NEW u, NEW n, NEW wallet, NEW known, known, \A i \in 1 .. Len(u) : u[i].run # n
  PROVE  Told(u, n, wallet, known)
BY DEF Told

------------------------------------------------------------------------------
(* Types *)

LEMMA ReportFacts ==
  ASSUME NEW m \in Report
  PROVE  /\ m.run \in Nat
         /\ m.type \in {"entry", "money", "give"}
         /\ m.type = "entry" => m.key \in Keys /\ m.val \in Data \cup {Gone}
         /\ m.type = "money" => m.amount \in Int
         /\ m.type = "give" => m.to \in Players /\ m.amount \in Nat /\ m.money \in Int
         /\ m.type = "entry" => m \in Message
BY DEF Report, Message

LEMMA MessageFacts ==
  ASSUME NEW m \in Message
  PROVE  /\ m.type \in {"entry", "delta", "money", "start", "over"}
         /\ m.type = "entry" => m.key \in Keys /\ m.val \in Data \cup {Gone}
         /\ m.type \in {"delta", "money"} => m.amount \in Int
         /\ m.type = "start" => m.run \in Nat
BY DEF Message

LEMMA EntryFacts ==
  ASSUME NEW run \in Nat, NEW k \in Keys, NEW v \in Data \cup {Gone}
  PROVE  /\ Entry(run, k, v) \in Report /\ Entry(run, k, v) \in Message
         /\ Entry(run, k, v).type = "entry" /\ Entry(run, k, v).run = run
         /\ Entry(run, k, v).key = k /\ Entry(run, k, v).val = v
BY DEF Entry, Report, Message

Lobby ==
  [running : BOOLEAN, seated : SUBSET Players, inMatch : SUBSET Players,
   book : [Groups -> [Keys -> Data \cup {Gone, NoEntry}]], reported : [Players -> Int]]

Game == [run : Nat, copy : [Keys -> Data \cup {Gone}], wallet : Int]

History ==
  [wrote : [Players -> SUBSET Keys], stray : [Players -> SUBSET Keys],
   strayMoney : SUBSET Players, runs : 0 .. MaxEvents, events : 0 .. MaxEvents]

LEMMA Types ==
  TypeOK <=> /\ server \in Lobby /\ client \in [Players -> Game]
             /\ up \in [Players -> Seq(Report)] /\ down \in [Players -> Seq(Message)]
             /\ seen \in History
BY DEF TypeOK, Lobby, Game, History

LEMMA BookFacts ==
  ASSUME NEW p \in Players, NEW k \in Keys
  PROVE  BookOf(p, k) \in Groups /\ (k \in Cards => BookOf(p, k) = GLOBAL) /\ GLOBAL \in Groups
BY DEF BookOf, Groups

------------------------------------------------------------------------------
(* The replay of a book *)

LEMMA SetToSeqFacts ==
  ASSUME NEW S, IsFiniteSet(S)
  PROVE  LET s == SetToSeq(S) IN
         /\ s \in Seq(S)
         /\ \A i, j \in 1 .. Len(s) : s[i] = s[j] => i = j
         /\ \A x \in S : \E i \in 1 .. Len(s) : s[i] = x
<1> DEFINE n == Cardinality(S)
           s == SetToSeq(S)
<1>1. n \in Nat /\ ExistsBijection(1 .. n, S)
  BY FS_CardinalityType
<1>2. PICK f : f \in Bijection(1 .. n, S)
  BY <1>1 DEF ExistsBijection
<1>3. f \in [1 .. n -> S] /\ IsInjective(f)
  BY <1>2 DEF Bijection, Injection
<1>4. s \in [1 .. n -> S] /\ IsInjective(s)
  BY <1>3 DEF SetToSeq
<1> HIDE DEF s
<1>5. s \in Injection(1 .. n, S)
  BY <1>4 DEF Injection
<1>6. IsFiniteSet(1 .. n) /\ Cardinality(1 .. n) = n
  <2>1. n \in Int /\ 1 \in Int
    BY <1>1
  <2> QED BY <2>1, <1>1, FS_Interval
<1>7. s \in Surjection(1 .. n, S)
  BY <1>5, <1>6, FS_Injection
<1>8. \A x \in S : \E i \in 1 .. n : s[i] = x
  BY <1>7 DEF Surjection
<1>9. s \in Seq(S) /\ Len(s) = n
  BY <1>1, <1>4
<1>10. \A i, j \in 1 .. n : s[i] = s[j] => i = j
  BY <1>4 DEF IsInjective
<1> QED BY <1>8, <1>9, <1>10 DEF s

LEMMA ReplayFacts ==
  ASSUME TypeOK, Books, NEW p \in Players
  PROVE  LET r == Replay(p) IN
         /\ r \in Seq(Message) /\ Len(r) \in Nat
         /\ \A i \in 1 .. Len(r) :
              /\ r[i].type = "entry" /\ r[i].key \in Entries(p)
              /\ r[i].val = server.book[BookOf(p, r[i].key)][r[i].key]
         /\ \A i, j \in 1 .. Len(r) : r[i].key = r[j].key => i = j
         /\ \A k \in Entries(p) : \E i \in 1 .. Len(r) : r[i].key = k
<1> DEFINE keys == SetToSeq(Entries(p))
           r == Replay(p)
<1>1. IsFiniteSet(Entries(p))
  <2>1. Entries(p) \subseteq
          {k \in Keys : server.book[GLOBAL][k] # NoEntry}
          \cup {k \in Keys : server.book[Group[p]][k] # NoEntry}
    BY DEF Entries, BookOf
  <2>2. /\ IsFiniteSet({k \in Keys : server.book[GLOBAL][k] # NoEntry})
        /\ IsFiniteSet({k \in Keys : server.book[Group[p]][k] # NoEntry})
    BY DEF Books, Groups
  <2>3. IsFiniteSet({k \in Keys : server.book[GLOBAL][k] # NoEntry}
                    \cup {k \in Keys : server.book[Group[p]][k] # NoEntry})
    BY <2>2, FS_Union
  <2> QED BY <2>1, <2>3, FS_Subset
<1>2. /\ keys \in Seq(Entries(p))
      /\ \A i, j \in 1 .. Len(keys) : keys[i] = keys[j] => i = j
      /\ \A x \in Entries(p) : \E i \in 1 .. Len(keys) : keys[i] = x
  BY <1>1, SetToSeqFacts
<1>3. r = [i \in DOMAIN keys |-> Entry(seen.runs, keys[i], server.book[BookOf(p, keys[i])][keys[i]])]
  BY DEF Replay
<1> HIDE DEF keys, r
<1>4. DOMAIN keys = 1 .. Len(keys) /\ Len(keys) \in Nat
      /\ \A i \in 1 .. Len(keys) : keys[i] \in Entries(p)
  BY <1>2
<1>5. ASSUME NEW i \in 1 .. Len(keys)
      PROVE  /\ r[i] \in Message /\ r[i].type = "entry" /\ r[i].key = keys[i]
             /\ r[i].val = server.book[BookOf(p, keys[i])][keys[i]]
  <2>1. keys[i] \in Keys /\ server.book[BookOf(p, keys[i])][keys[i]] # NoEntry
    BY <1>4 DEF Entries
  <2>2. server.book[BookOf(p, keys[i])][keys[i]] \in Data \cup {Gone}
    BY <2>1, BookFacts DEF TypeOK
  <2>3. seen.runs \in Nat
    BY SharedAssumption DEF TypeOK
  <2> QED BY <1>3, <1>4, <2>1, <2>2, <2>3, EntryFacts
<1>6. r \in [1 .. Len(keys) -> Message]
  BY <1>3, <1>4, <1>5
<1>7. r \in Seq(Message) /\ Len(r) = Len(keys)
  BY <1>4, <1>6
<1>8. /\ r \in Seq(Message) /\ Len(r) \in Nat
      /\ \A i \in 1 .. Len(r) :
           /\ r[i].type = "entry" /\ r[i].key \in Entries(p)
           /\ r[i].val = server.book[BookOf(p, r[i].key)][r[i].key]
      /\ \A i, j \in 1 .. Len(r) : r[i].key = r[j].key => i = j
      /\ \A k \in Entries(p) : \E i \in 1 .. Len(r) : r[i].key = k
  BY <1>2, <1>4, <1>5, <1>7
<1> QED BY <1>8 DEF r

\* Who is sent the book, and its money, follows it: what it removed before is
\* removed, and what is not in the book is as the run started.
LEMMA FollowsReplay ==
  ASSUME TypeOK, Books, NEW p \in Players, NEW m \in Message, m.type = "money", NEW n,
         NEW k \in Keys, NEW base,
         server.book[BookOf(p, k)][k] = NoEntry => base = Start,
         base = Gone => server.book[BookOf(p, k)][k] = Gone
  PROVE  Follows(Append(Replay(p), m), n, k, base, server.book[BookOf(p, k)][k], TRUE)
<1> DEFINE r == Replay(p)
           e == server.book[BookOf(p, k)][k]
<1>1. /\ r \in Seq(Message) /\ Len(r) \in Nat
      /\ \A i \in 1 .. Len(r) :
           /\ r[i].type = "entry" /\ r[i].key \in Entries(p)
           /\ r[i].val = server.book[BookOf(p, r[i].key)][r[i].key]
      /\ \A i, j \in 1 .. Len(r) : r[i].key = r[j].key => i = j
      /\ \A x \in Entries(p) : \E i \in 1 .. Len(r) : r[i].key = x
  BY ReplayFacts
<1> HIDE DEF r
<1>2. Fresh(r, n) = 1 .. Len(r)
  <2>1. ~Waits(r, n)
    BY <1>1 DEF Waits
  <2> QED BY <1>1, <2>1, AllFresh
<1>3. \A i \in News(r, n, k) : i \in 1 .. Len(r) /\ r[i].key = k /\ r[i].val = e
  BY <1>1, <1>2 DEF News
<1>4. Follows(r, n, k, base, e, TRUE)
  <2>1. CASE e = NoEntry
    <3>1. k \notin Entries(p)
      BY <2>1 DEF Entries
    <3>2. News(r, n, k) = {}
      BY <3>1, <1>1, <1>3
    <3>3. base # Gone
      BY <2>1, SharedAssumption
    <3> HIDE DEF e
    <3> QED BY <2>1, <3>2, <3>3 DEF Follows, e
  <2>2. CASE e # NoEntry
    <3>1. k \in Entries(p)
      BY <2>2 DEF Entries
    <3>2. PICK i \in 1 .. Len(r) : r[i].key = k
      BY <1>1, <3>1
    <3>3. News(r, n, k) = {i}
      BY <1>1, <1>2, <3>2 DEF News
    <3>4. r[i].val = e /\ i \in Nat
      BY <1>1, <3>2
    <3> HIDE DEF e
    <3> QED BY <2>2, <3>3, <3>4 DEF Follows, e
  <2> QED BY <2>1, <2>2
<1> QED BY <1>1, <1>4, FollowsOther DEF r

LEMMA RemovesReplay ==
  ASSUME TypeOK, Books, NEW p \in Players, NEW m \in Message, m.type = "money", NEW n,
         NEW k \in Cards, NEW base, server.book[GLOBAL][k] = Gone
  PROVE  Removes(Append(Replay(p), m), n, k, base)
<1> DEFINE r == Replay(p)
<1>1. /\ r \in Seq(Message) /\ Len(r) \in Nat
      /\ \A i \in 1 .. Len(r) :
           /\ r[i].type = "entry" /\ r[i].key \in Entries(p)
           /\ r[i].val = server.book[BookOf(p, r[i].key)][r[i].key]
      /\ \A x \in Entries(p) : \E i \in 1 .. Len(r) : r[i].key = x
  BY ReplayFacts
<1> HIDE DEF r
<1>2. Fresh(r, n) = 1 .. Len(r)
  <2>1. ~Waits(r, n)
    BY <1>1 DEF Waits
  <2> QED BY <1>1, <2>1, AllFresh
<1>3. k \in Keys /\ BookOf(p, k) = GLOBAL
  BY BookFacts DEF Keys
<1>4. k \in Entries(p)
  BY <1>3, SharedAssumption DEF Entries
<1>5. Removes(r, n, k, base)
  BY <1>1, <1>2, <1>3, <1>4 DEF Removes, News
<1> QED BY <1>1, <1>5, RemovesOther DEF r

------------------------------------------------------------------------------
(* Steps that do not concern a player *)

\* what the server and the history hold of p, the book aside, does not change
Steady(p) ==
  /\ server'.running = server.running
  /\ p \in server'.inMatch <=> p \in server.inMatch
  /\ p \in server'.seated <=> p \in server.seated
  /\ server'.reported[p] = server.reported[p]
  /\ seen'.wrote[p] = seen.wrote[p] /\ seen'.stray[p] = seen.stray[p]
  /\ p \in seen'.strayMoney <=> p \in seen.strayMoney
  /\ seen'.runs = seen.runs

\* ... and the entries of its books do not either
LEMMA SameBook ==
  ASSUME NEW p \in Players, PlayerInv(p), Steady(p),
         \A k \in Keys : server'.book[BookOf(p, k)][k] = server.book[BookOf(p, k)][k],
         client'[p] = client[p], up'[p] = up[p], down'[p] = down[p]
  PROVE  PlayerInv(p)'
<1>1. Run' = Run /\ (Heading(p)' <=> Heading(p)) /\ Waits(down[p], Run)' = Waits(down[p], Run)
  BY DEF Steady, Run, Heading, Waits
<1>2. \A k \in Keys : Base(p, k)' = Base(p, k)
  BY <1>1 DEF Base
<1>3. Numbered(p)' /\ Absent(p)' /\ OwnReports(p)' /\ MoneyFirst(p)'
  BY <1>1 DEF PlayerInv, Steady, Numbered, Absent, OwnReports, MoneyFirst
<1>4. \A k \in Keys : BookOf(p, k)' = BookOf(p, k)
  BY DEF BookOf
<1>5. Following(p)'
  BY <1>1, <1>2, <1>4 DEF PlayerInv, Steady, Following
<1>6. Removing(p)'
  <2>1. \A k \in Cards : k \in Keys /\ BookOf(p, k) = GLOBAL
    BY DEF Keys, BookOf
  <2> QED BY <1>1, <1>2, <2>1 DEF PlayerInv, Steady, Removing
<1>7. MoneyKnown(p)'
  BY <1>1 DEF PlayerInv, Steady, MoneyKnown
<1> QED BY <1>3, <1>5, <1>6, <1>7 DEF PlayerInv

LEMMA SamePlayer ==
  ASSUME NEW p \in Players, PlayerInv(p), Steady(p), server'.book = server.book,
         client'[p] = client[p], up'[p] = up[p], down'[p] = down[p]
  PROVE  PlayerInv(p)'
BY SameBook

------------------------------------------------------------------------------
(* A game acts *)

\* the game of p reports m and becomes g; it has written w
Acts(p, m, g, w) ==
  /\ Playing(p)
  /\ m \in Report /\ m.run = client[p].run
  /\ g \in Game /\ g.run = client[p].run
  /\ w \in SUBSET Keys
  /\ client' = [client EXCEPT ![p] = g]
  /\ up' = [up EXCEPT ![p] = Append(@, m)]
  /\ seen' = [seen EXCEPT !.wrote[p] = w, !.events = @ + 1]
  /\ seen.events < MaxEvents
  /\ UNCHANGED <<server, down>>

LEMMA ActsEffect ==
  ASSUME SyncInv, NEW p \in Players, NEW m, NEW g, NEW w, Acts(p, m, g, w)
  PROVE  /\ TypeOK' /\ Runs' /\ Books'
         /\ \A q \in Players \ {p} : PlayerInv(q)'
         /\ Numbered(p)' /\ Absent(p)' /\ MoneyFirst(p)'
         /\ client'[p] = g /\ up'[p] = Append(up[p], m) /\ down' = down /\ server' = server
         /\ seen'.wrote[p] = w /\ seen'.stray = seen.stray
         /\ seen'.strayMoney = seen.strayMoney /\ Run' = Run
         /\ \A i \in 1 .. Len(down[p]) : down[p][i].type # "money"
<1>1. /\ server \in Lobby /\ client \in [Players -> Game] /\ up \in [Players -> Seq(Report)]
      /\ down \in [Players -> Seq(Message)] /\ seen \in History
  BY Types DEF SyncInv
<1>2. /\ client' \in [Players -> Game] /\ client'[p] = g
      /\ \A q \in Players \ {p} : client'[q] = client[q]
  BY <1>1 DEF Acts
<1>3. /\ up' \in [Players -> Seq(Report)] /\ up'[p] = Append(up[p], m)
      /\ \A q \in Players \ {p} : up'[q] = up[q]
  BY <1>1 DEF Acts
<1>4. /\ seen'.wrote = [seen.wrote EXCEPT ![p] = w] /\ seen'.stray = seen.stray
      /\ seen'.strayMoney = seen.strayMoney /\ seen'.runs = seen.runs
      /\ seen'.events = seen.events + 1
  BY <1>1 DEF Acts, History
<1>5. seen' \in History
  <2>1. seen.events + 1 \in 0 .. MaxEvents
    BY <1>1, SharedAssumption DEF Acts, History
  <2>2. [seen.wrote EXCEPT ![p] = w] \in [Players -> SUBSET Keys]
    BY <1>1 DEF Acts, History
  <2> QED BY <1>1, <2>1, <2>2 DEF Acts, History
<1>6. TypeOK'
  <2>1. server' = server /\ down' = down
    BY DEF Acts
  <2> QED BY <1>1, <1>2, <1>3, <1>5, <2>1, Types DEF TypeOK, Lobby, Game, History
<1>7. Runs'
  BY <1>1, <1>4 DEF SyncInv, Runs, Acts, History
<1>8. Books'
  BY DEF SyncInv, Books, Acts
<1>9. ASSUME NEW q \in Players \ {p} PROVE PlayerInv(q)'
  <2>1. Steady(q)
    BY <1>1, <1>4 DEF Steady, Acts, History
  <2> QED BY <1>2, <1>3, <2>1, SamePlayer DEF SyncInv, Acts
<1>10. p \in server.seated /\ \A i \in 1 .. Len(down[p]) : down[p][i].type # "money"
  BY <1>1 DEF Acts, Playing, Returning
<1>11. /\ Len(up[p]) \in Nat /\ Len(up'[p]) = Len(up[p]) + 1 /\ up'[p][Len(up[p]) + 1] = m
       /\ \A i \in 1 .. Len(up[p]) : up'[p][i] = up[p][i]
  BY <1>1, <1>3, Appended DEF Acts
<1>12. \A i \in 1 .. Len(up'[p]) : up'[p][i] = m \/ (i \in 1 .. Len(up[p]) /\ up'[p][i] = up[p][i])
  BY <1>11
<1>13. Numbered(p)'
  BY <1>2, <1>4, <1>12 DEF Acts, SyncInv, PlayerInv, Numbered, Run
<1>14. Absent(p)' /\ MoneyFirst(p)'
  BY <1>10 DEF Acts, Absent, MoneyFirst
<1>15. seen'.wrote[p] = w /\ Run' = Run /\ server' = server /\ down' = down
  BY <1>1, <1>4 DEF Acts, Run, History
<1> QED BY <1>2, <1>3, <1>4, <1>6, <1>7, <1>8, <1>9, <1>10, <1>13, <1>14, <1>15

LEMMA ReportEntryKeeps ==
  ASSUME SyncInv, NEW p \in Players, ReportEntry(p)
  PROVE  SyncInv'
<1>1. /\ client \in [Players -> Game] /\ up \in [Players -> Seq(Report)]
      /\ down \in [Players -> Seq(Message)] /\ seen \in History
  BY Types DEF SyncInv
<1>2. PICK k \in Keys, v \in (Data \ {Start}) \cup {Gone} :
        /\ v = Gone => k \in Cards
        /\ client[p].copy[k] \notin {Gone, v}
        /\ client' = [client EXCEPT ![p].copy[k] = v]
        /\ up' = [up EXCEPT ![p] = Append(@, Entry(client[p].run, k, v))]
        /\ seen' = [seen EXCEPT !.wrote[p] = @ \cup {k}, !.events = @ + 1]
  BY DEF ReportEntry
<1> DEFINE m == Entry(client[p].run, k, v)
           g == [client[p] EXCEPT !.copy[k] = v]
           w == seen.wrote[p] \cup {k}
<1>3. /\ m \in Report /\ m.type = "entry" /\ m.run = client[p].run /\ m.key = k /\ m.val = v
  BY <1>1, EntryFacts DEF Game
<1>4. g \in Game /\ g.run = client[p].run /\ g.wallet = client[p].wallet
      /\ g.copy = [client[p].copy EXCEPT ![k] = v] /\ client[p].copy \in [Keys -> Data \cup {Gone}]
  BY <1>1 DEF Game
<1>5. w \in SUBSET Keys
  BY <1>1 DEF History
<1>6. Acts(p, m, g, w)
  BY <1>2, <1>3, <1>4, <1>5 DEF ReportEntry, Room, Acts
<1> HIDE DEF m, g
<1>7. /\ TypeOK' /\ Runs' /\ Books'
      /\ \A q \in Players \ {p} : PlayerInv(q)'
      /\ Numbered(p)' /\ Absent(p)' /\ MoneyFirst(p)'
      /\ client'[p] = g /\ up'[p] = Append(up[p], m) /\ down' = down /\ server' = server
      /\ seen'.wrote[p] = w /\ seen'.stray = seen.stray
      /\ seen'.strayMoney = seen.strayMoney /\ Run' = Run
      /\ \A i \in 1 .. Len(down[p]) : down[p][i].type # "money"
  BY <1>6, ActsEffect
<1>8. Waits(down[p], Run)' = Waits(down[p], Run) /\ Heading(p)' = Heading(p)
  BY <1>4, <1>7 DEF Waits, Heading
<1>9. \A l \in Keys \ {k} : Base(p, l)' = Base(p, l)
  BY <1>4, <1>7, <1>8 DEF Base
<1>10. OwnReports(p)'
  <2>1. /\ Len(up[p]) \in Nat /\ Len(up'[p]) = Len(up[p]) + 1 /\ up'[p][Len(up[p]) + 1] = m
        /\ \A i \in 1 .. Len(up[p]) : up'[p][i] = up[p][i]
    BY <1>1, <1>3, <1>7, Appended
  <2>2. ASSUME NEW i \in 1 .. Len(up'[p]), up'[p][i].type = "entry"
        PROVE  /\ up'[p][i].val = Gone => up'[p][i].key \in Cards
               /\ server.running /\ up'[p][i].run = Run /\ g.run = Run =>
                    /\ up'[p][i].key \in w
                    /\ up'[p][i].val = Gone => g.copy[up'[p][i].key] = Gone
    <3>1. CASE i = Len(up[p]) + 1
      BY <1>2, <1>3, <1>4, <2>1, <3>1
    <3>2. CASE i # Len(up[p]) + 1
      <4>1. i \in 1 .. Len(up[p]) /\ up'[p][i] = up[p][i]
        BY <2>1, <3>2
      <4>2. up[p][i].key \in Keys
        BY <1>1, <4>1, <2>2, ReportFacts
      <4>3. /\ up[p][i].val = Gone => up[p][i].key \in Cards
            /\ server.running /\ up[p][i].run = Run /\ client[p].run = Run =>
                 /\ up[p][i].key \in seen.wrote[p]
                 /\ up[p][i].val = Gone => client[p].copy[up[p][i].key] = Gone
        BY <2>2, <4>1 DEF SyncInv, PlayerInv, OwnReports
      <4> QED BY <1>2, <1>4, <4>1, <4>2, <4>3
    <3> QED BY <3>1, <3>2
  <2> QED BY <1>7, <2>2 DEF OwnReports
<1>11. Following(p)'
  <2> SUFFICES ASSUME NEW l \in Keys, Heading(p), l \notin seen.stray[p],
                      Waits(down[p], Run) \/ l \notin w
               PROVE  Follows(down[p], Run, l, Base(p, l)', server.book[BookOf(p, l)][l],
                              p \in server.seated)
    BY <1>7, <1>8 DEF Following, BookOf
  <2>1. Base(p, l)' = Base(p, l)
    <3>1. CASE Waits(down[p], Run)
      BY <1>8, <3>1 DEF Base
    <3>2. CASE l \notin w
      BY <1>9, <3>2
    <3> QED BY <3>1, <3>2
  <2> QED BY <2>1 DEF SyncInv, PlayerInv, Following
<1>12. Removing(p)'
  <2> SUFFICES ASSUME NEW l \in Cards, Heading(p), p \in server.seated, l \notin seen.stray[p],
                      server.book[GLOBAL][l] = Gone
               PROVE  Removes(down[p], Run, l, Base(p, l)')
    BY <1>7, <1>8 DEF Removing
  <2>1. Removes(down[p], Run, l, Base(p, l)) /\ l \in Keys
    BY DEF SyncInv, PlayerInv, Removing, Keys
  <2>2. Base(p, l) = Gone => Base(p, l)' = Gone
    BY <1>2, <1>8, <1>9, <2>1 DEF Base
  <2> QED BY <2>1, <2>2 DEF Removes
<1>13. MoneyKnown(p)'
  <2> SUFFICES ASSUME Heading(p), p \in server.seated, ~Waits(down[p], Run),
                      Told(up[p], Run, client[p].wallet,
                           server.reported[p] = client[p].wallet \/ p \in seen.strayMoney)
               PROVE  Told(up'[p], Run, g.wallet,
                           server.reported[p] = g.wallet \/ p \in seen.strayMoney)
    BY <1>7, <1>8 DEF SyncInv, PlayerInv, MoneyKnown
  <2>1. ~Tells(m, Run) /\ m.type # "give"
    BY <1>3 DEF Tells
  <2> QED BY <1>1, <1>3, <1>4, <1>7, <2>1, ToldOther
<1> QED BY <1>7, <1>10, <1>11, <1>12, <1>13 DEF SyncInv, PlayerInv

LEMMA OfferMoneyKeeps ==
  ASSUME SyncInv, NEW p \in Players, OfferMoney(p)
  PROVE  SyncInv'
<1>1. /\ client \in [Players -> Game] /\ up \in [Players -> Seq(Report)]
      /\ down \in [Players -> Seq(Message)] /\ seen \in History
  BY Types DEF SyncInv
<1>2. PICK q \in Players, a \in {1, client[p].wallet} :
        /\ a > 0
        /\ up' = [up EXCEPT ![p] =
             Append(@, [type |-> "give", run |-> client[p].run, to |-> q, amount |-> a,
                        money |-> client[p].wallet])]
  BY DEF OfferMoney
<1> DEFINE m == [type |-> "give", run |-> client[p].run, to |-> q, amount |-> a,
                 money |-> client[p].wallet]
           g == client[p]
           w == seen.wrote[p]
<1>3. /\ m \in Report /\ m.type = "give" /\ m.run = client[p].run /\ m.money = client[p].wallet
  <2>1. client[p].run \in Nat /\ client[p].wallet \in Int /\ a \in Nat
    BY <1>1, <1>2 DEF Game
  <2> QED BY <2>1 DEF Report
<1> HIDE DEF m
<1>4. up' = [up EXCEPT ![p] = Append(@, m)]
  BY <1>2 DEF m
<1>5. client' = [client EXCEPT ![p] = g] /\ seen' = [seen EXCEPT !.wrote[p] = w, !.events = @ + 1]
  BY <1>1 DEF OfferMoney, History
<1>6. Acts(p, m, g, w)
  BY <1>1, <1>3, <1>4, <1>5 DEF OfferMoney, Room, Acts, History
<1>7. /\ TypeOK' /\ Runs' /\ Books'
      /\ \A r \in Players \ {p} : PlayerInv(r)'
      /\ Numbered(p)' /\ Absent(p)' /\ MoneyFirst(p)'
      /\ client'[p] = g /\ up'[p] = Append(up[p], m) /\ down' = down /\ server' = server
      /\ seen'.wrote[p] = w /\ seen'.stray = seen.stray
      /\ seen'.strayMoney = seen.strayMoney /\ Run' = Run
      /\ \A i \in 1 .. Len(down[p]) : down[p][i].type # "money"
  BY <1>6, ActsEffect
<1>8. Waits(down[p], Run)' = Waits(down[p], Run) /\ Heading(p)' = Heading(p)
  BY <1>7 DEF Waits, Heading
<1>9. \A l \in Keys : Base(p, l)' = Base(p, l)
  BY <1>7, <1>8 DEF Base
<1>10. OwnReports(p)'
  <2>1. /\ Len(up[p]) \in Nat /\ Len(up'[p]) = Len(up[p]) + 1 /\ up'[p][Len(up[p]) + 1] = m
        /\ \A i \in 1 .. Len(up[p]) : up'[p][i] = up[p][i]
    BY <1>1, <1>3, <1>7, Appended
  <2>2. \A i \in 1 .. Len(up'[p]) : up'[p][i].type = "entry" =>
          i \in 1 .. Len(up[p]) /\ up'[p][i] = up[p][i]
    BY <1>3, <2>1
  <2> QED BY <1>7, <2>2 DEF SyncInv, PlayerInv, OwnReports
<1>11. Following(p)' /\ Removing(p)'
  <2>1. \A l \in Cards : l \in Keys
    BY DEF Keys
  <2> QED BY <1>7, <1>8, <1>9, <2>1 DEF SyncInv, PlayerInv, Following, Removing, BookOf
<1>13. MoneyKnown(p)'
  <2> SUFFICES ASSUME Heading(p), p \in server.seated, ~Waits(down[p], Run),
                      Told(up[p], Run, client[p].wallet,
                           server.reported[p] = client[p].wallet \/ p \in seen.strayMoney)
               PROVE  Told(up'[p], Run, client[p].wallet,
                           server.reported[p] = client[p].wallet \/ p \in seen.strayMoney)
    BY <1>7, <1>8 DEF SyncInv, PlayerInv, MoneyKnown
  <2>1. ~Tells(m, Run)
    BY <1>3 DEF Tells
  <2> QED BY <1>1, <1>3, <1>7, <2>1, ToldOther
<1> QED BY <1>7, <1>10, <1>11, <1>13 DEF SyncInv, PlayerInv

LEMMA MoneyReportFacts ==
  ASSUME NEW run \in Nat, NEW a \in Int
  PROVE  LET m == [type |-> "money", run |-> run, amount |-> a] IN
         m \in Report /\ m.type = "money" /\ m.run = run /\ m.amount = a
BY DEF Report

LEMMA EarnKeeps ==
  ASSUME SyncInv, NEW p \in Players, Earn(p)
  PROVE  SyncInv'
<1>1. /\ client \in [Players -> Game] /\ up \in [Players -> Seq(Report)]
      /\ down \in [Players -> Seq(Message)] /\ seen \in History
  BY Types DEF SyncInv
<1> DEFINE m == [type |-> "money", run |-> client[p].run, amount |-> client[p].wallet + 1]
           g == [client[p] EXCEPT !.wallet = @ + 1]
           w == seen.wrote[p]
<1>2. /\ client[p].run \in Nat /\ client[p].wallet + 1 \in Int
      /\ g \in Game /\ g.run = client[p].run /\ g.copy = client[p].copy
      /\ g.wallet = client[p].wallet + 1
  <2>1. /\ client[p] \in Game /\ client[p].run \in Nat /\ client[p].wallet \in Int
        /\ client[p].copy \in [Keys -> Data \cup {Gone}]
    BY <1>1 DEF Game
  <2>2. client[p].wallet + 1 \in Int
    BY <2>1
  <2>3. g = [run |-> client[p].run, copy |-> client[p].copy, wallet |-> client[p].wallet + 1]
    BY <2>1 DEF Game
  <2> QED BY <2>1, <2>2, <2>3 DEF Game
<1>3. m \in Report /\ m.type = "money" /\ m.run = client[p].run /\ m.amount = g.wallet
  BY <1>2, MoneyReportFacts
<1>4. /\ up' = [up EXCEPT ![p] = Append(@, m)] /\ client' = [client EXCEPT ![p] = g]
      /\ seen' = [seen EXCEPT !.wrote[p] = w, !.events = @ + 1]
  BY <1>1 DEF Earn, MoneyReported, History
<1> HIDE DEF m, g
<1>6. Acts(p, m, g, w)
  BY <1>1, <1>2, <1>3, <1>4 DEF Earn, Room, Acts, History
<1>7. /\ TypeOK' /\ Runs' /\ Books'
      /\ \A r \in Players \ {p} : PlayerInv(r)'
      /\ Numbered(p)' /\ Absent(p)' /\ MoneyFirst(p)'
      /\ client'[p] = g /\ up'[p] = Append(up[p], m) /\ down' = down /\ server' = server
      /\ seen'.wrote[p] = w /\ seen'.stray = seen.stray
      /\ seen'.strayMoney = seen.strayMoney /\ Run' = Run
      /\ \A i \in 1 .. Len(down[p]) : down[p][i].type # "money"
  BY <1>6, ActsEffect
<1>8. Waits(down[p], Run)' = Waits(down[p], Run) /\ Heading(p)' = Heading(p)
  BY <1>2, <1>7 DEF Waits, Heading
<1>9. \A l \in Keys : Base(p, l)' = Base(p, l)
  BY <1>2, <1>7, <1>8 DEF Base
<1>10. OwnReports(p)'
  <2>1. /\ Len(up[p]) \in Nat /\ Len(up'[p]) = Len(up[p]) + 1 /\ up'[p][Len(up[p]) + 1] = m
        /\ \A i \in 1 .. Len(up[p]) : up'[p][i] = up[p][i]
    BY <1>1, <1>3, <1>7, Appended
  <2>2. \A i \in 1 .. Len(up'[p]) : up'[p][i].type = "entry" =>
          i \in 1 .. Len(up[p]) /\ up'[p][i] = up[p][i]
    BY <1>3, <2>1
  <2> QED BY <1>2, <1>7, <2>2 DEF SyncInv, PlayerInv, OwnReports
<1>11. Following(p)' /\ Removing(p)'
  <2>1. \A l \in Cards : l \in Keys
    BY DEF Keys
  <2> QED BY <1>7, <1>8, <1>9, <2>1 DEF SyncInv, PlayerInv, Following, Removing, BookOf
<1>13. MoneyKnown(p)'
  <2> SUFFICES ASSUME Heading(p), p \in server.seated, ~Waits(down[p], Run)
               PROVE  Told(up'[p], Run, g.wallet,
                           server.reported[p] = g.wallet \/ p \in seen.strayMoney)
    BY <1>7, <1>8 DEF SyncInv, PlayerInv, MoneyKnown
  <2>1. Tells(m, Run)
    BY <1>3 DEF Tells, Heading
  <2> QED BY <1>1, <1>3, <1>7, <2>1, ToldByReport
<1> QED BY <1>7, <1>10, <1>11, <1>13 DEF SyncInv, PlayerInv

------------------------------------------------------------------------------
(* A game reads *)

\* the game of p reads a message, becomes g and has reported u; it has written w
Reads(p, g, u, w) ==
  /\ p \in server.seated /\ down[p] # <<>>
  /\ g \in Game /\ w \in SUBSET Keys
  /\ u \in Seq(Report)
  /\ \A i \in 1 .. Len(u) :
       (i \in 1 .. Len(up[p]) /\ u[i] = up[p][i]) \/ u[i].run = client[p].run
  /\ g.run \in {client[p].run, 0} \/ (Head(down[p]).type = "start" /\ g.run = Head(down[p]).run)
  /\ client' = [client EXCEPT ![p] = g]
  /\ up' = [up EXCEPT ![p] = u]
  /\ down' = [down EXCEPT ![p] = Tail(@)]
  /\ seen' = [seen EXCEPT !.wrote[p] = w]
  /\ UNCHANGED server

\* what a message that is no start of the run may concern
LEMMA HeadFacts ==
  ASSUME NEW d \in Seq(Message), d # <<>>, NEW n, NEW k
  PROVE  /\ 1 \in News(d, n, k) => Head(d).type = "entry" /\ Head(d).key = k /\ ~Waits(d, n)
         /\ ~Waits(d, n) /\ Head(d).type = "entry" /\ Head(d).key = k => 1 \in News(d, n, k)
         /\ \A i \in Fresh(d, n) : i # 1 =>
              i - 1 \in Fresh(Tail(d), n) /\ Tail(d)[i - 1] = d[i]
         /\ 1 \in Fresh(d, n) => ~Waits(d, n)
<1>1. Len(d) \in Nat \ {0} /\ Head(d) = d[1] /\ Len(Tail(d)) = Len(d) - 1
      /\ \A i \in 1 .. Len(Tail(d)) : Tail(d)[i] = d[i + 1]
  BY Tailed
<1>2. 1 \in Fresh(d, n) => ~Waits(d, n)
  BY DEF Fresh, Waits
<1>3. ~Waits(d, n) => 1 \in Fresh(d, n)
  BY <1>1, AllFresh
<1>4. ASSUME NEW i \in Fresh(d, n), i # 1
      PROVE  i - 1 \in Fresh(Tail(d), n) /\ Tail(d)[i - 1] = d[i]
  <2>1. i \in 1 .. Len(d)
    BY DEF Fresh
  <2>2. i - 1 \in 1 .. Len(Tail(d)) /\ (i - 1) + 1 = i
    BY <1>1, <1>4, <2>1
  <2> QED BY <1>1, <2>2, FreshTail
<1> QED BY <1>1, <1>2, <1>3, <1>4 DEF News

LEMMA ReadsEffect ==
  ASSUME SyncInv, NEW p \in Players, NEW g, NEW u, NEW w, Reads(p, g, u, w)
  PROVE  /\ TypeOK' /\ Runs' /\ Books'
         /\ \A q \in Players \ {p} : PlayerInv(q)'
         /\ Numbered(p)' /\ Absent(p)'
         /\ client'[p] = g /\ up'[p] = u /\ down'[p] = Tail(down[p]) /\ server' = server
         /\ seen'.wrote[p] = w /\ seen'.stray = seen.stray
         /\ seen'.strayMoney = seen.strayMoney /\ Run' = Run /\ Run \in Nat
         /\ client[p] \in Game /\ down[p] \in Seq(Message) /\ Head(down[p]) \in Message
<1>1. /\ server \in Lobby /\ client \in [Players -> Game] /\ up \in [Players -> Seq(Report)]
      /\ down \in [Players -> Seq(Message)] /\ seen \in History
  BY Types DEF SyncInv
<1> DEFINE d == down[p]
<1>2. /\ d \in Seq(Message) /\ Tail(d) \in Seq(Message) /\ Len(d) \in Nat \ {0} /\ Head(d) = d[1]
      /\ Head(d) \in Message /\ Len(Tail(d)) = Len(d) - 1
      /\ \A i \in 1 .. Len(Tail(d)) : Tail(d)[i] = d[i + 1] /\ i + 1 \in 1 .. Len(d)
  BY <1>1, Tailed DEF Reads
<1>3. /\ client' \in [Players -> Game] /\ client'[p] = g
      /\ \A q \in Players \ {p} : client'[q] = client[q]
  BY <1>1 DEF Reads
<1>4. /\ up' \in [Players -> Seq(Report)] /\ up'[p] = u
      /\ \A q \in Players \ {p} : up'[q] = up[q]
  BY <1>1 DEF Reads
<1>5. /\ down' \in [Players -> Seq(Message)] /\ down'[p] = Tail(d)
      /\ \A q \in Players \ {p} : down'[q] = down[q]
  BY <1>1, <1>2 DEF Reads
<1>6. /\ seen'.wrote = [seen.wrote EXCEPT ![p] = w] /\ seen'.stray = seen.stray
      /\ seen'.strayMoney = seen.strayMoney /\ seen'.runs = seen.runs
      /\ seen'.events = seen.events
  BY <1>1 DEF Reads, History
<1>7. seen' \in History
  <2>1. [seen.wrote EXCEPT ![p] = w] \in [Players -> SUBSET Keys]
    BY <1>1 DEF Reads, History
  <2> QED BY <1>1, <2>1 DEF Reads, History
<1>8. TypeOK'
  <2>1. server' = server
    BY DEF Reads
  <2> QED BY <1>1, <1>3, <1>4, <1>5, <1>7, <2>1, Types DEF TypeOK, Lobby, Game, History
<1>9. Runs' /\ Books'
  BY <1>6 DEF SyncInv, Runs, Books, Reads
<1>10. ASSUME NEW q \in Players \ {p} PROVE PlayerInv(q)'
  <2>1. Steady(q)
    BY <1>1, <1>6 DEF Steady, Reads, History
  <2> QED BY <1>3, <1>4, <1>5, <2>1, SamePlayer DEF SyncInv, Reads
<1>11. /\ Run \in Nat /\ client[p].run \in Nat /\ client[p] \in Game /\ g.run \in Nat
       /\ \A i \in 1 .. Len(d) : d[i] \in Message
  BY <1>1, <1>2, SharedAssumption DEF Run, History, Game, Reads
<1>12. Numbered(p)'
  <2>1. Numbered(p)
    BY DEF SyncInv, PlayerInv
  <2>2. /\ client[p].run <= Run
        /\ \A i \in 1 .. Len(up[p]) : up[p][i].run <= Run
        /\ \A i \in 1 .. Len(d) : d[i].type = "start" =>
             /\ d[i].run <= Run
             /\ client[p].run < d[i].run
             /\ \A j \in 1 .. Len(up[p]) : up[p][j].run < d[i].run
        /\ \A i, j \in 1 .. Len(d) :
             i < j /\ d[i].type = "start" /\ d[j].type = "start" => d[i].run < d[j].run
    BY <2>1 DEF Numbered
  <2>3. 1 \in 1 .. Len(d)
    BY <1>2
  <2>4. g.run <= Run
    BY <1>2, <1>11, <2>2, <2>3 DEF Reads
  <2>5. \A i \in 1 .. Len(u) : u[i].run <= Run
    BY <2>2 DEF Reads
  <2>6. ASSUME NEW i \in 1 .. Len(Tail(d)), Tail(d)[i].type = "start"
        PROVE  /\ Tail(d)[i].run <= Run
               /\ g.run < Tail(d)[i].run
               /\ \A j \in 1 .. Len(u) : u[j].run < Tail(d)[i].run
    <3>1. i + 1 \in 1 .. Len(d) /\ Tail(d)[i] = d[i + 1] /\ 1 < i + 1
      BY <1>2
    <3>2. d[i + 1].run \in Nat /\ d[i + 1].run <= Run /\ client[p].run < d[i + 1].run
      BY <1>11, <2>2, <2>6, <3>1, MessageFacts
    <3>3. g.run < d[i + 1].run
      <4>1. CASE g.run = client[p].run \/ g.run = 0
        BY <1>11, <3>2, <4>1
      <4>2. CASE d[1].type = "start" /\ g.run = d[1].run
        <5>1. d[i + 1].type = "start"
          BY <2>6, <3>1
        <5> QED BY <2>2, <2>3, <3>1, <4>2, <5>1
      <4>3. Head(d) = d[1]
        BY <1>2
      <4> QED BY <4>1, <4>2, <4>3 DEF Reads
    <3>4. \A j \in 1 .. Len(u) : u[j].run < d[i + 1].run
      BY <2>2, <2>6, <3>1, <3>2 DEF Reads
    <3> QED BY <3>1, <3>2, <3>3, <3>4
  <2>7. ASSUME NEW i \in 1 .. Len(Tail(d)), NEW j \in 1 .. Len(Tail(d)), i < j,
               Tail(d)[i].type = "start", Tail(d)[j].type = "start"
        PROVE  Tail(d)[i].run < Tail(d)[j].run
    <3>1. i + 1 < j + 1
      BY <1>2, <2>7
    <3> QED BY <1>2, <2>2, <2>7, <3>1
  <2>8. Run' = Run
    BY <1>6 DEF Run
  <2> HIDE DEF d
  <2> QED BY <1>3, <1>4, <1>5, <2>4, <2>5, <2>6, <2>7, <2>8 DEF Numbered
<1>13. Absent(p)'
  BY DEF Absent, Reads
<1>14. seen'.wrote[p] = w /\ Run' = Run /\ server' = server
  BY <1>1, <1>6 DEF Reads, Run, History
<1> QED BY <1>2, <1>3, <1>4, <1>5, <1>6, <1>8, <1>9, <1>10, <1>11, <1>12, <1>13, <1>14

\* it reads something of the run that it plays
LEMMA ReadsInRun ==
  ASSUME SyncInv, NEW p \in Players, NEW g, NEW u, Reads(p, g, u, seen.wrote[p]),
         g.run = client[p].run, Head(down[p]).type # "start",
         g.copy = IF Head(down[p]).type = "entry"
                  THEN [client[p].copy EXCEPT ![Head(down[p]).key] =
                          IF @ = Gone THEN Gone ELSE Head(down[p]).val]
                  ELSE client[p].copy,
         \A i \in 1 .. Len(u) : u[i].type = "entry" => i \in 1 .. Len(up[p]) /\ u[i] = up[p][i]
  PROVE  /\ OwnReports(p)' /\ Following(p)' /\ Removing(p)'
         /\ Heading(p)' = Heading(p) /\ Waits(down'[p], Run') = Waits(down[p], Run)
<1> DEFINE d == down[p]
           m == Head(d)
<1>1. /\ client'[p] = g /\ up'[p] = u /\ down'[p] = Tail(d) /\ server' = server
      /\ seen'.wrote[p] = seen.wrote[p] /\ seen'.stray = seen.stray
      /\ seen'.strayMoney = seen.strayMoney /\ Run' = Run /\ Run \in Nat
      /\ client[p] \in Game /\ d \in Seq(Message) /\ m \in Message /\ d # <<>>
  <2>1. d # <<>>
    BY DEF Reads
  <2>2. Reads(p, g, u, seen.wrote[p])
    OBVIOUS
  <2> QED BY <2>1, <2>2, ReadsEffect
<1>2. Waits(Tail(d), Run) = Waits(d, Run)
  <2>1. Waits(Tail(d), Run) <=> Waits(d, Run)
    BY <1>1, WaitsTail
  <2> QED BY <2>1 DEF Waits
<1>3. Heading(p)' = Heading(p)
  <2>1. client'[p].run = client[p].run /\ Waits(down'[p], Run') = Waits(d, Run)
    BY <1>1, <1>2
  <2> QED BY <1>1, <2>1 DEF Heading
<1>4. client[p].copy \in [Keys -> Data \cup {Gone}]
  BY <1>1 DEF Game
<1>5. \A l \in Keys : /\ client[p].copy[l] = Gone => g.copy[l] = Gone
                      /\ ~(m.type = "entry" /\ m.key = l) => g.copy[l] = client[p].copy[l]
                      /\ m.type = "entry" /\ m.key = l =>
                           g.copy[l] = IF client[p].copy[l] = Gone THEN Gone ELSE m.val
  BY <1>1, <1>4
<1>6. OwnReports(p)'
  <2> SUFFICES ASSUME NEW i \in 1 .. Len(u), u[i].type = "entry"
               PROVE  /\ u[i].val = Gone => u[i].key \in Cards
                      /\ server.running /\ u[i].run = Run /\ g.run = Run =>
                           /\ u[i].key \in seen.wrote[p]
                           /\ u[i].val = Gone => g.copy[u[i].key] = Gone
    BY <1>1 DEF OwnReports
  <2>1. i \in 1 .. Len(up[p]) /\ u[i] = up[p][i]
    OBVIOUS
  <2>2. u[i].key \in Keys
    BY <2>1, ReportFacts DEF Reads
  <2>3. /\ u[i].val = Gone => u[i].key \in Cards
        /\ server.running /\ u[i].run = Run /\ client[p].run = Run =>
             /\ u[i].key \in seen.wrote[p]
             /\ u[i].val = Gone => client[p].copy[u[i].key] = Gone
    BY <2>1 DEF SyncInv, PlayerInv, OwnReports
  <2> QED BY <1>5, <2>2, <2>3
<1>7. ASSUME NEW l \in Keys
      PROVE  \/ 1 \notin News(d, Run, l) /\ Base(p, l)' = Base(p, l)
             \/ /\ 1 \in News(d, Run, l)
                /\ Base(p, l)' = IF Base(p, l) = Gone THEN Gone ELSE m.val
  <2>1. /\ 1 \in News(d, Run, l) => m.type = "entry" /\ m.key = l /\ ~Waits(d, Run)
        /\ ~Waits(d, Run) /\ m.type = "entry" /\ m.key = l => 1 \in News(d, Run, l)
    BY <1>1, HeadFacts
  <2>2. Base(p, l)' = IF Waits(d, Run) THEN Start ELSE g.copy[l]
    BY <1>1, <1>2 DEF Base
  <2>3. Base(p, l) = IF Waits(d, Run) THEN Start ELSE client[p].copy[l]
    BY DEF Base
  <2> QED BY <1>5, <2>1, <2>2, <2>3
<1>8. Following(p)'
  <2> SUFFICES ASSUME NEW l \in Keys, Heading(p), l \notin seen.stray[p],
                      Waits(d, Run) \/ l \notin seen.wrote[p]
               PROVE  Follows(Tail(d), Run, l, Base(p, l)', server.book[BookOf(p, l)][l],
                              p \in server.seated)
    BY <1>1, <1>2, <1>3 DEF Following, BookOf
  <2>1. Follows(d, Run, l, Base(p, l), server.book[BookOf(p, l)][l], p \in server.seated)
    BY DEF SyncInv, PlayerInv, Following
  <2>2. CASE 1 \notin News(d, Run, l) /\ Base(p, l)' = Base(p, l)
    BY <1>1, <2>1, <2>2, FollowsReadOther
  <2>3. CASE /\ 1 \in News(d, Run, l)
             /\ Base(p, l)' = IF Base(p, l) = Gone THEN Gone ELSE m.val
    <3>1. (p \in server.seated) = TRUE
      BY DEF Reads
    <3>2. Follows(Tail(d), Run, l, IF Base(p, l) = Gone THEN Gone ELSE m.val,
                  server.book[BookOf(p, l)][l], TRUE)
      BY <1>1, <2>1, <2>3, <3>1, FollowsRead
    <3> QED BY <2>3, <3>1, <3>2
  <2> QED BY <1>7, <2>2, <2>3
<1>9. Removing(p)'
  <2> SUFFICES ASSUME NEW l \in Cards, Heading(p), p \in server.seated, l \notin seen.stray[p],
                      server.book[GLOBAL][l] = Gone
               PROVE  Removes(Tail(d), Run, l, Base(p, l)')
    BY <1>1, <1>3 DEF Removing
  <2>1. Removes(d, Run, l, Base(p, l)) /\ l \in Keys
    BY DEF SyncInv, PlayerInv, Removing, Keys
  <2> QED BY <1>1, <1>7, <2>1, RemovesReadOther, RemovesRead
<1> QED BY <1>1, <1>2, <1>3, <1>6, <1>8, <1>9

\* it reads that a run starts or is over
LEMMA ReadsTurn ==
  ASSUME SyncInv, NEW p \in Players, NEW g, NEW w, Reads(p, g, up[p], w),
         \/ /\ Head(down[p]).type = "start" /\ g.run = Head(down[p]).run
            /\ g.copy = NewCopy /\ w = {}
         \/ Head(down[p]).type = "over" /\ g.run = 0
  PROVE  /\ OwnReports(p)' /\ Following(p)' /\ Removing(p)'
         /\ Heading(p)' => /\ Heading(p) /\ Waits(down[p], Run)
                           /\ Waits(down'[p], Run') \/ g.run = Run
         /\ g.run = Run /\ server.running => ~Waits(down'[p], Run')
<1> DEFINE d == down[p]
           m == Head(d)
<1>1. /\ client'[p] = g /\ up'[p] = up[p] /\ down'[p] = Tail(d) /\ server' = server
      /\ seen'.wrote[p] = w /\ seen'.stray = seen.stray
      /\ seen'.strayMoney = seen.strayMoney /\ Run' = Run /\ Run \in Nat
      /\ client[p] \in Game /\ d \in Seq(Message) /\ m \in Message /\ d # <<>>
  BY ReadsEffect DEF Reads
<1>2. Len(d) \in Nat \ {0} /\ m = d[1] /\ Len(Tail(d)) = Len(d) - 1
      /\ \A i \in 1 .. Len(Tail(d)) : Tail(d)[i] = d[i + 1] /\ i + 1 \in 1 .. Len(d)
  BY <1>1, Tailed
<1>3. CASE m.type = "start" /\ g.run = Run /\ g.run = m.run
  <2>1. Waits(d, Run)
    BY <1>2, <1>3 DEF Waits
  <2>2. ~Waits(Tail(d), Run)
    <3> SUFFICES ASSUME NEW i \in 1 .. Len(Tail(d)), Tail(d)[i].type = "start", Tail(d)[i].run = Run
                 PROVE  FALSE
      BY DEF Waits
    <3>1. i + 1 \in 1 .. Len(d) /\ 1 \in 1 .. Len(d) /\ 1 < i + 1 /\ d[i + 1].type = "start"
          /\ d[i + 1].run = Run
      BY <1>2
    <3>2. d[1].run < d[i + 1].run
      BY <1>2, <1>3, <3>1 DEF SyncInv, PlayerInv, Numbered
    <3>3. d[1].run = Run
      BY <1>2, <1>3
    <3>4. Run < Run
      BY <3>1, <3>2, <3>3
    <3> QED BY <1>1, <3>4
  <2>3. OwnReports(p)'
    <3> SUFFICES ASSUME NEW i \in 1 .. Len(up[p]), up[p][i].type = "entry"
                 PROVE  /\ up[p][i].val = Gone => up[p][i].key \in Cards
                        /\ up[p][i].run # Run
      BY <1>1 DEF OwnReports
    <3>1. up[p][i].val = Gone => up[p][i].key \in Cards
      BY DEF SyncInv, PlayerInv, OwnReports
    <3>2. up[p][i].run < Run
      BY <1>2, <1>3 DEF SyncInv, PlayerInv, Numbered
    <3> QED BY <1>1, <3>1, <3>2
  <2>4. \A l \in Keys : Base(p, l)' = Start /\ Base(p, l) = Start /\ 1 \notin News(d, Run, l)
    <3>1. ASSUME NEW l \in Keys PROVE 1 \notin News(d, Run, l)
      BY <1>1, <2>1, HeadFacts
    <3>2. g.copy = NewCopy
      BY <1>3
    <3> QED BY <1>1, <2>1, <2>2, <3>1, <3>2 DEF Base, NewCopy
  <2>5. Following(p)'
    <3> SUFFICES ASSUME NEW l \in Keys, server.running, p \in server.inMatch, l \notin seen.stray[p]
                 PROVE  Follows(Tail(d), Run, l, Start, server.book[BookOf(p, l)][l],
                                p \in server.seated)
      BY <1>1, <2>4 DEF Following, BookOf, Heading
    <3>1. Follows(d, Run, l, Start, server.book[BookOf(p, l)][l], p \in server.seated)
      BY <2>1, <2>4 DEF SyncInv, PlayerInv, Following, Heading
    <3> QED BY <1>1, <2>4, <3>1, FollowsReadOther
  <2>6. Removing(p)'
    <3> SUFFICES ASSUME NEW l \in Cards, server.running, p \in server.inMatch,
                        p \in server.seated, l \notin seen.stray[p],
                        server.book[GLOBAL][l] = Gone
                 PROVE  Removes(Tail(d), Run, l, Start)
      BY <1>1, <2>4 DEF Removing, Heading, Keys
    <3>1. l \in Keys
      BY DEF Keys
    <3>2. Removes(d, Run, l, Start)
      BY <2>1, <2>4, <3>1 DEF SyncInv, PlayerInv, Removing, Heading
    <3> QED BY <1>1, <2>4, <3>1, <3>2, RemovesReadOther
  <2>7. Heading(p)' => Heading(p)
    BY <1>1, <2>1 DEF Heading
  <2> QED BY <1>1, <1>3, <2>1, <2>2, <2>3, <2>5, <2>6, <2>7
<1>4. CASE ~(m.type = "start" /\ g.run = Run /\ g.run = m.run)
  <2>1. server.running => g.run # Run
    BY <1>4 DEF SyncInv, Runs, Run
  <2>2. ~(m.type = "start" /\ m.run = Run)
    BY <1>4
  <2>3. Waits(Tail(d), Run) <=> Waits(d, Run)
    BY <1>1, <2>2, WaitsTail
  <2>4. Heading(p)' => Heading(p) /\ Waits(d, Run) /\ Waits(Tail(d), Run)
    BY <1>1, <2>1, <2>3 DEF Heading
  <2>5. OwnReports(p)'
    BY <1>1, <2>1 DEF SyncInv, PlayerInv, OwnReports
  <2>6. ASSUME NEW l \in Keys, Waits(d, Run)
        PROVE  Base(p, l)' = Start /\ Base(p, l) = Start /\ 1 \notin News(d, Run, l)
    <3>1. 1 \notin News(d, Run, l)
      BY <1>1, <2>6, HeadFacts
    <3> QED BY <1>1, <2>3, <2>6, <3>1 DEF Base
  <2>7. Following(p)'
    <3> SUFFICES ASSUME NEW l \in Keys, Heading(p), Waits(d, Run), l \notin seen.stray[p]
                 PROVE  Follows(Tail(d), Run, l, Start, server.book[BookOf(p, l)][l],
                                p \in server.seated)
      BY <1>1, <2>4, <2>6 DEF Following, BookOf
    <3>1. Follows(d, Run, l, Start, server.book[BookOf(p, l)][l], p \in server.seated)
      BY <2>6 DEF SyncInv, PlayerInv, Following
    <3> QED BY <1>1, <2>6, <3>1, FollowsReadOther
  <2>8. Removing(p)'
    <3> SUFFICES ASSUME NEW l \in Cards, Heading(p), Waits(d, Run), p \in server.seated,
                        l \notin seen.stray[p], server.book[GLOBAL][l] = Gone
                 PROVE  Removes(Tail(d), Run, l, Start)
      BY <1>1, <2>4, <2>6 DEF Removing, Keys
    <3>1. l \in Keys
      BY DEF Keys
    <3>2. Removes(d, Run, l, Start)
      BY <2>6, <3>1 DEF SyncInv, PlayerInv, Removing
    <3> QED BY <1>1, <2>6, <3>1, <3>2, RemovesReadOther
  <2> QED BY <1>1, <2>1, <2>4, <2>5, <2>7, <2>8
<1> QED BY <1>3, <1>4

\* the replay is read before the money, and the money before all else
LEMMA MoneyInMail ==
  ASSUME NEW p \in Players, MoneyFirst(p), down[p] \in Seq(Message), down[p] # <<>>
  PROVE  LET t == Tail(down[p]) IN
         /\ Head(down[p]).type # "entry" => \A i \in 1 .. Len(t) : t[i].type # "money"
         /\ Head(down[p]).type = "money" => up[p] = <<>>
         /\ \A i \in 1 .. Len(t) : t[i].type = "money" =>
              up[p] = <<>> /\ \A j \in 1 .. (i - 1) : t[j].type = "entry"
<1> DEFINE d == down[p]
           t == Tail(d)
<1>1. Len(d) \in Nat \ {0} /\ Head(d) = d[1] /\ Len(t) = Len(d) - 1
      /\ \A i \in 1 .. Len(t) : t[i] = d[i + 1] /\ i + 1 \in 1 .. Len(d)
  BY Tailed
<1> HIDE DEF t
<1>2. ASSUME NEW i \in 1 .. Len(t), t[i].type = "money"
      PROVE  up[p] = <<>> /\ d[1].type = "entry" /\ \A j \in 1 .. (i - 1) : t[j].type = "entry"
  <2>1. i + 1 \in 1 .. Len(d) /\ d[i + 1].type = "money"
    BY <1>1, <1>2
  <2>2. up[p] = <<>> /\ \A j \in 1 .. ((i + 1) - 1) : d[j].type = "entry"
    BY <2>1 DEF MoneyFirst
  <2>3. 1 \in 1 .. ((i + 1) - 1)
    BY <1>1
  <2>4. \A j \in 1 .. (i - 1) : j \in 1 .. Len(t) /\ j + 1 \in 1 .. ((i + 1) - 1)
    BY <1>1
  <2> QED BY <1>1, <2>2, <2>3, <2>4
<1>3. Head(d).type = "money" => up[p] = <<>>
  BY <1>1 DEF MoneyFirst
<1> QED BY <1>1, <1>2, <1>3 DEF t

\* A transfer that is to be read in the run stays to be read, unless it is read.
LEMMA DeltaStays ==
  ASSUME NEW d \in Seq(Message), d # <<>>, NEW n,
         \E i \in Fresh(d, n) : d[i].type = "delta",
         Head(d).type # "delta" \/ Waits(d, n)
  PROVE  \E i \in Fresh(Tail(d), n) : Tail(d)[i].type = "delta"
<1>1. PICK i \in Fresh(d, n) : d[i].type = "delta"
  OBVIOUS
<1>2. i # 1
  <2>1. Head(d) = d[1] /\ (1 \in Fresh(d, n) => ~Waits(d, n))
    BY Tailed, HeadFacts
  <2> QED BY <1>1, <2>1
<1>3. i - 1 \in Fresh(Tail(d), n) /\ Tail(d)[i - 1] = d[i]
  BY <1>2, HeadFacts
<1> QED BY <1>1, <1>3

LEMMA ReceiveEntryKeeps ==
  ASSUME SyncInv, NEW p \in Players, Receive(p), Head(down[p]).type = "entry"
  PROVE  SyncInv'
<1> DEFINE d == down[p]
           m == Head(d)
           g == [client[p] EXCEPT !.copy[m.key] = IF @ = Gone THEN Gone ELSE m.val]
           w == seen.wrote[p]
<1>1. /\ client \in [Players -> Game] /\ up \in [Players -> Seq(Report)]
      /\ down \in [Players -> Seq(Message)] /\ seen \in History
  BY Types DEF SyncInv
<1>2. /\ p \in server.seated /\ d # <<>> /\ d \in Seq(Message) /\ m \in Message
      /\ client' = [client EXCEPT ![p] = g] /\ down' = [down EXCEPT ![p] = Tail(@)]
      /\ UNCHANGED <<up, seen, server>>
  BY <1>1, Tailed DEF Receive
<1>3. m.key \in Keys /\ m.val \in Data \cup {Gone}
  BY <1>2, MessageFacts
<1>4. /\ client[p] \in Game /\ client[p].copy \in [Keys -> Data \cup {Gone}]
      /\ up[p] \in Seq(Report) /\ w \in SUBSET Keys
  BY <1>1 DEF Game, History
<1>5. /\ g \in Game /\ g.run = client[p].run /\ g.wallet = client[p].wallet
      /\ g.copy = [client[p].copy EXCEPT ![m.key] = IF @ = Gone THEN Gone ELSE m.val]
  BY <1>3, <1>4 DEF Game
<1> HIDE DEF g
<1>6. /\ up' = [up EXCEPT ![p] = up[p]] /\ seen' = [seen EXCEPT !.wrote[p] = w]
  BY <1>1, <1>2 DEF History
<1>7. Reads(p, g, up[p], w)
  BY <1>2, <1>4, <1>5, <1>6 DEF Reads
<1>8. /\ TypeOK' /\ Runs' /\ Books'
      /\ \A q \in Players \ {p} : PlayerInv(q)'
      /\ Numbered(p)' /\ Absent(p)'
      /\ client'[p] = g /\ up'[p] = up[p] /\ down'[p] = Tail(d) /\ server' = server
      /\ seen'.strayMoney = seen.strayMoney /\ Run' = Run
  BY <1>7, ReadsEffect
<1>9. /\ OwnReports(p)' /\ Following(p)' /\ Removing(p)'
      /\ Heading(p)' = Heading(p) /\ Waits(down'[p], Run') = Waits(d, Run)
  BY <1>2, <1>5, <1>7, ReadsInRun
<1>10. MoneyFirst(p)'
  BY <1>2, <1>8, MoneyInMail DEF SyncInv, PlayerInv, MoneyFirst
<1>11. MoneyKnown(p)'
  <2> SUFFICES ASSUME Heading(p)
               PROVE  \/ \E i \in Fresh(Tail(d), Run) : Tail(d)[i].type = "delta"
                      \/ /\ Waits(d, Run)
                         /\ server.reported[p] = 0 \/ p \in seen.strayMoney
                      \/ /\ ~Waits(d, Run)
                         /\ \E i \in 1 .. Len(Tail(d)) :
                              /\ Tail(d)[i].type = "money"
                              /\ Tail(d)[i].amount = server.reported[p]
                      \/ /\ ~Waits(d, Run)
                         /\ \A i \in 1 .. Len(Tail(d)) : Tail(d)[i].type # "money"
                         /\ Told(up[p], Run, client[p].wallet,
                                 server.reported[p] = client[p].wallet \/ p \in seen.strayMoney)
    BY <1>5, <1>8, <1>9 DEF MoneyKnown
  <2>1. /\ Len(d) \in Nat \ {0} /\ m = d[1] /\ Len(Tail(d)) = Len(d) - 1
        /\ \A i \in 1 .. Len(Tail(d)) : Tail(d)[i] = d[i + 1] /\ i + 1 \in 1 .. Len(d)
    BY <1>2, Tailed
  <2>2. CASE \E i \in Fresh(d, Run) : d[i].type = "delta"
    BY <1>2, <2>2, DeltaStays
  <2>3. CASE /\ ~Waits(d, Run)
             /\ \E i \in 1 .. Len(d) : d[i].type = "money" /\ d[i].amount = server.reported[p]
    <3>1. PICK i \in 1 .. Len(d) : d[i].type = "money" /\ d[i].amount = server.reported[p]
      BY <2>3
    <3>2. i # 1
      BY <2>1, <3>1
    <3>3. i - 1 \in 1 .. Len(Tail(d)) /\ Tail(d)[i - 1] = d[i]
      BY <2>1, <3>2
    <3> QED BY <2>3, <3>1, <3>3
  <2>4. CASE /\ ~Waits(d, Run)
             /\ \A i \in 1 .. Len(d) : d[i].type # "money"
             /\ Told(up[p], Run, client[p].wallet,
                     server.reported[p] = client[p].wallet \/ p \in seen.strayMoney)
    BY <2>1, <2>4
  <2> QED BY <1>2, <2>2, <2>3, <2>4 DEF SyncInv, PlayerInv, MoneyKnown
<1> QED BY <1>8, <1>9, <1>10, <1>11 DEF SyncInv, PlayerInv

\* It answers a transfer with its money.
LEMMA ReceiveDeltaKeeps ==
  ASSUME SyncInv, NEW p \in Players, Receive(p), Head(down[p]).type = "delta"
  PROVE  SyncInv'
<1> DEFINE d == down[p]
           m == Head(d)
           g == [client[p] EXCEPT !.wallet = @ + m.amount]
           r == [type |-> "money", run |-> client[p].run, amount |-> client[p].wallet + m.amount]
           u == Append(up[p], r)
           w == seen.wrote[p]
<1>1. /\ client \in [Players -> Game] /\ up \in [Players -> Seq(Report)]
      /\ down \in [Players -> Seq(Message)] /\ seen \in History
  BY Types DEF SyncInv
<1>2. /\ p \in server.seated /\ d # <<>> /\ d \in Seq(Message) /\ m \in Message
      /\ client' = [client EXCEPT ![p] = g] /\ up' = [up EXCEPT ![p] = Append(@, r)]
      /\ down' = [down EXCEPT ![p] = Tail(@)]
      /\ UNCHANGED <<seen, server>>
  BY <1>1, Tailed DEF Receive, MoneyReported
<1>3. m.amount \in Int
  BY <1>2, MessageFacts
<1>4. /\ client[p] \in Game /\ client[p].copy \in [Keys -> Data \cup {Gone}]
      /\ client[p].run \in Nat /\ client[p].wallet \in Int
      /\ up[p] \in Seq(Report) /\ w \in SUBSET Keys
  BY <1>1 DEF Game, History
<1>5. /\ g \in Game /\ g.run = client[p].run /\ g.wallet = client[p].wallet + m.amount
      /\ g.copy = client[p].copy
  <2>1. client[p].wallet + m.amount \in Int
    BY <1>3, <1>4
  <2>2. g = [run |-> client[p].run, copy |-> client[p].copy,
             wallet |-> client[p].wallet + m.amount]
    BY <1>4 DEF Game
  <2> QED BY <1>4, <2>1, <2>2 DEF Game
<1>6. r \in Report /\ r.type = "money" /\ r.run = client[p].run /\ r.amount = g.wallet
  <2>1. client[p].wallet + m.amount \in Int
    BY <1>3, <1>4
  <2> QED BY <1>4, <1>5, <2>1, MoneyReportFacts
<1> HIDE DEF g, r
<1>7. /\ u \in Seq(Report) /\ Len(up[p]) \in Nat /\ Len(u) = Len(up[p]) + 1
      /\ u[Len(up[p]) + 1] = r /\ \A i \in 1 .. Len(up[p]) : u[i] = up[p][i]
  BY <1>4, <1>6, Appended
<1>8. \A i \in 1 .. Len(u) : u[i] = r \/ (i \in 1 .. Len(up[p]) /\ u[i] = up[p][i])
  BY <1>7
<1>9. up' = [up EXCEPT ![p] = u] /\ seen' = [seen EXCEPT !.wrote[p] = w]
  BY <1>1, <1>2 DEF History
<1> HIDE DEF u
<1>10. Reads(p, g, u, w)
  BY <1>2, <1>4, <1>5, <1>6, <1>7, <1>8, <1>9 DEF Reads
<1>11. /\ TypeOK' /\ Runs' /\ Books'
       /\ \A q \in Players \ {p} : PlayerInv(q)'
       /\ Numbered(p)' /\ Absent(p)'
       /\ client'[p] = g /\ up'[p] = u /\ down'[p] = Tail(d) /\ server' = server
       /\ seen'.strayMoney = seen.strayMoney /\ Run' = Run
  BY <1>10, ReadsEffect
<1>12. /\ OwnReports(p)' /\ Following(p)' /\ Removing(p)'
       /\ Heading(p)' = Heading(p) /\ Waits(down'[p], Run') = Waits(d, Run)
  <2>1. \A i \in 1 .. Len(u) : u[i].type = "entry" => i \in 1 .. Len(up[p]) /\ u[i] = up[p][i]
    BY <1>6, <1>8
  <2> QED BY <1>2, <1>5, <1>10, <2>1, ReadsInRun
<1>13. \A i \in 1 .. Len(Tail(d)) : Tail(d)[i].type # "money"
  BY <1>2, MoneyInMail DEF SyncInv, PlayerInv
<1>14. MoneyFirst(p)'
  BY <1>11, <1>13 DEF MoneyFirst
<1>15. MoneyKnown(p)'
  <2>1. ASSUME Heading(p), ~Waits(d, Run)
        PROVE  Told(u, Run, g.wallet, server.reported[p] = g.wallet \/ p \in seen.strayMoney)
    <3>1. Tells(r, Run)
      BY <1>6, <2>1 DEF Tells, Heading
    <3> QED BY <1>4, <1>6, <3>1, ToldByReport DEF u
  <2>2. ASSUME Heading(p), Waits(d, Run)
        PROVE  \/ \E i \in Fresh(Tail(d), Run) : Tail(d)[i].type = "delta"
               \/ server.reported[p] = 0 \/ p \in seen.strayMoney
    <3>1. \/ \E i \in Fresh(d, Run) : d[i].type = "delta"
          \/ server.reported[p] = 0 \/ p \in seen.strayMoney
      BY <1>2, <2>2 DEF SyncInv, PlayerInv, MoneyKnown
    <3> QED BY <1>2, <2>2, <3>1, DeltaStays
  <2> QED BY <1>11, <1>12, <1>13, <2>1, <2>2 DEF MoneyKnown
<1> QED BY <1>11, <1>12, <1>14, <1>15 DEF SyncInv, PlayerInv

\* After a return it has the money the server keeps.
LEMMA ReceiveMoneyKeeps ==
  ASSUME SyncInv, NEW p \in Players, Receive(p), Head(down[p]).type = "money"
  PROVE  SyncInv'
<1> DEFINE d == down[p]
           m == Head(d)
           g == [client[p] EXCEPT !.wallet = m.amount]
           w == seen.wrote[p]
<1>1. /\ client \in [Players -> Game] /\ up \in [Players -> Seq(Report)]
      /\ down \in [Players -> Seq(Message)] /\ seen \in History
  BY Types DEF SyncInv
<1>2. /\ p \in server.seated /\ d # <<>> /\ d \in Seq(Message) /\ m \in Message
      /\ client' = [client EXCEPT ![p] = g] /\ down' = [down EXCEPT ![p] = Tail(@)]
      /\ UNCHANGED <<up, seen, server>>
  BY <1>1, Tailed DEF Receive
<1>3. m.amount \in Int
  BY <1>2, MessageFacts
<1>4. client[p] \in Game /\ up[p] \in Seq(Report) /\ w \in SUBSET Keys
  BY <1>1 DEF History
<1>5. /\ g \in Game /\ g.run = client[p].run /\ g.wallet = m.amount
      /\ g.copy = client[p].copy
  BY <1>3, <1>4 DEF Game
<1> HIDE DEF g
<1>6. up' = [up EXCEPT ![p] = up[p]] /\ seen' = [seen EXCEPT !.wrote[p] = w]
  BY <1>1, <1>2 DEF History
<1>7. Reads(p, g, up[p], w)
  BY <1>2, <1>4, <1>5, <1>6 DEF Reads
<1>8. /\ TypeOK' /\ Runs' /\ Books'
      /\ \A q \in Players \ {p} : PlayerInv(q)'
      /\ Numbered(p)' /\ Absent(p)'
      /\ client'[p] = g /\ up'[p] = up[p] /\ down'[p] = Tail(d) /\ server' = server
      /\ seen'.strayMoney = seen.strayMoney /\ Run' = Run
  BY <1>7, ReadsEffect
<1>9. /\ OwnReports(p)' /\ Following(p)' /\ Removing(p)'
      /\ Heading(p)' = Heading(p) /\ Waits(down'[p], Run') = Waits(d, Run)
  BY <1>2, <1>5, <1>7, ReadsInRun
<1>10. up[p] = <<>> /\ \A i \in 1 .. Len(Tail(d)) : Tail(d)[i].type # "money"
  BY <1>2, MoneyInMail DEF SyncInv, PlayerInv
<1>11. MoneyFirst(p)'
  BY <1>8, <1>10 DEF MoneyFirst
<1>12. MoneyKnown(p)'
  <2>1. /\ Len(d) \in Nat \ {0} /\ m = d[1] /\ Len(Tail(d)) = Len(d) - 1
        /\ \A i \in 1 .. Len(Tail(d)) : Tail(d)[i] = d[i + 1]
    BY <1>2, Tailed
  <2>2. \A i \in 1 .. Len(d) : i # 1 => d[i].type # "money"
    <3> SUFFICES ASSUME NEW i \in 1 .. Len(d), i # 1 PROVE d[i].type # "money"
      OBVIOUS
    <3>1. i - 1 \in 1 .. Len(Tail(d)) /\ Tail(d)[i - 1] = d[i]
      BY <2>1
    <3> QED BY <1>10, <3>1
  <2>3. CASE Heading(p) /\ \E i \in Fresh(d, Run) : d[i].type = "delta"
    <3>1. \E i \in Fresh(Tail(d), Run) : Tail(d)[i].type = "delta"
      BY <1>2, <2>3, DeltaStays
    <3> QED BY <1>8, <3>1 DEF MoneyKnown
  <2>4. CASE Waits(d, Run) /\ (server.reported[p] = 0 \/ p \in seen.strayMoney)
    BY <1>8, <1>9, <2>4 DEF MoneyKnown
  <2>5. CASE /\ ~Waits(d, Run)
             /\ \E i \in 1 .. Len(d) : d[i].type = "money" /\ d[i].amount = server.reported[p]
    <3>1. server.reported[p] = g.wallet
      BY <1>5, <2>1, <2>2, <2>5
    <3>2. Told(up[p], Run, g.wallet, server.reported[p] = g.wallet \/ p \in seen.strayMoney)
      BY <1>10, <3>1 DEF Told
    <3> QED BY <1>8, <1>9, <1>10, <2>5, <3>2 DEF MoneyKnown
  <2>6. ~(\A i \in 1 .. Len(d) : d[i].type # "money")
    BY <2>1
  <2> QED BY <1>2, <1>8, <1>9, <2>3, <2>4, <2>5, <2>6 DEF SyncInv, PlayerInv, MoneyKnown
<1> QED BY <1>8, <1>9, <1>11, <1>12 DEF SyncInv, PlayerInv

\* A run starts, or is over.
LEMMA ReceiveTurnKeeps ==
  ASSUME SyncInv, NEW p \in Players, Receive(p), Head(down[p]).type \in {"start", "over"}
  PROVE  SyncInv'
<1> DEFINE d == down[p]
           m == Head(d)
           g == IF m.type = "start" THEN [run |-> m.run, copy |-> NewCopy, wallet |-> 0]
                ELSE [client[p] EXCEPT !.run = 0]
           w == IF m.type = "start" THEN {} ELSE seen.wrote[p]
<1>1. /\ client \in [Players -> Game] /\ up \in [Players -> Seq(Report)]
      /\ down \in [Players -> Seq(Message)] /\ seen \in History
  BY Types DEF SyncInv
<1>2. /\ p \in server.seated /\ d # <<>> /\ d \in Seq(Message) /\ m \in Message
      /\ down' = [down EXCEPT ![p] = Tail(@)] /\ UNCHANGED <<up, server>>
  BY <1>1, Tailed DEF Receive
<1>3. client' = [client EXCEPT ![p] = g]
  BY DEF Receive
<1>4. seen' = [seen EXCEPT !.wrote[p] = w]
  <2>1. seen = [seen EXCEPT !.wrote[p] = seen.wrote[p]]
    BY <1>1 DEF History
  <2> QED BY <2>1 DEF Receive
<1>5. client[p] \in Game /\ up[p] \in Seq(Report) /\ w \in SUBSET Keys
  BY <1>1 DEF History
<1>6. /\ g \in Game
      /\ m.type = "start" => g.run = m.run /\ g.copy = NewCopy /\ g.wallet = 0 /\ w = {}
      /\ m.type = "over" => g.run = 0
  <2>1. CASE m.type = "start"
    <3>1. NewCopy \in [Keys -> Data \cup {Gone}] /\ m.run \in Nat
      BY <1>2, <2>1, MessageFacts, SharedAssumption DEF NewCopy
    <3> QED BY <2>1, <3>1 DEF Game
  <2>2. CASE m.type # "start"
    BY <1>5, <2>2 DEF Game
  <2> QED BY <2>1, <2>2
<1> HIDE DEF g, w
<1>7. up' = [up EXCEPT ![p] = up[p]]
  BY <1>1, <1>2
<1>8. Reads(p, g, up[p], w)
  BY <1>2, <1>3, <1>4, <1>5, <1>6, <1>7 DEF Reads
<1>9. /\ TypeOK' /\ Runs' /\ Books'
      /\ \A q \in Players \ {p} : PlayerInv(q)'
      /\ Numbered(p)' /\ Absent(p)'
      /\ client'[p] = g /\ up'[p] = up[p] /\ down'[p] = Tail(d) /\ server' = server
      /\ seen'.strayMoney = seen.strayMoney /\ Run' = Run
  BY <1>8, ReadsEffect
<1>10. /\ OwnReports(p)' /\ Following(p)' /\ Removing(p)'
       /\ Heading(p)' => /\ Heading(p) /\ Waits(d, Run)
                         /\ Waits(down'[p], Run') \/ g.run = Run
       /\ g.run = Run /\ server.running => ~Waits(down'[p], Run')
  BY <1>6, <1>8, ReadsTurn
<1>11. \A i \in 1 .. Len(Tail(d)) : Tail(d)[i].type # "money"
  BY <1>2, MoneyInMail DEF SyncInv, PlayerInv
<1>12. MoneyFirst(p)'
  BY <1>9, <1>11 DEF MoneyFirst
<1>13. MoneyKnown(p)'
  <2> SUFFICES ASSUME Heading(p)'
               PROVE  \/ \E i \in Fresh(Tail(d), Run) : Tail(d)[i].type = "delta"
                      \/ /\ Waits(Tail(d), Run)
                         /\ server.reported[p] = 0 \/ p \in seen.strayMoney
                      \/ /\ ~Waits(Tail(d), Run)
                         /\ Told(up[p], Run, g.wallet,
                                 server.reported[p] = g.wallet \/ p \in seen.strayMoney)
    BY <1>9, <1>11 DEF MoneyKnown
  <2>1. \/ \E i \in Fresh(d, Run) : d[i].type = "delta"
        \/ server.reported[p] = 0 \/ p \in seen.strayMoney
    BY <1>2, <1>10 DEF SyncInv, PlayerInv, MoneyKnown
  <2>2. CASE \E i \in Fresh(d, Run) : d[i].type = "delta"
    BY <1>2, <1>10, <2>2, DeltaStays
  <2>3. CASE /\ server.reported[p] = 0 \/ p \in seen.strayMoney
             /\ ~Waits(Tail(d), Run)
    <3>1. g.run = Run /\ server.running
      BY <1>9, <1>10, <2>3 DEF Heading
    <3>2. m.type = "start" /\ m.run = Run /\ g.wallet = 0
      BY <1>6, <3>1 DEF SyncInv, Runs, Run
    <3>3. \A j \in 1 .. Len(up[p]) : up[p][j].run # Run
      <4>1. Len(d) \in Nat \ {0} /\ m = d[1]
        BY <1>2, Tailed
      <4>2. 1 \in 1 .. Len(d) /\ d[1].type = "start" /\ d[1].run = Run
        BY <3>2, <4>1
      <4>3. \A j \in 1 .. Len(up[p]) : up[p][j].run < Run
        BY <4>2 DEF SyncInv, PlayerInv, Numbered
      <4>4. Run \in Nat
        BY <1>1, SharedAssumption DEF Run, History
      <4> QED BY <4>3, <4>4
    <3>4. server.reported[p] = g.wallet \/ p \in seen.strayMoney
      BY <2>3, <3>2
    <3> QED BY <2>3, <3>3, <3>4, ToldNothing
  <2> QED BY <2>1, <2>2, <2>3
<1> QED BY <1>9, <1>10, <1>12, <1>13 DEF SyncInv, PlayerInv

LEMMA ReceiveKeeps ==
  ASSUME SyncInv, NEW p \in Players, Receive(p)
  PROVE  SyncInv'
<1>1. Head(down[p]).type \in {"entry", "delta", "money", "start", "over"}
  BY DEF Receive
<1> QED BY <1>1, ReceiveEntryKeeps, ReceiveDeltaKeeps, ReceiveMoneyKeeps, ReceiveTurnKeeps

------------------------------------------------------------------------------
(* The server takes a report and sends messages *)

\* At most a report of q is taken, and at most a message, which is neither the
\* start of a run nor the money of a return, is sent to q.
Delivers(q) ==
  /\ client'[q] = client[q]
  /\ up'[q] = up[q] \/ (up[q] # <<>> /\ up'[q] = Tail(up[q]))
  /\ \/ down'[q] = down[q]
     \/ /\ q \in server.seated
        /\ \E m \in Message :
             m.type \in {"entry", "delta", "over"} /\ down'[q] = Append(down[q], m)
  /\ q \in server'.seated <=> q \in server.seated
  /\ server'.running => server.running
  /\ seen'.wrote[q] = seen.wrote[q] /\ seen'.runs = seen.runs

LEMMA Delivered ==
  ASSUME TypeOK, NEW q \in Players, PlayerInv(q), Delivers(q)
  PROVE  /\ Numbered(q)' /\ Absent(q)' /\ OwnReports(q)' /\ MoneyFirst(q)'
         /\ Run' = Run /\ Waits(down'[q], Run') = Waits(down[q], Run)
<1> DEFINE u == up[q]
           v == up'[q]
           d == down[q]
           e == down'[q]
<1>1. u \in Seq(Report) /\ d \in Seq(Message) /\ Run' = Run
  BY Types DEF Delivers, Run
<1>2. /\ u = <<>> => v = <<>>
      /\ \A i \in 1 .. Len(v) : \E j \in 1 .. Len(u) : v[i] = u[j]
  <2>1. CASE v = u
    BY <2>1
  <2>2. CASE u # <<>> /\ v = Tail(u)
    <3>1. \A i \in 1 .. Len(Tail(u)) : Tail(u)[i] = u[i + 1] /\ i + 1 \in 1 .. Len(u)
      BY <1>1, <2>2, Tailed
    <3> HIDE DEF u, v
    <3> QED BY <2>2, <3>1
  <2> QED BY <2>1, <2>2 DEF Delivers
<1>3. /\ Len(d) \in Nat /\ Len(e) \in Nat
      /\ \A i \in 1 .. Len(d) : i \in 1 .. Len(e) /\ e[i] = d[i]
      /\ \A i \in 1 .. Len(e) : e[i].type \in {"start", "money"} => i \in 1 .. Len(d)
  <2>1. CASE e = d
    BY <1>1, <2>1
  <2>2. ASSUME NEW m \in Message, m.type \in {"entry", "delta", "over"}, e = Append(d, m)
        PROVE  /\ Len(d) \in Nat /\ Len(e) \in Nat
               /\ \A i \in 1 .. Len(d) : i \in 1 .. Len(e) /\ e[i] = d[i]
               /\ \A i \in 1 .. Len(e) : e[i].type \in {"start", "money"} => i \in 1 .. Len(d)
    <3>1. /\ Len(d) \in Nat /\ Len(e) = Len(d) + 1 /\ e[Len(d) + 1] = m
          /\ \A i \in 1 .. Len(d) : e[i] = d[i]
      BY <1>1, <2>2, Appended
    <3> HIDE DEF d, e
    <3>2. \A i \in 1 .. Len(e) : i = Len(d) + 1 \/ i \in 1 .. Len(d)
      BY <3>1
    <3>3. \A i \in 1 .. Len(d) : i \in 1 .. Len(e)
      BY <3>1
    <3>4. m.type \notin {"start", "money"}
      BY <2>2
    <3> QED BY <3>1, <3>2, <3>3, <3>4
  <2> QED BY <2>1, <2>2 DEF Delivers
<1>4. Numbered(q) /\ Absent(q) /\ OwnReports(q) /\ MoneyFirst(q)
  BY DEF PlayerInv
<1>5. client'[q] = client[q] /\ seen'.wrote[q] = seen.wrote[q]
  BY DEF Delivers
<1>6. Numbered(q)'
  <2>1. /\ client[q].run <= Run
        /\ \A i \in 1 .. Len(u) : u[i].run <= Run
        /\ \A i \in 1 .. Len(d) : d[i].type = "start" =>
             /\ d[i].run <= Run
             /\ client[q].run < d[i].run
             /\ \A j \in 1 .. Len(u) : u[j].run < d[i].run
        /\ \A i, j \in 1 .. Len(d) :
             i < j /\ d[i].type = "start" /\ d[j].type = "start" => d[i].run < d[j].run
    BY <1>4 DEF Numbered
  <2>2. \A i \in 1 .. Len(v) : v[i].run <= Run
    BY <1>2, <2>1
  <2>3. \A i \in 1 .. Len(e) : e[i].type = "start" =>
          /\ e[i].run <= Run
          /\ client[q].run < e[i].run
          /\ \A j \in 1 .. Len(v) : v[j].run < e[i].run
    BY <1>2, <1>3, <2>1
  <2>4. \A i, j \in 1 .. Len(e) :
          i < j /\ e[i].type = "start" /\ e[j].type = "start" => e[i].run < e[j].run
    BY <1>3, <2>1
  <2> QED BY <1>1, <1>5, <2>1, <2>2, <2>3, <2>4 DEF Numbered
<1>7. Absent(q)'
  BY <1>2, <1>4 DEF Delivers, Absent
<1>8. OwnReports(q)'
  <2>1. \A i \in 1 .. Len(u) : u[i].type = "entry" =>
          /\ u[i].val = Gone => u[i].key \in Cards
          /\ server.running /\ u[i].run = Run /\ client[q].run = Run =>
               /\ u[i].key \in seen.wrote[q]
               /\ u[i].val = Gone => client[q].copy[u[i].key] = Gone
    BY <1>4 DEF OwnReports
  <2>2. server'.running => server.running
    BY DEF Delivers
  <2>3. \A i \in 1 .. Len(v) : v[i].type = "entry" =>
          /\ v[i].val = Gone => v[i].key \in Cards
          /\ server'.running /\ v[i].run = Run /\ client[q].run = Run =>
               /\ v[i].key \in seen.wrote[q]
               /\ v[i].val = Gone => client[q].copy[v[i].key] = Gone
    BY <1>2, <2>1, <2>2
  <2> QED BY <1>1, <1>5, <2>3 DEF OwnReports
<1>9. MoneyFirst(q)'
  <2>1. \A i \in 1 .. Len(d) : d[i].type = "money" =>
          u = <<>> /\ \A j \in 1 .. (i - 1) : d[j].type = "entry"
    BY <1>4 DEF MoneyFirst
  <2>2. ASSUME NEW i \in 1 .. Len(e), e[i].type = "money"
        PROVE  v = <<>> /\ \A j \in 1 .. (i - 1) : e[j].type = "entry"
    <3>1. i \in 1 .. Len(d) /\ d[i].type = "money"
      BY <1>3, <2>2
    <3>2. \A j \in 1 .. (i - 1) : j \in 1 .. Len(d)
      BY <1>3, <3>1
    <3> QED BY <1>2, <1>3, <2>1, <3>1, <3>2
  <2> QED BY <2>2 DEF MoneyFirst
<1>10. Waits(e, Run) = Waits(d, Run)
  BY <1>3 DEF Waits
<1> QED BY <1>1, <1>6, <1>7, <1>8, <1>9, <1>10

\* no entry changes, and none is sent to q
LEMMA DeliveredMoney ==
  ASSUME TypeOK, NEW q \in Players, PlayerInv(q), Delivers(q),
         server'.running = server.running, q \in server'.inMatch <=> q \in server.inMatch,
         server'.book = server.book, seen'.stray[q] = seen.stray[q],
         \/ down'[q] = down[q]
         \/ \E m \in Message : m.type = "delta" /\ down'[q] = Append(down[q], m)
  PROVE  /\ Following(q)' /\ Removing(q)' /\ Heading(q)' = Heading(q)
         /\ down'[q] # down[q] => MoneyKnown(q)'
<1>1. Run' = Run /\ Waits(down'[q], Run') = Waits(down[q], Run) /\ down[q] \in Seq(Message)
  BY Delivered, Types
<1>2. client'[q] = client[q]
  BY DEF Delivers
<1>3. Heading(q)' = Heading(q)
  BY <1>1, <1>2 DEF Heading
<1>4. \A k : Base(q, k)' = Base(q, k)
  BY <1>1, <1>2 DEF Base
<1>5. (q \in server'.seated) = (q \in server.seated) /\ seen'.wrote[q] = seen.wrote[q]
  BY DEF Delivers
<1>6. ASSUME NEW k \in Keys, NEW base, NEW e, NEW present, Follows(down[q], Run, k, base, e, present)
      PROVE  Follows(down'[q], Run, k, base, e, present)
  BY <1>1, <1>6, FollowsOther
<1>7. ASSUME NEW k \in Keys, NEW base, Removes(down[q], Run, k, base)
      PROVE  Removes(down'[q], Run, k, base)
  BY <1>1, <1>7, RemovesOther
<1>8. Following(q)'
  <2> SUFFICES ASSUME NEW k \in Keys, Heading(q), k \notin seen.stray[q],
                      Waits(down[q], Run) \/ k \notin seen.wrote[q]
               PROVE  Follows(down'[q], Run, k, Base(q, k), server.book[BookOf(q, k)][k],
                              q \in server.seated)
    BY <1>1, <1>3, <1>4, <1>5 DEF Following, BookOf
  <2>1. Follows(down[q], Run, k, Base(q, k), server.book[BookOf(q, k)][k], q \in server.seated)
    BY DEF PlayerInv, Following
  <2> QED BY <2>1, <1>6
<1>9. Removing(q)'
  <2> SUFFICES ASSUME NEW k \in Cards, Heading(q), q \in server.seated, k \notin seen.stray[q],
                      server.book[GLOBAL][k] = Gone
               PROVE  Removes(down'[q], Run, k, Base(q, k))
    BY <1>1, <1>3, <1>4, <1>5 DEF Removing
  <2>1. Removes(down[q], Run, k, Base(q, k)) /\ k \in Keys
    BY DEF PlayerInv, Removing, Keys
  <2> QED BY <2>1, <1>7
<1>10. ASSUME NEW m \in Message, m.type = "delta", down'[q] = Append(down[q], m)
       PROVE  MoneyKnown(q)'
  <2>1. Fresh(Append(down[q], m), Run) = Fresh(down[q], Run) \cup {Len(down[q]) + 1}
    BY <1>1, <1>10, FreshAppend
  <2>2. Append(down[q], m)[Len(down[q]) + 1] = m
    BY <1>1, Appended
  <2>3. \E i \in Fresh(down'[q], Run) : down'[q][i].type = "delta"
    BY <1>10, <2>1, <2>2
  <2> QED BY <1>1, <2>3 DEF MoneyKnown
<1> QED BY <1>3, <1>8, <1>9, <1>10

\* The server takes a report, and knows of money what the report told.
LEMMA TakenMoney ==
  ASSUME TypeOK, NEW p \in Players, PlayerInv(p), up[p] # <<>>,
         NEW reported2, NEW stray2,
         LET m == Head(up[p])
             wallet == client[p].wallet
             known == server.reported[p] = wallet \/ p \in seen.strayMoney
             known2 == reported2 = wallet \/ p \in stray2 IN
         /\ Tells(m, Run) /\ m.amount = wallet => known2
         /\ ~Tells(m, Run) /\ known /\ (m.type = "give" /\ m.run = Run => m.money = wallet) => known2
         /\ m.run # Run /\ (server.reported[p] = 0 \/ p \in seen.strayMoney) =>
              reported2 = 0 \/ p \in stray2,
         up'[p] = Tail(up[p]), client'[p] = client[p], down'[p] = down[p],
         server'.reported[p] = reported2, seen'.strayMoney = stray2, Run' = Run,
         Heading(p)' => Heading(p), p \in server'.seated <=> p \in server.seated
  PROVE  MoneyKnown(p)'
<1> DEFINE u == up[p]
           d == down[p]
           m == Head(u)
           wallet == client[p].wallet
           known == server.reported[p] = wallet \/ p \in seen.strayMoney
           known2 == reported2 = wallet \/ p \in stray2
<1>1. /\ u \in Seq(Report) /\ Len(u) \in Nat \ {0} /\ m = u[1]
      /\ Run \in Nat /\ m.run \in Nat
  <2>1. u \in Seq(Report)
    BY Types
  <2>2. Len(u) \in Nat \ {0} /\ m = u[1] /\ m \in Report
    BY <2>1, Tailed
  <2>3. Run \in Nat
    BY Types, SharedAssumption DEF Run, History
  <2> QED BY <2>1, <2>2, <2>3, ReportFacts
<1>2. \A i \in 1 .. Len(d) : d[i].type # "money"
  BY DEF PlayerInv, MoneyFirst
<1>3. Waits(d, Run) => m.run # Run
  <2> SUFFICES ASSUME NEW i \in 1 .. Len(d), d[i].type = "start", d[i].run = Run
               PROVE  m.run # Run
    BY DEF Waits
  <2>1. 1 \in 1 .. Len(u)
    BY <1>1
  <2>2. u[1].run < Run
    BY <2>1 DEF PlayerInv, Numbered
  <2> QED BY <1>1, <2>2
<1>4. Told(u, Run, wallet, known) => Told(Tail(u), Run, wallet, known2)
  <2> SUFFICES ASSUME Told(u, Run, wallet, known) PROVE Told(Tail(u), Run, wallet, known2)
    OBVIOUS
  <2>1. Tells(m, Run) /\ m.amount = wallet => known2
    OBVIOUS
  <2>2. ~Tells(m, Run) /\ known /\ (m.type = "give" /\ m.run = Run => m.money = wallet) => known2
    OBVIOUS
  <2> HIDE DEF known, known2, wallet, m
  <2> QED BY <1>1, <2>1, <2>2, ToldTaken DEF m
<1>5. CASE Heading(p) /\ p \in server.seated
  <2>1. CASE \E i \in Fresh(d, Run) : d[i].type = "delta"
    BY <2>1 DEF MoneyKnown
  <2>2. CASE Waits(d, Run) /\ (server.reported[p] = 0 \/ p \in seen.strayMoney)
    <3>1. reported2 = 0 \/ p \in stray2
      BY <1>3, <2>2
    <3> QED BY <2>2, <3>1 DEF MoneyKnown
  <2>3. CASE ~Waits(d, Run) /\ Told(u, Run, wallet, known)
    <3>1. Told(Tail(u), Run, wallet, known2)
      BY <1>4, <2>3
    <3> QED BY <1>2, <2>3, <3>1 DEF MoneyKnown
  <2> QED BY <1>2, <1>5, <2>1, <2>2, <2>3 DEF PlayerInv, MoneyKnown
<1>6. CASE ~(Heading(p) /\ p \in server.seated)
  BY <1>6 DEF MoneyKnown
<1> QED BY <1>5, <1>6

LEMMA TakenFacts ==
  ASSUME TypeOK, NEW p \in Players, NEW type, Served(p, type)
  PROVE  /\ up[p] \in Seq(Report) /\ up[p] # <<>> /\ Head(up[p]) \in Report /\ Head(up[p]).type = type
         /\ Taken(p) \in [Players -> Seq(Report)] /\ Taken(p)[p] = Tail(up[p])
         /\ \A q \in Players \ {p} : Taken(p)[q] = up[q]
<1>1. up \in [Players -> Seq(Report)] /\ up[p] # <<>> /\ Head(up[p]).type = type
  BY Types DEF Served
<1>2. Tail(up[p]) \in Seq(Report) /\ Head(up[p]) \in Report
  BY <1>1, Tailed
<1> QED BY <1>1, <1>2 DEF Taken

LEMMA SyncMoneyKeeps ==
  ASSUME SyncInv, NEW p \in Players, SyncMoney(p)
  PROVE  SyncInv'
<1> DEFINE m == Head(up[p])
<1>1. /\ server \in Lobby /\ client \in [Players -> Game] /\ down \in [Players -> Seq(Message)]
      /\ seen \in History /\ TypeOK /\ seen.runs \in Nat
  BY Types, SharedAssumption DEF SyncInv, History
<1>2. Served(p, "money") /\ up' = Taken(p)
  BY DEF SyncMoney
<1>3. /\ up[p] \in Seq(Report) /\ up[p] # <<>> /\ m \in Report /\ m.type = "money"
      /\ up' \in [Players -> Seq(Report)] /\ up'[p] = Tail(up[p])
      /\ \A q \in Players \ {p} : up'[q] = up[q]
  BY <1>1, <1>2, TakenFacts
<1>4. m.amount \in Int
  BY <1>3, ReportFacts
<1>5. /\ server' = [server EXCEPT !.reported[p] = m.amount]
      /\ seen' = MoneySeen(p, m.run) /\ client' = client /\ down' = down
  BY DEF SyncMoney
<1>6. /\ server' \in Lobby
      /\ server'.running = server.running /\ server'.seated = server.seated
      /\ server'.inMatch = server.inMatch /\ server'.book = server.book
      /\ server'.reported[p] = m.amount
      /\ \A q \in Players \ {p} : server'.reported[q] = server.reported[q]
  BY <1>1, <1>4, <1>5 DEF Lobby
<1>7. /\ seen' \in History
      /\ seen'.wrote = seen.wrote /\ seen'.stray = seen.stray /\ seen'.runs = seen.runs
      /\ seen'.events = seen.events
      /\ p \in seen'.strayMoney <=> m.run # Run
      /\ \A q \in Players \ {p} : q \in seen'.strayMoney <=> q \in seen.strayMoney
  BY <1>1, <1>5 DEF MoneySeen, History, Run
<1>8. TypeOK'
  BY <1>1, <1>3, <1>5, <1>6, <1>7, Types DEF TypeOK, Lobby, Game, History
<1>9. Runs' /\ Books'
  BY <1>6, <1>7 DEF SyncInv, Runs, Books
<1>10. ASSUME NEW q \in Players \ {p} PROVE PlayerInv(q)'
  <2>1. Steady(q)
    BY <1>6, <1>7 DEF Steady
  <2> QED BY <1>3, <1>5, <1>6, <2>1, SamePlayer DEF SyncInv
<1>11. Delivers(p) /\ PlayerInv(p)
  BY <1>3, <1>5, <1>6, <1>7 DEF Delivers, SyncInv
<1>12. Numbered(p)' /\ Absent(p)' /\ OwnReports(p)' /\ MoneyFirst(p)' /\ Run' = Run
  BY <1>1, <1>11, Delivered
<1>13. Following(p)' /\ Removing(p)' /\ Heading(p)' = Heading(p)
  BY <1>1, <1>5, <1>6, <1>7, <1>11, DeliveredMoney
<1>14. MoneyKnown(p)'
  <2> DEFINE reported2 == m.amount
             stray2 == seen'.strayMoney
             wallet == client[p].wallet
             known == server.reported[p] = wallet \/ p \in seen.strayMoney
             known2 == reported2 = wallet \/ p \in stray2
  <2>1. /\ Tells(m, Run) /\ m.amount = wallet => known2
        /\ ~Tells(m, Run) /\ known /\ (m.type = "give" /\ m.run = Run => m.money = wallet) => known2
        /\ m.run # Run /\ (server.reported[p] = 0 \/ p \in seen.strayMoney) =>
             reported2 = 0 \/ p \in stray2
    BY <1>3, <1>7 DEF Tells
  <2>2. server'.reported[p] = reported2 /\ seen'.strayMoney = stray2
    BY <1>6
  <2>3. /\ up'[p] = Tail(up[p]) /\ client'[p] = client[p] /\ down'[p] = down[p]
        /\ (Heading(p)' => Heading(p)) /\ (p \in server'.seated <=> p \in server.seated)
    BY <1>3, <1>5, <1>6, <1>13
  <2> HIDE DEF reported2, stray2
  <2> QED BY <1>1, <1>3, <1>11, <1>12, <2>1, <2>2, <2>3, TakenMoney
<1> QED BY <1>8, <1>9, <1>10, <1>12, <1>13, <1>14 DEF SyncInv, PlayerInv

LEMMA DeltaFacts ==
  ASSUME NEW a \in Int
  PROVE  Delta(a) \in Message /\ Delta(a).type = "delta" /\ Delta(a).amount = a
BY DEF Delta, Message

\* Both players of a transfer are told.
LEMMA TransferKeeps ==
  ASSUME SyncInv, NEW p \in Players, Served(p, "give"), up' = Taken(p), client' = client,
         NEW q \in server.seated, q # p, NEW a \in Nat,
         server' = [server EXCEPT !.reported[p] = Head(up[p]).money - a, !.reported[q] = @ + a],
         down' = MoneyUpdates(p, q, a), seen' = MoneySeen(p, Head(up[p]).run)
  PROVE  SyncInv'
<1> DEFINE m == Head(up[p])
<1>1. /\ server \in Lobby /\ client \in [Players -> Game] /\ down \in [Players -> Seq(Message)]
      /\ seen \in History /\ TypeOK /\ q \in Players
  BY Types DEF SyncInv, Lobby
<1>2. /\ up[p] \in Seq(Report) /\ up[p] # <<>> /\ m \in Report /\ m.type = "give"
      /\ up' \in [Players -> Seq(Report)] /\ up'[p] = Tail(up[p])
      /\ \A r \in Players \ {p} : up'[r] = up[r]
  BY <1>1, TakenFacts
<1>3. m.money - a \in Int /\ server.reported[q] + a \in Int /\ -a \in Int /\ a \in Int
  <2>1. m.money \in Int
    BY <1>2, ReportFacts
  <2>2. server.reported[q] \in Int
    BY <1>1 DEF Lobby
  <2> QED BY <2>1, <2>2
<1>4. /\ server' \in Lobby
      /\ server'.running = server.running /\ server'.seated = server.seated
      /\ server'.inMatch = server.inMatch /\ server'.book = server.book
      /\ \A r \in Players \ {p, q} : server'.reported[r] = server.reported[r]
  BY <1>1, <1>3 DEF Lobby
<1>5. /\ Delta(-a) \in Message /\ Delta(-a).type = "delta"
      /\ Delta(a) \in Message /\ Delta(a).type = "delta"
  BY <1>3, DeltaFacts
<1>6. /\ down' \in [Players -> Seq(Message)]
      /\ down'[p] = Append(down[p], Delta(-a)) /\ down'[q] = Append(down[q], Delta(a))
      /\ \A r \in Players \ {p, q} : down'[r] = down[r]
  BY <1>1, <1>5 DEF MoneyUpdates, Sent
<1>7. /\ seen' \in History
      /\ seen'.wrote = seen.wrote /\ seen'.stray = seen.stray /\ seen'.runs = seen.runs
      /\ seen'.events = seen.events
      /\ \A r \in Players \ {p} : r \in seen'.strayMoney <=> r \in seen.strayMoney
  BY <1>1 DEF MoneySeen, History
<1>8. TypeOK'
  BY <1>1, <1>2, <1>4, <1>6, <1>7, Types DEF TypeOK, Lobby, Game, History
<1>9. Runs' /\ Books'
  BY <1>4, <1>7 DEF SyncInv, Runs, Books
<1>10. ASSUME NEW r \in Players \ {p, q} PROVE PlayerInv(r)'
  <2>1. Steady(r)
    BY <1>4, <1>7 DEF Steady
  <2> QED BY <1>2, <1>4, <1>6, <2>1, SamePlayer DEF SyncInv
<1>11. p \in server.seated
  BY <1>2 DEF SyncInv, PlayerInv, Absent
<1>12. ASSUME NEW r \in {p, q} PROVE PlayerInv(r)'
  <2>1. r \in Players /\ PlayerInv(r) /\ r \in server.seated
    BY <1>1, <1>11 DEF SyncInv
  <2>2. \E n \in Message : n.type = "delta" /\ down'[r] = Append(down[r], n)
    BY <1>5, <1>6
  <2>3. up'[r] = up[r] \/ (up[r] # <<>> /\ up'[r] = Tail(up[r]))
    BY <1>2, <2>1
  <2>4. Delivers(r)
    BY <1>4, <1>7, <2>1, <2>2, <2>3 DEF Delivers
  <2>5. down'[r] # down[r]
    <3>1. down[r] \in Seq(Message)
      BY <1>1, <2>1
    <3> QED BY <2>2, <3>1, Appended
  <2>6. /\ Numbered(r)' /\ Absent(r)' /\ OwnReports(r)' /\ MoneyFirst(r)'
    BY <1>1, <2>1, <2>4, Delivered
  <2>7. Following(r)' /\ Removing(r)' /\ MoneyKnown(r)'
    BY <1>1, <1>4, <1>7, <2>1, <2>2, <2>4, <2>5, DeliveredMoney
  <2> QED BY <2>6, <2>7 DEF PlayerInv
<1> QED BY <1>8, <1>9, <1>10, <1>12 DEF SyncInv

\* A refused transfer tells the server of the sender's money at most.
LEMMA RefusalKeeps ==
  ASSUME SyncInv, NEW p \in Players, Served(p, "give"), up' = Taken(p), client' = client,
         down' = down,
         \/ /\ server' = [server EXCEPT !.reported[p] = Head(up[p]).money]
            /\ seen' = MoneySeen(p, Head(up[p]).run)
         \/ UNCHANGED <<server, seen>>
  PROVE  SyncInv'
<1> DEFINE m == Head(up[p])
<1>1. /\ server \in Lobby /\ client \in [Players -> Game] /\ down \in [Players -> Seq(Message)]
      /\ seen \in History /\ TypeOK
  BY Types DEF SyncInv
<1>2. /\ up[p] \in Seq(Report) /\ up[p] # <<>> /\ m \in Report /\ m.type = "give"
      /\ up' \in [Players -> Seq(Report)] /\ up'[p] = Tail(up[p])
      /\ \A r \in Players \ {p} : up'[r] = up[r]
  BY <1>1, TakenFacts
<1>3. m.money \in Int
  BY <1>2, ReportFacts
<1>4. /\ server' \in Lobby
      /\ server'.running = server.running /\ server'.seated = server.seated
      /\ server'.inMatch = server.inMatch /\ server'.book = server.book
      /\ \A q \in Players \ {p} : server'.reported[q] = server.reported[q]
  <2>1. CASE server' = [server EXCEPT !.reported[p] = m.money]
    BY <1>1, <1>3, <2>1 DEF Lobby
  <2>2. CASE server' = server
    BY <1>1, <2>2
  <2> QED BY <2>1, <2>2
<1>5. /\ seen' \in History
      /\ seen'.wrote = seen.wrote /\ seen'.stray = seen.stray /\ seen'.runs = seen.runs
      /\ seen'.events = seen.events
      /\ \A q \in Players \ {p} : q \in seen'.strayMoney <=> q \in seen.strayMoney
  <2>1. CASE seen' = MoneySeen(p, m.run)
    BY <1>1, <2>1 DEF MoneySeen, History
  <2>2. CASE seen' = seen
    BY <1>1, <2>2
  <2> QED BY <2>1, <2>2
<1>6. \/ server'.reported[p] = m.money /\ (p \in seen'.strayMoney <=> m.run # Run)
      \/ server'.reported[p] = server.reported[p] /\ seen'.strayMoney = seen.strayMoney
  BY <1>1 DEF MoneySeen, History, Run, Lobby
<1>8. TypeOK'
  BY <1>1, <1>2, <1>4, <1>5, Types DEF TypeOK, Lobby, Game, History
<1>9. Runs' /\ Books'
  BY <1>4, <1>5 DEF SyncInv, Runs, Books
<1>10. ASSUME NEW q \in Players \ {p} PROVE PlayerInv(q)'
  <2>1. Steady(q)
    BY <1>4, <1>5 DEF Steady
  <2> QED BY <1>2, <1>4, <2>1, SamePlayer DEF SyncInv
<1>11. Delivers(p) /\ PlayerInv(p)
  BY <1>2, <1>4, <1>5 DEF Delivers, SyncInv
<1>12. Numbered(p)' /\ Absent(p)' /\ OwnReports(p)' /\ MoneyFirst(p)' /\ Run' = Run
  BY <1>1, <1>11, Delivered
<1>13. Following(p)' /\ Removing(p)' /\ Heading(p)' = Heading(p)
  BY <1>1, <1>4, <1>5, <1>11, DeliveredMoney
<1>14. MoneyKnown(p)'
  <2> DEFINE reported2 == server'.reported[p]
             stray2 == seen'.strayMoney
             wallet == client[p].wallet
             known == server.reported[p] = wallet \/ p \in seen.strayMoney
             known2 == reported2 = wallet \/ p \in stray2
  <2>1. /\ Tells(m, Run) /\ m.amount = wallet => known2
        /\ ~Tells(m, Run) /\ known /\ (m.type = "give" /\ m.run = Run => m.money = wallet) => known2
        /\ m.run # Run /\ (server.reported[p] = 0 \/ p \in seen.strayMoney) =>
             reported2 = 0 \/ p \in stray2
    BY <1>2, <1>6 DEF Tells
  <2>2. server'.reported[p] = reported2 /\ seen'.strayMoney = stray2
    OBVIOUS
  <2>3. /\ up'[p] = Tail(up[p]) /\ client'[p] = client[p] /\ down'[p] = down[p]
        /\ (Heading(p)' => Heading(p)) /\ (p \in server'.seated <=> p \in server.seated)
    BY <1>2, <1>4, <1>13
  <2> HIDE DEF reported2, stray2
  <2> QED BY <1>1, <1>2, <1>11, <1>12, <2>1, <2>2, <2>3, TakenMoney
<1> QED BY <1>8, <1>9, <1>10, <1>12, <1>13, <1>14 DEF SyncInv, PlayerInv

LEMMA SendTeamMoneyKeeps ==
  ASSUME SyncInv, NEW p \in Players, SendTeamMoney(p)
  PROVE  SyncInv'
<1> DEFINE m == Head(up[p])
<1>1. Served(p, "give") /\ up' = Taken(p) /\ client' = client
  BY DEF SendTeamMoney
<1>2. m.amount \in Nat
  BY <1>1, TakenFacts, ReportFacts DEF SyncInv
<1>3. CASE /\ m.to \in server.seated /\ m.to # p
           /\ server' = [server EXCEPT !.reported[p] = m.money - m.amount,
                                       !.reported[m.to] = @ + m.amount]
           /\ down' = MoneyUpdates(p, m.to, m.amount)
           /\ seen' = MoneySeen(p, m.run)
  BY <1>1, <1>2, <1>3, TransferKeeps
<1>4. CASE \/ /\ server' = [server EXCEPT !.reported[p] = m.money]
              /\ seen' = MoneySeen(p, m.run)
              /\ UNCHANGED down
           \/ UNCHANGED <<server, down, seen>>
  BY <1>1, <1>4, RefusalKeeps
<1> QED BY <1>3, <1>4 DEF SendTeamMoney

------------------------------------------------------------------------------
(* The server takes an entry *)

\* An entry is sent to q, which changes nothing about its money.
LEMMA SentEntryMoney ==
  ASSUME TypeOK, NEW q \in Players, PlayerInv(q), NEW m \in Message, m.type = "entry",
         down'[q] = Append(down[q], m), client'[q] = client[q], up'[q] = up[q],
         server'.reported[q] = server.reported[q],
         q \in seen'.strayMoney <=> q \in seen.strayMoney,
         Run' = Run, Waits(down'[q], Run') = Waits(down[q], Run),
         Heading(q)' => Heading(q), q \in server'.seated <=> q \in server.seated
  PROVE  MoneyKnown(q)'
<1> DEFINE d == down[q]
           e == down'[q]
<1>1. /\ d \in Seq(Message) /\ Len(d) \in Nat /\ Len(e) = Len(d) + 1 /\ e[Len(d) + 1] = m
      /\ \A i \in 1 .. Len(d) : e[i] = d[i] /\ i \in 1 .. Len(e)
  <2>1. d \in Seq(Message)
    BY Types
  <2>2. /\ Len(d) \in Nat /\ Len(e) = Len(d) + 1 /\ e[Len(d) + 1] = m
        /\ \A i \in 1 .. Len(d) : e[i] = d[i]
    BY <2>1, Appended
  <2>3. \A i \in 1 .. Len(d) : i \in 1 .. Len(e)
    BY <2>2
  <2> QED BY <2>1, <2>2, <2>3
<1>2. Fresh(d, Run) \subseteq Fresh(e, Run) /\ Fresh(d, Run) \subseteq 1 .. Len(d)
  <2>1. Fresh(e, Run) = Fresh(d, Run) \cup {Len(d) + 1}
    BY <1>1, FreshAppend
  <2> QED BY <2>1 DEF Fresh
<1>3. \A i \in 1 .. Len(e) : i \in 1 .. Len(d) \/ e[i] = m
  BY <1>1
<1> SUFFICES ASSUME Heading(q)', q \in server'.seated
             PROVE  MoneyKnown(q)'
  BY DEF MoneyKnown
<1>4. CASE \E i \in Fresh(d, Run) : d[i].type = "delta"
  <2>1. \E i \in Fresh(e, Run) : e[i].type = "delta"
    BY <1>1, <1>2, <1>4
  <2> QED BY <2>1 DEF MoneyKnown
<1>5. CASE Waits(d, Run) /\ (server.reported[q] = 0 \/ q \in seen.strayMoney)
  BY <1>5 DEF MoneyKnown
<1>6. CASE /\ ~Waits(d, Run)
           /\ \E i \in 1 .. Len(d) : d[i].type = "money" /\ d[i].amount = server.reported[q]
  <2>1. \E i \in 1 .. Len(e) : e[i].type = "money" /\ e[i].amount = server'.reported[q]
    BY <1>1, <1>6
  <2> QED BY <1>6, <2>1 DEF MoneyKnown
<1>7. CASE /\ ~Waits(d, Run)
           /\ \A i \in 1 .. Len(d) : d[i].type # "money"
           /\ Told(up[q], Run, client[q].wallet,
                   server.reported[q] = client[q].wallet \/ q \in seen.strayMoney)
  <2>1. \A i \in 1 .. Len(e) : e[i].type # "money"
    BY <1>1, <1>3, <1>7
  <2> QED BY <1>7, <2>1 DEF MoneyKnown
<1> QED BY <1>4, <1>5, <1>6, <1>7 DEF PlayerInv, MoneyKnown

\* news of what the server has already, or of a removed card
LEMMA EntryRefusedKeeps ==
  ASSUME SyncInv, NEW p \in Players, Served(p, "entry"), up' = Taken(p),
         UNCHANGED <<server, client, down, seen>>
  PROVE  SyncInv'
<1> DEFINE m == Head(up[p])
<1>1. TypeOK /\ up[p] \in Seq(Report)
  BY Types DEF SyncInv
<1>2. /\ up[p] # <<>> /\ m \in Report /\ m.type = "entry"
      /\ up' \in [Players -> Seq(Report)] /\ up'[p] = Tail(up[p])
      /\ \A r \in Players \ {p} : up'[r] = up[r]
  BY <1>1, TakenFacts
<1>3. TypeOK'
  BY <1>1, <1>2 DEF TypeOK
<1>4. Runs' /\ Books'
  BY DEF SyncInv, Runs, Books
<1>5. ASSUME NEW q \in Players \ {p} PROVE PlayerInv(q)'
  <2>1. Steady(q)
    BY DEF Steady
  <2> QED BY <1>2, <2>1, SamePlayer DEF SyncInv
<1>6. Delivers(p) /\ PlayerInv(p)
  BY <1>2 DEF Delivers, SyncInv
<1>7. Numbered(p)' /\ Absent(p)' /\ OwnReports(p)' /\ MoneyFirst(p)' /\ Run' = Run
  BY <1>1, <1>6, Delivered
<1>8. Following(p)' /\ Removing(p)' /\ Heading(p)' = Heading(p)
  BY <1>1, <1>6, DeliveredMoney
<1>9. MoneyKnown(p)'
  <2> DEFINE reported2 == server.reported[p]
             stray2 == seen.strayMoney
             wallet == client[p].wallet
             known == server.reported[p] = wallet \/ p \in seen.strayMoney
             known2 == reported2 = wallet \/ p \in stray2
  <2>1. /\ Tells(m, Run) /\ m.amount = wallet => known2
        /\ ~Tells(m, Run) /\ known /\ (m.type = "give" /\ m.run = Run => m.money = wallet) => known2
        /\ m.run # Run /\ (server.reported[p] = 0 \/ p \in seen.strayMoney) =>
             reported2 = 0 \/ p \in stray2
    BY <1>2 DEF Tells
  <2>2. server'.reported[p] = reported2 /\ seen'.strayMoney = stray2
    OBVIOUS
  <2>3. /\ up'[p] = Tail(up[p]) /\ client'[p] = client[p] /\ down'[p] = down[p]
        /\ (Heading(p)' => Heading(p)) /\ (p \in server'.seated <=> p \in server.seated)
    BY <1>2, <1>8
  <2> HIDE DEF reported2, stray2
  <2> QED BY <1>1, <1>2, <1>6, <1>7, <2>1, <2>2, <2>3, TakenMoney
<1> QED BY <1>3, <1>4, <1>5, <1>7, <1>8, <1>9 DEF SyncInv, PlayerInv

\* The entry m of p goes into the book, and to every peer.
Takes(p, m) ==
  /\ Served(p, "entry") /\ m = Head(up[p]) /\ up' = Taken(p) /\ client' = client
  /\ Active(p) /\ Accepts(p, m)
  /\ server' = [server EXCEPT !.book[BookOf(p, m.key)][m.key] = m.val]
  /\ down' = Sent(down, Peers(p, m.key), m)
  /\ seen' = IF m.run = seen.runs THEN seen
             ELSE [seen EXCEPT !.stray[p] = @ \cup {m.key}]

LEMMA TakesEffect ==
  ASSUME SyncInv, NEW p \in Players, NEW m, Takes(p, m)
  PROVE  /\ TypeOK' /\ Runs' /\ Books'
         /\ m \in Report /\ m \in Message /\ m.type = "entry"
         /\ m.key \in Keys /\ m.val # NoEntry
         /\ up[p] # <<>> /\ m = Head(up[p]) /\ up'[p] = Tail(up[p])
         /\ down'[p] = down[p]
         /\ \A q \in Players \ {p} : up'[q] = up[q]
         /\ \A q \in Peers(p, m.key) : down'[q] = Append(down[q], m)
         /\ \A q \in Players \ Peers(p, m.key) : down'[q] = down[q]
         /\ server'.running = server.running /\ server'.seated = server.seated
         /\ server'.inMatch = server.inMatch /\ server'.reported = server.reported
         /\ \A q \in Players, k \in Keys : server'.book[BookOf(q, k)][k] =
              IF BookOf(q, k) = BookOf(p, m.key) /\ k = m.key THEN m.val
              ELSE server.book[BookOf(q, k)][k]
         /\ server.book[BookOf(p, m.key)][m.key] = Gone => m.val = Gone
         /\ seen'.wrote = seen.wrote /\ seen'.runs = seen.runs
         /\ seen'.strayMoney = seen.strayMoney
         /\ \A q \in Players \ {p} : seen'.stray[q] = seen.stray[q]
         /\ seen.stray[p] \subseteq seen'.stray[p]
         /\ m.run # Run => m.key \in seen'.stray[p]
         /\ \A q \in Players : Delivers(q)
<1> DEFINE k == m.key
           g == BookOf(p, k)
<1>1. /\ server \in Lobby /\ client \in [Players -> Game] /\ up \in [Players -> Seq(Report)]
      /\ down \in [Players -> Seq(Message)] /\ seen \in History /\ TypeOK
  BY Types DEF SyncInv
<1>2. /\ up[p] \in Seq(Report) /\ up[p] # <<>> /\ m = Head(up[p]) /\ m \in Report /\ m.type = "entry"
      /\ up' \in [Players -> Seq(Report)] /\ up'[p] = Tail(up[p])
      /\ \A r \in Players \ {p} : up'[r] = up[r]
  BY <1>1, TakenFacts DEF Takes
<1>3. k \in Keys /\ m.val \in Data \cup {Gone} /\ m \in Message /\ m.val # NoEntry
  BY <1>2, ReportFacts, SharedAssumption
<1>4. g \in Groups /\ \A q \in Players, l \in Keys : BookOf(q, l) \in Groups
  BY <1>3, BookFacts
<1>5. m.val = Gone => k \in Cards
  <2>1. OwnReports(p) /\ 1 \in 1 .. Len(up[p]) /\ m = up[p][1]
    BY <1>2, Tailed DEF SyncInv, PlayerInv
  <2> QED BY <2>1, <1>2 DEF OwnReports
<1>6. /\ server' \in Lobby
      /\ server'.running = server.running /\ server'.seated = server.seated
      /\ server'.inMatch = server.inMatch /\ server'.reported = server.reported
      /\ \A h \in Groups, l \in Keys : server'.book[h][l] =
           IF h = g /\ l = k THEN m.val ELSE server.book[h][l]
  <2>1. server' = [server EXCEPT !.book[g][k] = m.val]
    BY DEF Takes
  <2>2. server.book \in [Groups -> [Keys -> Data \cup {Gone, NoEntry}]]
    BY <1>1 DEF Lobby
  <2>3. m.val \in Data \cup {Gone, NoEntry}
    BY <1>3
  <2> HIDE DEF k, g
  <2> QED BY <1>1, <1>3, <1>4, <2>1, <2>2, <2>3 DEF Lobby
<1>7. Peers(p, k) \subseteq Players \ {p}
  BY <1>1 DEF Peers, Lobby
<1>8. /\ down' \in [Players -> Seq(Message)] /\ down'[p] = down[p]
      /\ \A q \in Peers(p, k) : down'[q] = Append(down[q], m)
      /\ \A q \in Players \ Peers(p, k) : down'[q] = down[q]
  <2>1. down' = [q \in Players |-> IF q \in Peers(p, k) THEN Append(down[q], m) ELSE down[q]]
    BY DEF Takes, Sent
  <2>2. \A q \in Players : Append(down[q], m) \in Seq(Message)
    BY <1>1, <1>3
  <2> QED BY <1>1, <1>7, <2>1, <2>2
<1>9. /\ seen' \in History
      /\ seen'.wrote = seen.wrote /\ seen'.runs = seen.runs
      /\ seen'.events = seen.events /\ seen'.strayMoney = seen.strayMoney
      /\ \A q \in Players \ {p} : seen'.stray[q] = seen.stray[q]
      /\ seen.stray[p] \subseteq seen'.stray[p]
      /\ m.run # Run => k \in seen'.stray[p]
  <2>1. CASE m.run = seen.runs
    BY <1>1, <2>1 DEF Takes, Run
  <2>2. CASE m.run # seen.runs
    <3>1. seen' = [seen EXCEPT !.stray[p] = @ \cup {k}]
      BY <2>2 DEF Takes
    <3> HIDE DEF k
    <3> QED BY <1>1, <1>3, <3>1 DEF History
  <2> QED BY <2>1, <2>2
<1>10. TypeOK'
  BY <1>1, <1>2, <1>6, <1>8, <1>9, Types DEF TypeOK, Lobby, Game, History, Takes
<1>11. Runs'
  BY <1>6, <1>9 DEF SyncInv, Runs
<1>12. Books'
  <2> SUFFICES ASSUME NEW h \in Groups
               PROVE  /\ \A l \in Keys : server'.book[h][l] = Gone => l \in Cards
                      /\ IsFiniteSet({l \in Keys : server'.book[h][l] # NoEntry})
    BY DEF Books
  <2>1. /\ \A l \in Keys : server.book[h][l] = Gone => l \in Cards
        /\ IsFiniteSet({l \in Keys : server.book[h][l] # NoEntry})
    BY DEF SyncInv, Books
  <2>2. \A l \in Keys : server'.book[h][l] = Gone => l \in Cards
    BY <1>5, <1>6, <2>1
  <2>3. {l \in Keys : server'.book[h][l] # NoEntry}
        \subseteq {l \in Keys : server.book[h][l] # NoEntry} \cup {k}
    BY <1>6
  <2>4. IsFiniteSet({l \in Keys : server.book[h][l] # NoEntry} \cup {k})
    BY <2>1, FS_AddElement
  <2>5. IsFiniteSet({l \in Keys : server'.book[h][l] # NoEntry})
    BY <2>3, <2>4, FS_Subset
  <2> QED BY <2>2, <2>5
<1>13. server.book[g][k] = Gone => m.val = Gone
  <2>1. CASE k \in Cards
    BY <2>1 DEF Takes, Accepts
  <2>2. CASE k \notin Cards
    BY <1>3, <1>4, <2>2 DEF SyncInv, Books
  <2> QED BY <2>1, <2>2
<1>14. \A q \in Players, l \in Keys : server'.book[BookOf(q, l)][l] =
         IF BookOf(q, l) = g /\ l = k THEN m.val ELSE server.book[BookOf(q, l)][l]
  BY <1>4, <1>6
<1>15. ASSUME NEW q \in Players PROVE Delivers(q)
  <2>1. client'[q] = client[q] /\ (up'[q] = up[q] \/ (up[q] # <<>> /\ up'[q] = Tail(up[q])))
    BY <1>2 DEF Takes
  <2>2. \/ down'[q] = down[q]
        \/ /\ q \in server.seated
           /\ \E n \in Message :
                n.type \in {"entry", "delta", "over"} /\ down'[q] = Append(down[q], n)
    BY <1>2, <1>3, <1>8 DEF Peers
  <2> QED BY <1>6, <1>9, <2>1, <2>2 DEF Delivers
<1> QED BY <1>2, <1>3, <1>6, <1>8, <1>9, <1>10, <1>11, <1>12, <1>13, <1>14, <1>15

\* who reported it
LEMMA TakesReporter ==
  ASSUME SyncInv, NEW p \in Players, NEW m, Takes(p, m)
  PROVE  PlayerInv(p)'
<1> DEFINE k == m.key
<1>1. /\ TypeOK /\ up[p] \in Seq(Report) /\ PlayerInv(p)
  BY Types DEF SyncInv
<1>2. /\ m \in Report /\ m.type = "entry" /\ k \in Keys
      /\ up[p] # <<>> /\ m = Head(up[p]) /\ up'[p] = Tail(up[p])
      /\ down'[p] = down[p]
      /\ server'.running = server.running /\ server'.seated = server.seated
      /\ server'.inMatch = server.inMatch /\ server'.reported = server.reported
      /\ \A l \in Keys : server'.book[BookOf(p, l)][l] =
           IF BookOf(p, l) = BookOf(p, k) /\ l = k THEN m.val
           ELSE server.book[BookOf(p, l)][l]
      /\ seen'.wrote = seen.wrote /\ seen'.runs = seen.runs
      /\ seen'.strayMoney = seen.strayMoney
      /\ seen.stray[p] \subseteq seen'.stray[p]
      /\ m.run # Run => k \in seen'.stray[p]
      /\ Delivers(p)
  BY TakesEffect
<1>3. /\ Numbered(p)' /\ Absent(p)' /\ OwnReports(p)' /\ MoneyFirst(p)'
      /\ Run' = Run /\ Waits(down'[p], Run') = Waits(down[p], Run)
  BY <1>1, <1>2, Delivered
<1>4. client'[p] = client[p] /\ server.running
  BY DEF Takes, Active
<1>5. Heading(p)' = Heading(p) /\ \A l : Base(p, l)' = Base(p, l)
  BY <1>2, <1>3, <1>4 DEF Heading, Base
\* a report of this run: the player reads it, wrote k, and removed it
<1>6. ASSUME m.run = Run, Heading(p)
      PROVE  ~Waits(down[p], Run) /\ k \in seen.wrote[p] /\ (m.val = Gone => client[p].copy[k] = Gone)
  <2>1. 1 \in 1 .. Len(up[p]) /\ m = up[p][1]
    BY <1>1, <1>2, Tailed
  <2>2. m.run \in Nat
    BY <1>2, ReportFacts
  <2>3. ~Waits(down[p], Run)
    BY <1>1, <1>6, <2>1, <2>2 DEF PlayerInv, Numbered, Waits
  <2>4. client[p].run = Run
    BY <1>6, <2>3 DEF Heading
  <2> QED BY <1>1, <1>2, <1>4, <1>6, <2>1, <2>3, <2>4 DEF PlayerInv, OwnReports
<1>7. Following(p)'
  <2> SUFFICES ASSUME NEW l \in Keys, Heading(p), l \notin seen'.stray[p],
                      Waits(down[p], Run) \/ l \notin seen.wrote[p]
               PROVE  Follows(down[p], Run, l, Base(p, l), server'.book[BookOf(p, l)][l],
                              p \in server.seated)
    BY <1>2, <1>3, <1>5 DEF Following, BookOf
  <2>1. l # k
    BY <1>2, <1>6
  <2>2. Follows(down[p], Run, l, Base(p, l), server.book[BookOf(p, l)][l], p \in server.seated)
    BY <1>1, <1>2 DEF PlayerInv, Following
  <2> QED BY <1>2, <2>1, <2>2
<1>8. Removing(p)'
  <2> SUFFICES ASSUME NEW l \in Cards, Heading(p), p \in server.seated, l \notin seen'.stray[p],
                      server'.book[GLOBAL][l] = Gone
               PROVE  Removes(down[p], Run, l, Base(p, l))
    BY <1>2, <1>3, <1>5 DEF Removing
  <2>1. l \in Keys /\ BookOf(p, l) = GLOBAL
    BY BookFacts DEF Keys
  <2>2. CASE l = k
    <3>1. m.run = Run /\ m.val = Gone
      BY <1>2, <2>1, <2>2
    <3>2. Base(p, l) = Gone
      BY <1>6, <2>2, <3>1 DEF Base
    <3> QED BY <3>2 DEF Removes
  <2>3. CASE l # k
    <3>1. server.book[GLOBAL][l] = Gone
      BY <1>2, <2>1, <2>3
    <3> QED BY <1>1, <1>2, <3>1 DEF PlayerInv, Removing
  <2> QED BY <2>2, <2>3
<1>9. MoneyKnown(p)'
  <2> DEFINE reported2 == server.reported[p]
             stray2 == seen.strayMoney
             wallet == client[p].wallet
             known == server.reported[p] = wallet \/ p \in seen.strayMoney
             known2 == reported2 = wallet \/ p \in stray2
  <2>1. /\ Tells(m, Run) /\ m.amount = wallet => known2
        /\ ~Tells(m, Run) /\ known /\ (m.type = "give" /\ m.run = Run => m.money = wallet) => known2
        /\ m.run # Run /\ (server.reported[p] = 0 \/ p \in seen.strayMoney) =>
             reported2 = 0 \/ p \in stray2
    BY <1>2 DEF Tells
  <2>2. server'.reported[p] = reported2 /\ seen'.strayMoney = stray2
    BY <1>2
  <2>3. /\ up'[p] = Tail(up[p]) /\ client'[p] = client[p] /\ down'[p] = down[p]
        /\ (Heading(p)' => Heading(p)) /\ (p \in server'.seated <=> p \in server.seated)
    BY <1>2, <1>4, <1>5
  <2> HIDE DEF reported2, stray2
  <2> QED BY <1>1, <1>2, <1>3, <2>1, <2>2, <2>3, TakenMoney
<1> QED BY <1>3, <1>7, <1>8, <1>9 DEF PlayerInv

\* who is sent it
LEMMA TakesPeer ==
  ASSUME SyncInv, NEW p \in Players, NEW m, Takes(p, m), NEW q \in Peers(p, m.key)
  PROVE  PlayerInv(q)'
<1> DEFINE k == m.key
<1>1. /\ TypeOK /\ q \in Players \ {p} /\ q \in server.seated /\ BookOf(q, k) = BookOf(p, k)
  BY Types DEF SyncInv, Peers, Lobby
<1>2. down[q] \in Seq(Message) /\ PlayerInv(q)
  BY <1>1, Types DEF SyncInv
<1>3. /\ m \in Message /\ m.type = "entry" /\ k \in Keys /\ m.val # NoEntry
      /\ up'[q] = up[q] /\ down'[q] = Append(down[q], m)
      /\ server'.running = server.running /\ server'.seated = server.seated
      /\ server'.inMatch = server.inMatch /\ server'.reported = server.reported
      /\ \A l \in Keys : server'.book[BookOf(q, l)][l] =
           IF BookOf(q, l) = BookOf(p, k) /\ l = k THEN m.val
           ELSE server.book[BookOf(q, l)][l]
      /\ server.book[BookOf(p, k)][k] = Gone => m.val = Gone
      /\ seen'.wrote = seen.wrote /\ seen'.runs = seen.runs
      /\ seen'.strayMoney = seen.strayMoney /\ seen'.stray[q] = seen.stray[q]
      /\ Delivers(q)
  BY <1>1, TakesEffect
<1>4. /\ Numbered(q)' /\ Absent(q)' /\ OwnReports(q)' /\ MoneyFirst(q)'
      /\ Run' = Run /\ Waits(down'[q], Run') = Waits(down[q], Run)
  BY <1>1, <1>2, <1>3, Delivered
<1>5. client'[q] = client[q]
  BY DEF Takes
<1>6. Heading(q)' = Heading(q) /\ \A l : Base(q, l)' = Base(q, l)
  BY <1>3, <1>4, <1>5 DEF Heading, Base
<1>7. Following(q)'
  <2> SUFFICES ASSUME NEW l \in Keys, Heading(q), l \notin seen.stray[q],
                      Waits(down[q], Run) \/ l \notin seen.wrote[q]
               PROVE  Follows(down'[q], Run, l, Base(q, l), server'.book[BookOf(q, l)][l],
                              q \in server.seated)
    BY <1>3, <1>4, <1>6 DEF Following, BookOf
  <2> SUFFICES Follows(down'[q], Run, l, Base(q, l), server'.book[BookOf(q, l)][l], TRUE)
    BY <1>1
  <2>1. Follows(down[q], Run, l, Base(q, l), server.book[BookOf(q, l)][l], TRUE)
    BY <1>1, <1>2 DEF PlayerInv, Following
  <2>2. CASE l = k
    <3>1. server'.book[BookOf(q, l)][l] = m.val
      BY <1>1, <1>3, <2>2
    <3>2. server.book[BookOf(q, l)][l] = Gone => m.val = Gone
      BY <1>1, <1>3, <2>2
    <3>3. Follows(Append(down[q], m), Run, l, Base(q, l), m.val, TRUE)
      BY <1>2, <1>3, <2>1, <2>2, <3>2, FollowsEntry
    <3> QED BY <1>3, <3>1, <3>3
  <2>3. CASE l # k
    <3>1. server'.book[BookOf(q, l)][l] = server.book[BookOf(q, l)][l]
      BY <1>3, <2>3
    <3>2. Follows(Append(down[q], m), Run, l, Base(q, l), server.book[BookOf(q, l)][l], TRUE)
      BY <1>2, <1>3, <2>1, <2>3, FollowsOther
    <3> QED BY <1>3, <3>1, <3>2
  <2> QED BY <2>2, <2>3
<1>8. Removing(q)'
  <2> SUFFICES ASSUME NEW l \in Cards, Heading(q), l \notin seen.stray[q],
                      server'.book[GLOBAL][l] = Gone
               PROVE  Removes(Append(down[q], m), Run, l, Base(q, l))
    BY <1>3, <1>4, <1>6 DEF Removing
  <2>1. l \in Keys /\ BookOf(q, l) = GLOBAL
    BY <1>1, BookFacts DEF Keys
  <2>2. CASE l = k
    <3>1. m.val = Gone
      BY <1>1, <1>3, <2>1, <2>2
    <3> QED BY <1>2, <1>3, <2>2, <3>1, RemovesEntry
  <2>3. CASE l # k
    <3>1. server.book[GLOBAL][l] = Gone
      BY <1>3, <2>1, <2>3
    <3>2. Removes(down[q], Run, l, Base(q, l))
      BY <1>1, <1>2, <3>1 DEF PlayerInv, Removing
    <3> QED BY <1>2, <1>3, <3>2, RemovesOther
  <2> QED BY <2>2, <2>3
<1>9. MoneyKnown(q)'
  BY <1>1, <1>2, <1>3, <1>4, <1>5, <1>6, SentEntryMoney
<1> QED BY <1>4, <1>7, <1>8, <1>9 DEF PlayerInv

\* who is not: of another group, out of the match, or absent
LEMMA TakesOther ==
  ASSUME SyncInv, NEW p \in Players, NEW m, Takes(p, m),
         NEW q \in Players, q # p, q \notin Peers(p, m.key)
  PROVE  PlayerInv(q)'
<1> DEFINE k == m.key
<1>1. TypeOK /\ PlayerInv(q)
  BY DEF SyncInv
<1>2. /\ k \in Keys /\ m.val # NoEntry
      /\ up'[q] = up[q] /\ down'[q] = down[q]
      /\ server'.running = server.running /\ server'.seated = server.seated
      /\ server'.inMatch = server.inMatch /\ server'.reported = server.reported
      /\ \A l \in Keys : server'.book[BookOf(q, l)][l] =
           IF BookOf(q, l) = BookOf(p, k) /\ l = k THEN m.val
           ELSE server.book[BookOf(q, l)][l]
      /\ server.book[BookOf(p, k)][k] = Gone => m.val = Gone
      /\ seen'.wrote = seen.wrote /\ seen'.runs = seen.runs
      /\ seen'.strayMoney = seen.strayMoney /\ seen'.stray[q] = seen.stray[q]
      /\ Delivers(q)
  BY TakesEffect
<1>3. client'[q] = client[q] /\ Steady(q)
  BY <1>2 DEF Takes, Steady
<1>4. CASE BookOf(q, k) # BookOf(p, k)
  <2>1. \A l \in Keys : server'.book[BookOf(q, l)][l] = server.book[BookOf(q, l)][l]
    BY <1>2, <1>4
  <2> QED BY <1>1, <1>2, <1>3, <2>1, SameBook
<1>5. CASE BookOf(q, k) = BookOf(p, k) /\ ~(q \in server.seated /\ q \in server.inMatch)
  <2>1. /\ Numbered(q)' /\ Absent(q)' /\ OwnReports(q)' /\ MoneyFirst(q)'
        /\ Run' = Run /\ Waits(down'[q], Run') = Waits(down[q], Run)
    BY <1>1, <1>2, Delivered
  <2>2. Heading(q)' = Heading(q) /\ \A l : Base(q, l)' = Base(q, l)
    BY <1>2, <1>3, <2>1 DEF Heading, Base
  <2>3. Removing(q)' /\ MoneyKnown(q)'
    BY <1>2, <1>5, <2>2 DEF Removing, MoneyKnown, Heading
  <2>4. Following(q)'
    <3> SUFFICES ASSUME NEW l \in Keys, Heading(q), l \notin seen.stray[q],
                        Waits(down[q], Run) \/ l \notin seen.wrote[q]
                 PROVE  Follows(down[q], Run, l, Base(q, l), server'.book[BookOf(q, l)][l],
                                q \in server.seated)
      BY <1>2, <2>1, <2>2 DEF Following, BookOf
    <3>1. Follows(down[q], Run, l, Base(q, l), server.book[BookOf(q, l)][l], q \in server.seated)
      BY <1>1 DEF PlayerInv, Following
    <3>2. (q \in server.seated) = FALSE /\ down[q] = <<>>
      BY <1>1, <1>5 DEF Heading, PlayerInv, Absent
    <3>3. CASE l = k
      <4>1. server'.book[BookOf(q, l)][l] = m.val
        BY <1>2, <1>5, <3>3
      <4>2. server.book[BookOf(q, l)][l] = Gone => m.val = Gone
        BY <1>2, <1>5, <3>3
      <4>3. Follows(<<>>, Run, l, Base(q, l), server.book[BookOf(q, l)][l], FALSE)
        BY <3>1, <3>2
      <4>4. Follows(<<>>, Run, l, Base(q, l), m.val, FALSE)
        BY <1>2, <4>2, <4>3, FollowsAbsent
      <4> QED BY <3>2, <4>1, <4>4
    <3>4. CASE l # k
      BY <1>2, <3>1, <3>4
    <3> QED BY <3>3, <3>4
  <2> QED BY <2>1, <2>3, <2>4 DEF PlayerInv
<1>6. \/ BookOf(q, k) # BookOf(p, k)
      \/ BookOf(q, k) = BookOf(p, k) /\ ~(q \in server.seated /\ q \in server.inMatch)
  BY DEF Peers
<1> QED BY <1>4, <1>5, <1>6

LEMMA TeamCardOrLevelSyncKeeps ==
  ASSUME SyncInv, NEW p \in Players, TeamCardOrLevelSync(p)
  PROVE  SyncInv'
<1> DEFINE m == Head(up[p])
<1>1. CASE UNCHANGED <<server, down, seen>>
  BY <1>1, EntryRefusedKeeps DEF TeamCardOrLevelSync
<1>2. CASE Takes(p, m)
  <2>1. TypeOK' /\ Runs' /\ Books'
    BY <1>2, TakesEffect
  <2>2. \A q \in Players : PlayerInv(q)'
    BY <1>2, TakesReporter, TakesPeer, TakesOther
  <2> QED BY <2>1, <2>2 DEF SyncInv
<1> QED BY <1>1, <1>2 DEF TeamCardOrLevelSync, Takes

------------------------------------------------------------------------------
(* The lobby around it *)

\* The start of the run is the newest of what everybody seated will read, and
\* nobody else plays the run.
LEMMA StartGameKeeps ==
  ASSUME SyncInv, StartGame
  PROVE  SyncInv'
<1> DEFINE m == [type |-> "start", run |-> Run + 1]
<1>1. /\ server \in Lobby /\ client \in [Players -> Game] /\ up \in [Players -> Seq(Report)]
      /\ down \in [Players -> Seq(Message)] /\ seen \in History /\ TypeOK /\ Run \in Nat
  BY Types, SharedAssumption DEF SyncInv, History, Run
<1>2. m \in Message /\ m.type = "start" /\ m.run = Run + 1
  BY <1>1 DEF Message
<1> HIDE DEF m
<1>3. EmptyBook \in [Groups -> [Keys -> Data \cup {Gone, NoEntry}]]
      /\ \A g \in Groups, k \in Keys : EmptyBook[g][k] = NoEntry
  BY DEF EmptyBook
<1>4. /\ server' \in Lobby
      /\ server'.running = TRUE /\ server'.seated = server.seated
      /\ server'.inMatch = server.inMatch \cup server.seated /\ server'.book = EmptyBook
      /\ \A p \in server.seated : server'.reported[p] = 0
  <2> DEFINE new == [p \in Players |-> IF p \in server.seated THEN 0 ELSE server.reported[p]]
  <2>1. new \in [Players -> Int] /\ \A p \in server.seated : new[p] = 0
    BY <1>1 DEF Lobby
  <2>2. server' = [server EXCEPT !.running = TRUE, !.book = EmptyBook,
                   !.inMatch = @ \cup server.seated, !.reported = new]
    BY DEF StartGame
  <2> HIDE DEF new
  <2> QED BY <1>1, <1>3, <2>1, <2>2 DEF Lobby
<1>5. /\ down' \in [Players -> Seq(Message)]
      /\ \A q \in server.seated : down'[q] = Append(down[q], m)
      /\ \A q \in Players \ server.seated : down'[q] = down[q]
  <2>1. down' = [q \in Players |-> IF q \in server.seated THEN Append(down[q], m) ELSE down[q]]
    BY DEF StartGame, Sent, m, Run
  <2>2. \A q \in Players : Append(down[q], m) \in Seq(Message)
    BY <1>1, <1>2
  <2> QED BY <1>1, <2>1, <2>2 DEF Lobby
<1>6. /\ seen' \in History /\ seen'.runs = seen.runs + 1 /\ seen'.events = seen.events + 1
      /\ Run' = Run + 1 /\ seen.runs <= seen.events
  <2>1. seen.events + 1 \in 0 .. MaxEvents /\ seen.runs + 1 \in 0 .. MaxEvents /\ seen.runs <= seen.events
    BY <1>1, SharedAssumption DEF StartGame, Room, History, SyncInv, Runs
  <2>2. [p \in Players |-> {}] \in [Players -> SUBSET Keys]
    OBVIOUS
  <2>3. seen' = [seen EXCEPT !.runs = @ + 1, !.events = @ + 1, !.stray = [p \in Players |-> {}],
                 !.strayMoney = {}]
    BY DEF StartGame
  <2> QED BY <1>1, <2>1, <2>2, <2>3 DEF History, Run
<1>7. client' = client /\ up' = up
  BY DEF StartGame
<1>8. TypeOK'
  BY <1>1, <1>4, <1>5, <1>6, <1>7, Types DEF TypeOK, Lobby, Game, History
<1>9. Runs' /\ Books'
  <2>1. Runs'
    BY <1>1, <1>6 DEF Runs, History, Run
  <2>2. \A g \in Groups : {k \in Keys : server'.book[g][k] # NoEntry} = {}
    BY <1>3, <1>4
  <2>3. Books'
    BY <1>3, <1>4, <2>2, FS_EmptySet, SharedAssumption DEF Books
  <2> QED BY <2>1, <2>3
<1>10. ASSUME NEW q \in server.seated PROVE PlayerInv(q)'
  <2> DEFINE d == down[q]
             e == down'[q]
  <2>1. q \in Players /\ d \in Seq(Message) /\ PlayerInv(q)
    BY <1>1, <1>10 DEF SyncInv, Lobby
  <2>2. e = Append(d, m)
    BY <1>5, <1>10
  <2>3. /\ Len(d) \in Nat /\ Len(e) = Len(d) + 1 /\ e[Len(d) + 1] = m
        /\ \A i \in 1 .. Len(d) : e[i] = d[i]
    BY <1>2, <2>1, <2>2, Appended
  <2>4. Waits(e, Run') /\ (q \in server'.seated) = TRUE
    BY <1>2, <1>4, <1>6, <1>10, <2>1, <2>2, WaitsAppend
  <2>5. \A i \in 1 .. Len(up[q]) : up[q][i] \in Report /\ up[q][i].run \in Nat
    <3>1. \A i \in 1 .. Len(up[q]) : up[q][i] \in Report
      BY <1>1, <2>1
    <3> QED BY <3>1, ReportFacts
  <2>6. \A i \in 1 .. Len(d) : d[i] \in Message /\ (d[i].type = "start" => d[i].run \in Nat)
    <3>1. \A i \in 1 .. Len(d) : d[i] \in Message
      BY <2>1
    <3> QED BY <3>1, MessageFacts
  <2>7. client[q].run \in Nat
    BY <1>1, <2>1 DEF Game
  <2>8. Numbered(q)'
    <3>1. /\ client[q].run <= Run
          /\ \A i \in 1 .. Len(up[q]) : up[q][i].run <= Run
          /\ \A i \in 1 .. Len(d) : d[i].type = "start" =>
               /\ d[i].run <= Run
               /\ client[q].run < d[i].run
               /\ \A j \in 1 .. Len(up[q]) : up[q][j].run < d[i].run
          /\ \A i, j \in 1 .. Len(d) :
               i < j /\ d[i].type = "start" /\ d[j].type = "start" => d[i].run < d[j].run
      BY <2>1 DEF PlayerInv, Numbered
    <3> HIDE DEF d, e
    <3>2. \A i \in 1 .. Len(e) : (i \in 1 .. Len(d) /\ e[i] = d[i]) \/ (i = Len(d) + 1 /\ e[i] = m)
      BY <2>3
    <3>3. client[q].run <= Run + 1 /\ \A i \in 1 .. Len(up[q]) : up[q][i].run <= Run + 1
      BY <1>1, <2>5, <2>7, <3>1
    <3>4. \A i \in 1 .. Len(e) : e[i].type = "start" =>
            /\ e[i].run <= Run + 1
            /\ client[q].run < e[i].run
            /\ \A j \in 1 .. Len(up[q]) : up[q][j].run < e[i].run
      <4> SUFFICES ASSUME NEW i \in 1 .. Len(e), e[i].type = "start"
                   PROVE  /\ e[i].run <= Run + 1
                          /\ client[q].run < e[i].run
                          /\ \A j \in 1 .. Len(up[q]) : up[q][j].run < e[i].run
        OBVIOUS
      <4>1. CASE i \in 1 .. Len(d) /\ e[i] = d[i]
        BY <1>1, <2>6, <3>1, <4>1
      <4>2. CASE i = Len(d) + 1 /\ e[i] = m
        BY <1>1, <1>2, <2>5, <2>7, <3>1, <4>2
      <4> QED BY <3>2, <4>1, <4>2
    <3>5. \A i, j \in 1 .. Len(e) :
            i < j /\ e[i].type = "start" /\ e[j].type = "start" => e[i].run < e[j].run
      <4> SUFFICES ASSUME NEW i \in 1 .. Len(e), NEW j \in 1 .. Len(e), i < j,
                          e[i].type = "start", e[j].type = "start"
                   PROVE  e[i].run < e[j].run
        OBVIOUS
      <4>1. i \in 1 .. Len(d) /\ e[i] = d[i]
        BY <2>3
      <4>2. CASE j \in 1 .. Len(d) /\ e[j] = d[j]
        BY <3>1, <4>1, <4>2
      <4>3. CASE j = Len(d) + 1 /\ e[j] = m
        BY <1>1, <1>2, <2>6, <3>1, <4>1, <4>3
      <4> QED BY <3>2, <4>2, <4>3
    <3> QED BY <1>6, <1>7, <3>3, <3>4, <3>5 DEF Numbered, e
  <2>9. Absent(q)'
    BY <2>4 DEF Absent
  <2>10. OwnReports(q)'
    <3>1. \A i \in 1 .. Len(up[q]) : up[q][i].run # Run + 1
      BY <1>1, <2>1, <2>5 DEF PlayerInv, Numbered
    <3>2. \A i \in 1 .. Len(up[q]) :
            up[q][i].type = "entry" /\ up[q][i].val = Gone => up[q][i].key \in Cards
      BY <2>1 DEF PlayerInv, OwnReports
    <3> QED BY <1>6, <1>7, <3>1, <3>2 DEF OwnReports
  <2>11. Following(q)'
    <3> SUFFICES ASSUME NEW k \in Keys
                 PROVE  Follows(e, Run', k, Base(q, k)', server'.book[BookOf(q, k)][k],
                                q \in server'.seated)
      BY DEF Following, BookOf
    <3>1. Base(q, k)' = Start
      BY <2>4 DEF Base
    <3>2. server'.book[BookOf(q, k)][k] = NoEntry
      BY <1>3, <1>4, <2>1, BookFacts
    <3>3. Follows(Append(d, m), Run', k, Start, NoEntry, q \in server'.seated)
      BY <1>2, <1>6, <2>1, FollowsStart
    <3> QED BY <2>2, <3>1, <3>2, <3>3
  <2>12. Removing(q)'
    <3>1. \A k \in Cards : server'.book[GLOBAL][k] # Gone
      BY <1>3, <1>4, SharedAssumption DEF Keys, Groups
    <3> QED BY <3>1 DEF Removing
  <2>13. MoneyFirst(q)'
    <3>1. \A i \in 1 .. Len(d) : d[i].type = "money" =>
            up[q] = <<>> /\ \A j \in 1 .. (i - 1) : d[j].type = "entry"
      BY <2>1 DEF PlayerInv, MoneyFirst
    <3>2. ASSUME NEW i \in 1 .. Len(e), e[i].type = "money"
          PROVE  up[q] = <<>> /\ \A j \in 1 .. (i - 1) : e[j].type = "entry"
      <4> HIDE DEF d, e
      <4>1. i \in 1 .. Len(d)
        BY <1>2, <2>3, <3>2
      <4>2. \A j \in 1 .. (i - 1) : j \in 1 .. Len(d)
        BY <2>3, <4>1
      <4> QED BY <2>3, <3>1, <3>2, <4>1, <4>2
    <3> QED BY <1>7, <3>2 DEF MoneyFirst
  <2>14. MoneyKnown(q)'
    BY <1>4, <1>10, <2>4 DEF MoneyKnown
  <2> QED BY <2>8, <2>9, <2>10, <2>11, <2>12, <2>13, <2>14 DEF PlayerInv
<1>11. ASSUME NEW q \in Players \ server.seated PROVE PlayerInv(q)'
  <2>1. /\ up'[q] = <<>> /\ down'[q] = <<>> /\ client'[q] = client[q]
        /\ client[q].run \in Nat /\ client[q].run <= Run
    BY <1>1, <1>5, <1>7 DEF SyncInv, PlayerInv, Absent, Numbered, Game
  <2>2. ~Heading(q)'
    BY <1>1, <1>6, <2>1 DEF Heading, Waits
  <2>3. Numbered(q)' /\ Absent(q)' /\ OwnReports(q)' /\ MoneyFirst(q)'
    BY <1>1, <1>6, <2>1 DEF Numbered, Absent, OwnReports, MoneyFirst
  <2> QED BY <2>2, <2>3 DEF PlayerInv, Following, Removing, MoneyKnown
<1> QED BY <1>8, <1>9, <1>10, <1>11 DEF SyncInv

LEMMA FinishMatchKeeps ==
  ASSUME SyncInv, FinishMatch
  PROVE  SyncInv'
<1> DEFINE m == [type |-> "over"]
<1>1. /\ server \in Lobby /\ client \in [Players -> Game] /\ up \in [Players -> Seq(Report)]
      /\ down \in [Players -> Seq(Message)] /\ seen \in History /\ TypeOK
  BY Types DEF SyncInv
<1>2. m \in Message /\ m.type = "over"
  BY DEF Message
<1> HIDE DEF m
<1>3. /\ server' \in Lobby /\ server'.running = FALSE
      /\ server'.seated = server.seated /\ server'.book = server.book
  BY <1>1 DEF FinishMatch, Lobby
<1>4. /\ down' \in [Players -> Seq(Message)]
      /\ \A q \in Players : \/ down'[q] = down[q]
                            \/ q \in server.seated /\ down'[q] = Append(down[q], m)
  <2>1. down' = [q \in Players |-> IF q \in server.seated \cap server.inMatch
                                   THEN Append(down[q], m) ELSE down[q]]
    BY DEF FinishMatch, Sent, m
  <2>2. \A q \in Players : Append(down[q], m) \in Seq(Message)
    BY <1>1, <1>2
  <2> QED BY <1>1, <2>1, <2>2
<1>5. client' = client /\ up' = up /\ seen' = seen
  BY DEF FinishMatch
<1>6. TypeOK'
  BY <1>1, <1>3, <1>4, <1>5, Types DEF TypeOK, Lobby, Game, History
<1>7. Runs' /\ Books'
  BY <1>3, <1>5 DEF SyncInv, Runs, Books
<1>8. ASSUME NEW q \in Players PROVE PlayerInv(q)'
  <2>1. Delivers(q) /\ PlayerInv(q)
    BY <1>2, <1>3, <1>4, <1>5 DEF Delivers, SyncInv
  <2>2. Numbered(q)' /\ Absent(q)' /\ OwnReports(q)' /\ MoneyFirst(q)'
    BY <1>1, <2>1, Delivered
  <2>3. ~Heading(q)'
    BY <1>3 DEF Heading
  <2> QED BY <2>2, <2>3 DEF PlayerInv, Following, Removing, MoneyKnown
<1> QED BY <1>6, <1>7, <1>8 DEF SyncInv

\* What an absent player has is older than the book, but contradicts nothing in it.
LEMMA DropKeeps ==
  ASSUME SyncInv, NEW p \in Players, Drop(p)
  PROVE  SyncInv'
<1>1. /\ server \in Lobby /\ client \in [Players -> Game] /\ up \in [Players -> Seq(Report)]
      /\ down \in [Players -> Seq(Message)] /\ seen \in History /\ TypeOK
  BY Types DEF SyncInv
<1>2. /\ server' \in Lobby /\ server'.running = server.running
      /\ server'.seated = server.seated \ {p} /\ server'.inMatch = server.inMatch
      /\ server'.book = server.book /\ server'.reported = server.reported
  BY <1>1 DEF Drop, Lobby
<1>3. /\ up' \in [Players -> Seq(Report)] /\ up'[p] = <<>>
      /\ \A q \in Players \ {p} : up'[q] = up[q]
      /\ down' \in [Players -> Seq(Message)] /\ down'[p] = <<>>
      /\ \A q \in Players \ {p} : down'[q] = down[q]
  BY <1>1 DEF Drop
<1>4. /\ seen' \in History /\ seen'.wrote = seen.wrote /\ seen'.stray = seen.stray
      /\ seen'.strayMoney = seen.strayMoney /\ seen'.runs = seen.runs
      /\ seen'.events = seen.events + 1
  <2>1. seen.events + 1 \in 0 .. MaxEvents
    BY <1>1, SharedAssumption DEF Drop, Room, History
  <2> QED BY <1>1, <2>1 DEF Drop, History
<1>5. client' = client
  BY DEF Drop
<1>6. TypeOK'
  BY <1>1, <1>2, <1>3, <1>4, <1>5, Types DEF TypeOK, Lobby, Game, History
<1>7. Runs' /\ Books'
  <2>1. seen.runs \in Nat /\ seen.events \in Nat
    BY <1>1, SharedAssumption DEF History
  <2>2. Runs'
    BY <1>2, <1>4, <2>1 DEF SyncInv, Runs
  <2>3. Books'
    BY <1>2 DEF SyncInv, Books
  <2> QED BY <2>2, <2>3
<1>8. ASSUME NEW q \in Players \ {p} PROVE PlayerInv(q)'
  <2>1. Steady(q)
    BY <1>2, <1>4 DEF Steady
  <2> QED BY <1>2, <1>3, <1>5, <2>1, SamePlayer DEF SyncInv
<1>9. Run' = Run /\ (p \in server'.seated) = FALSE /\ PlayerInv(p)
  BY <1>2, <1>4 DEF Run, SyncInv
<1>10. ~Waits(down'[p], Run')
  BY <1>3 DEF Waits
<1>11. Numbered(p)' /\ Absent(p)' /\ OwnReports(p)' /\ MoneyFirst(p)'
  BY <1>3, <1>5, <1>9 DEF PlayerInv, Numbered, Absent, OwnReports, MoneyFirst
<1>12. Removing(p)' /\ MoneyKnown(p)'
  BY <1>9 DEF Removing, MoneyKnown
<1>13. Following(p)'
  <2> SUFFICES ASSUME NEW k \in Keys, Heading(p)', k \notin seen.stray[p], k \notin seen.wrote[p]
               PROVE  Follows(<<>>, Run, k, client[p].copy[k], server.book[BookOf(p, k)][k], FALSE)
    BY <1>2, <1>3, <1>4, <1>5, <1>9, <1>10 DEF Following, BookOf, Base
  <2>1. client[p].run = Run /\ Heading(p)
    BY <1>2, <1>5, <1>9, <1>10 DEF Heading
  <2>2. ~Waits(down[p], Run)
    <3>1. client[p].run \in Nat
      BY <1>1 DEF Game
    <3> QED BY <1>9, <2>1, <3>1 DEF PlayerInv, Numbered, Waits
  <2>3. Follows(down[p], Run, k, client[p].copy[k], server.book[BookOf(p, k)][k],
                p \in server.seated)
    BY <1>9, <2>1, <2>2 DEF PlayerInv, Following, Base
  <2> QED BY <2>3, EmptyMail DEF Follows
<1> QED BY <1>6, <1>7, <1>8, <1>11, <1>12, <1>13 DEF SyncInv, PlayerInv

\* Who returns is sent the book, which brings its game up to date but for what
\* it removed itself, and its money.
LEMMA RejoinKeeps ==
  ASSUME SyncInv, NEW p \in Players, Rejoin(p)
  PROVE  SyncInv'
<1> DEFINE m == [type |-> "money", amount |-> server.reported[p]]
           r == IF server.running /\ p \notin server.inMatch THEN <<>> ELSE Replay(p)
           d == down'[p]
<1>1. /\ server \in Lobby /\ client \in [Players -> Game] /\ up \in [Players -> Seq(Report)]
      /\ down \in [Players -> Seq(Message)] /\ seen \in History /\ TypeOK /\ Books
      /\ PlayerInv(p)
  BY Types DEF SyncInv
<1>2. m \in Message /\ m.type = "money" /\ m.amount = server.reported[p]
  BY <1>1 DEF Message, Lobby
<1> HIDE DEF m
<1>3. /\ r \in Seq(Message) /\ Len(r) \in Nat
      /\ \A i \in 1 .. Len(r) : r[i].type = "entry"
  <2>1. CASE server.running /\ p \notin server.inMatch
    <3>1. r = <<>>
      BY <2>1
    <3> HIDE DEF r
    <3> QED BY <3>1
  <2>2. CASE ~(server.running /\ p \notin server.inMatch)
    <3>1. r = Replay(p)
      BY <2>2
    <3>2. /\ Replay(p) \in Seq(Message) /\ Len(Replay(p)) \in Nat
          /\ \A i \in 1 .. Len(Replay(p)) : Replay(p)[i].type = "entry"
      BY <1>1, ReplayFacts
    <3> HIDE DEF r
    <3> QED BY <3>1, <3>2
  <2> QED BY <2>1, <2>2
<1>4. server.running /\ p \in server.inMatch => r = Replay(p)
  OBVIOUS
<1>5. /\ down' \in [Players -> Seq(Message)] /\ d = Append(r, m)
      /\ \A q \in Players \ {p} : down'[q] = down[q]
  <2>1. down' = [down EXCEPT ![p] = r \o <<m>>]
    BY DEF Rejoin, m
  <2> HIDE DEF r
  <2>2. r \o <<m>> = Append(r, m) /\ Append(r, m) \in Seq(Message)
    BY <1>2, <1>3
  <2> QED BY <1>1, <2>1, <2>2
<1> HIDE DEF r
<1>6. /\ Len(d) = Len(r) + 1 /\ d[Len(d)] = m
      /\ \A i \in 1 .. Len(d) : i = Len(d) \/ (i \in 1 .. Len(r) /\ d[i] = r[i])
      /\ \A i \in 1 .. Len(r) : d[i].type = "entry"
  <2>1. /\ Len(Append(r, m)) = Len(r) + 1 /\ Append(r, m)[Len(r) + 1] = m
        /\ \A i \in 1 .. Len(r) : Append(r, m)[i] = r[i]
    BY <1>2, <1>3, Appended
  <2> HIDE DEF d
  <2> QED BY <1>3, <1>5, <2>1
<1>7. /\ server' \in Lobby /\ server'.running = server.running
      /\ server'.seated = server.seated \cup {p} /\ server'.inMatch = server.inMatch
      /\ server'.book = server.book /\ server'.reported = server.reported
  BY <1>1 DEF Rejoin, Lobby
<1>8. /\ seen' \in History
      /\ seen'.wrote[p] =
           {k \in seen.wrote[p] :
              server.book[BookOf(p, k)][k] = NoEntry \/ client[p].copy[k] = Gone}
      /\ \A q \in Players \ {p} : seen'.wrote[q] = seen.wrote[q]
      /\ seen'.stray = seen.stray /\ seen'.strayMoney = seen.strayMoney
      /\ seen'.runs = seen.runs /\ seen'.events = seen.events
  <2> DEFINE w == {k \in seen.wrote[p] :
                     server.book[BookOf(p, k)][k] = NoEntry \/ client[p].copy[k] = Gone}
  <2>1. seen' = [seen EXCEPT !.wrote[p] = w]
    BY <1>1 DEF Rejoin, History
  <2>2. w \in SUBSET Keys
    BY <1>1 DEF History
  <2> HIDE DEF w
  <2>3. /\ seen' \in History /\ seen'.wrote[p] = w
        /\ \A q \in Players \ {p} : seen'.wrote[q] = seen.wrote[q]
        /\ seen'.stray = seen.stray /\ seen'.strayMoney = seen.strayMoney
        /\ seen'.runs = seen.runs /\ seen'.events = seen.events
    BY <1>1, <2>1, <2>2 DEF History
  <2> QED BY <2>3 DEF w
<1>9. client' = client /\ up' = up
  BY DEF Rejoin
<1>10. TypeOK'
  BY <1>1, <1>5, <1>7, <1>8, <1>9, Types DEF TypeOK, Lobby, Game, History
<1>11. Runs' /\ Books'
  BY <1>7, <1>8 DEF SyncInv, Runs, Books
<1>12. ASSUME NEW q \in Players \ {p} PROVE PlayerInv(q)'
  <2>1. Steady(q)
    BY <1>7, <1>8 DEF Steady
  <2> QED BY <1>5, <1>7, <1>9, <2>1, SamePlayer DEF SyncInv
<1>13. up[p] = <<>> /\ down[p] = <<>> /\ (p \in server.seated) = FALSE
  BY <1>1 DEF Rejoin, PlayerInv, Absent
<1>14. Run' = Run /\ (p \in server'.seated) = TRUE
  BY <1>7, <1>8 DEF Run
<1>15. \A i \in 1 .. Len(d) : d[i].type # "start"
  BY <1>2, <1>6
<1>16. ~Waits(d, Run') /\ ~Waits(down[p], Run)
  BY <1>13, <1>15 DEF Waits
<1>17. Numbered(p)'
  BY <1>1, <1>9, <1>13, <1>14, <1>15 DEF PlayerInv, Numbered
<1>18. Absent(p)' /\ OwnReports(p)'
  BY <1>9, <1>13, <1>14 DEF Absent, OwnReports
<1>19. MoneyFirst(p)'
  <2> SUFFICES ASSUME NEW i \in 1 .. Len(d), NEW j \in 1 .. (i - 1) PROVE d[j].type = "entry"
    BY <1>9, <1>13 DEF MoneyFirst
  <2>1. j \in 1 .. Len(r)
    BY <1>3, <1>6
  <2> QED BY <1>6, <2>1
<1>20. MoneyKnown(p)'
  <2>1. Len(d) \in 1 .. Len(d)
    BY <1>3, <1>6
  <2>2. \E i \in 1 .. Len(d) : d[i].type = "money" /\ d[i].amount = server'.reported[p]
    BY <1>2, <1>6, <1>7, <2>1
  <2> QED BY <1>14, <1>16, <2>2 DEF MoneyKnown
<1>21. ASSUME Heading(p)'
       PROVE  /\ Heading(p) /\ d = Append(Replay(p), m)
              /\ \A k : Base(p, k)' = client[p].copy[k] /\ Base(p, k) = client[p].copy[k]
  <2>1. server.running /\ p \in server.inMatch /\ client[p].run = Run
    BY <1>7, <1>9, <1>14, <1>16, <1>21 DEF Heading
  <2>2. r = Replay(p)
    BY <1>4, <2>1
  <2> QED BY <1>5, <1>9, <1>16, <2>1, <2>2 DEF Heading, Base
<1>22. Following(p)'
  <2> SUFFICES ASSUME NEW k \in Keys, Heading(p)', k \notin seen.stray[p], k \notin seen'.wrote[p]
               PROVE  Follows(d, Run, k, Base(p, k)', server.book[BookOf(p, k)][k], TRUE)
    BY <1>7, <1>8, <1>14, <1>16 DEF Following, BookOf
  <2> DEFINE e == server.book[BookOf(p, k)][k]
             base == client[p].copy[k]
  <2>1. (e = NoEntry => base = Start) /\ (base = Gone => e = Gone)
    <3>1. CASE k \in seen.wrote[p]
      BY <1>8, <3>1
    <3>2. CASE k \notin seen.wrote[p]
      <4>1. Follows(down[p], Run, k, Base(p, k), e, p \in server.seated)
        BY <1>1, <1>21, <3>2 DEF PlayerInv, Following
      <4> QED BY <1>21, <4>1 DEF Follows
    <3> QED BY <3>1, <3>2
  <2> HIDE DEF base
  <2>2. Follows(Append(Replay(p), m), Run, k, base, server.book[BookOf(p, k)][k], TRUE)
    BY <1>1, <1>2, <2>1, FollowsReplay
  <2> QED BY <1>21, <2>2 DEF base
<1>23. Removing(p)'
  <2> SUFFICES ASSUME NEW k \in Cards, Heading(p)', server.book[GLOBAL][k] = Gone
               PROVE  Removes(d, Run, k, Base(p, k)')
    BY <1>7, <1>14 DEF Removing
  <2>1. k \in Keys
    BY DEF Keys
  <2>2. Removes(Append(Replay(p), m), Run, k, Base(p, k)')
    BY <1>1, <1>2, <2>1, RemovesReplay
  <2> QED BY <1>21, <2>2
<1> QED BY <1>10, <1>11, <1>12, <1>17, <1>18, <1>19, <1>20, <1>22, <1>23 DEF SyncInv, PlayerInv

------------------------------------------------------------------------------
(* The theorems *)

LEMMA InitInv ==
  ASSUME Init
  PROVE  SyncInv
<1>1. TypeOK
  BY SharedAssumption DEF Init, TypeOK, EmptyBook, NewCopy
<1>2. Runs
  BY DEF Init, Runs
<1>3. Books
  <2>1. \A g \in Groups, k \in Keys : server.book[g][k] = NoEntry
    BY DEF Init, EmptyBook
  <2>2. \A g \in Groups : {k \in Keys : server.book[g][k] # NoEntry} = {}
    BY <2>1
  <2> QED BY <2>1, <2>2, FS_EmptySet, SharedAssumption DEF Books
<1>4. ASSUME NEW p \in Players PROVE PlayerInv(p)
  <2>1. /\ up[p] = <<>> /\ down[p] = <<>> /\ client[p].run = 0 /\ seen.runs = 0
        /\ ~server.running
    BY DEF Init
  <2>2. ~Heading(p)
    BY <2>1 DEF Heading
  <2>3. Numbered(p) /\ Absent(p) /\ OwnReports(p) /\ MoneyFirst(p)
    BY <2>1 DEF Numbered, Absent, OwnReports, MoneyFirst, Run
  <2> QED BY <2>2, <2>3 DEF PlayerInv, Following, Removing, MoneyKnown
<1> QED BY <1>1, <1>2, <1>3, <1>4 DEF SyncInv

LEMMA NextKeeps ==
  ASSUME SyncInv, [Next]_vars
  PROVE  SyncInv'
<1>1. ASSUME NEW p \in Players,
             \/ ReportEntry(p) \/ Earn(p) \/ OfferMoney(p) \/ Receive(p)
             \/ TeamCardOrLevelSync(p) \/ SyncMoney(p) \/ SendTeamMoney(p)
             \/ Drop(p) \/ Rejoin(p)
      PROVE  SyncInv'
  BY <1>1, ReportEntryKeeps, EarnKeeps, OfferMoneyKeeps, ReceiveKeeps, TeamCardOrLevelSyncKeeps,
     SyncMoneyKeeps, SendTeamMoneyKeeps, DropKeeps, RejoinKeeps
<1>2. CASE StartGame \/ FinishMatch
  BY <1>2, StartGameKeeps, FinishMatchKeeps
<1>3. CASE UNCHANGED vars
  <2>1. /\ server' = server /\ client' = client /\ up' = up /\ down' = down /\ seen' = seen
    BY <1>3 DEF vars
  <2>2. TypeOK' /\ Runs' /\ Books'
    BY <2>1 DEF SyncInv, TypeOK, Runs, Books
  <2>3. ASSUME NEW p \in Players PROVE PlayerInv(p)'
    BY <2>1, SamePlayer DEF SyncInv, Steady
  <2> QED BY <2>2, <2>3 DEF SyncInv
<1> QED BY <1>1, <1>2, <1>3 DEF Next

\* Whatever is reported, sent, lost and replayed, what a player's game will
\* have read in the end is what the server's books say, and the server knows
\* its money or is about to be told: teamCardSyncAction, teamHandLevelSyncAction,
\* syncMoneyAction, sendTeamMoneyAction and syncJoinedLobbyClientState together.
THEOREM SyncCorrect == Spec => []SyncInv
<1>1. Init => SyncInv
  BY InitInv
<1>2. SyncInv /\ [Next]_vars => SyncInv'
  BY NextKeeps
<1> QED BY <1>1, <1>2, PTL DEF Spec

\* in the run nothing of it is awaited
LEMMA InRunFacts ==
  ASSUME SyncInv, NEW p \in Players, InRun(p)
  PROVE  /\ Heading(p) /\ ~Waits(down[p], Run) /\ p \in server.seated
         /\ \A k : Base(p, k) = client[p].copy[k]
         /\ \A k : ~Under(p, k) => News(down[p], Run, k) = {}
<1>1. client[p].run = Run /\ Run \in Nat /\ Heading(p) /\ p \in server.seated
  BY Types, SharedAssumption DEF SyncInv, InRun, Heading, Run, History
<1>2. ~Waits(down[p], Run)
  BY <1>1 DEF SyncInv, PlayerInv, Numbered, Waits
<1>3. DOMAIN down[p] = 1 .. Len(down[p])
  BY Types DEF SyncInv
<1>4. \A k : ~Under(p, k) => News(down[p], Run, k) = {}
  BY <1>3 DEF Under, News, Fresh
<1> QED BY <1>1, <1>2, <1>4 DEF Base

\* A card the server removed is gone from every game in the run, or the news is
\* on its way: no late report and no return brings it back (teamCardSyncAction).
THEOREM RemovedCardsStayGoneCorrect == Spec => []RemovedCardsStayGone
<1>1. SyncInv => RemovedCardsStayGone
  <2> SUFFICES ASSUME SyncInv, NEW p \in Players, NEW k \in Cards, InRun(p),
                      server.book[GLOBAL][k] = Gone, client[p].copy[k] # Gone,
                      ~Under(p, k), k \notin seen.stray[p]
               PROVE  FALSE
    BY DEF RemovedCardsStayGone
  <2>1. /\ Heading(p) /\ p \in server.seated /\ Base(p, k) = client[p].copy[k]
        /\ News(down[p], Run, k) = {}
    BY InRunFacts
  <2>2. Removes(down[p], Run, k, Base(p, k))
    BY <2>1 DEF SyncInv, PlayerInv, Removing
  <2> QED BY <2>1, <2>2 DEF Removes
<1> QED BY <1>1, SyncCorrect, PTL

\* A player who only follows has what the server has, once no news is on its way.
THEOREM FollowersAgreeCorrect == Spec => []FollowersAgree
<1>1. SyncInv => FollowersAgree
  <2> SUFFICES ASSUME SyncInv, NEW p \in Players, NEW k \in Keys, InRun(p),
                      k \notin seen.wrote[p] \cup seen.stray[p], ~Under(p, k)
               PROVE  client[p].copy[k] = IF server.book[BookOf(p, k)][k] = NoEntry THEN Start
                                          ELSE server.book[BookOf(p, k)][k]
    BY DEF FollowersAgree
  <2>1. /\ Heading(p) /\ p \in server.seated /\ Base(p, k) = client[p].copy[k]
        /\ News(down[p], Run, k) = {}
    BY InRunFacts
  <2>2. Follows(down[p], Run, k, Base(p, k), server.book[BookOf(p, k)][k], p \in server.seated)
    BY <2>1 DEF SyncInv, PlayerInv, Following
  <2> QED BY <2>1, <2>2 DEF Follows
<1> QED BY <1>1, SyncCorrect, PTL

\* With nothing on its way between them the server knows the money of a player,
\* whatever transfers and refusals came before (sendTeamMoneyAction).
THEOREM QuietMoneyAgreesCorrect == Spec => []QuietMoneyAgrees
<1>1. SyncInv => QuietMoneyAgrees
  <2> SUFFICES ASSUME SyncInv, NEW p \in Players, InRun(p), up[p] = <<>>, down[p] = <<>>,
                      p \notin seen.strayMoney
               PROVE  server.reported[p] = client[p].wallet
    BY DEF QuietMoneyAgrees
  <2>1. Heading(p) /\ ~Waits(down[p], Run) /\ p \in server.seated
    BY InRunFacts
  <2>2. Fresh(down[p], Run) = {}
    BY EmptyMail
  <2>3. Told(up[p], Run, client[p].wallet,
             server.reported[p] = client[p].wallet \/ p \in seen.strayMoney)
    BY <2>1, <2>2 DEF SyncInv, PlayerInv, MoneyKnown
  <2> QED BY <2>3 DEF Told
<1> QED BY <1>1, SyncCorrect, PTL

=============================================================================
