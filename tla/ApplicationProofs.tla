------------------------- MODULE ApplicationProofs -------------------------
(***************************************************************************)
(* The command line and the options file of a run of the program after     *)
(* another, for command lines of any length.                               *)
(*                                                                         *)
(* exchange: the invariant of its loop says what is left to do.  If the    *)
(* blocks that remain between bottom, middle and top changed places, the   *)
(* array would be what exchanging the blocks at the beginning gives.  When *)
(* one of them is empty, it is.  That the blocks lie inside the array, and *)
(* in their order, comes from the scan that calls exchange, so the two     *)
(* are proved together (LineInv).                                          *)
(*                                                                         *)
(* The scan: its invariant (ScanInv) says where each word passed is now,   *)
(* by counting the words in front of it, and that the flags say what those *)
(* words ask for; at the end that is what the user may expect.             *)
(*                                                                         *)
(* The options file: the program is the one process of a Profile, so what  *)
(* is proved of that holds.                                                *)
(***************************************************************************)
EXTENDS Application, FiniteSetTheorems, TLAPS

N == Len(given)
Arrays == [1..N -> Words]

Types ==
  /\ given \in Seq(Words) /\ N \in Nat
  /\ argv \in Arrays
  /\ optind \in Nat /\ firstNonopt \in Nat /\ lastNonopt \in Nat /\ nextchar \in Nat

-----------------------------------------------------------------------------
(***************************************************************************)
(* exchange.                                                               *)
(***************************************************************************)
Blocks(b, m, t) ==
  /\ {b, m, t} \subseteq Nat
  /\ 1 <= b /\ b <= m /\ m <= t /\ t <= N + 1

(* Changing blocks keeps the array an array.                               *)
LEMMA SwappedType ==
  ASSUME N \in Nat, NEW a \in Arrays, NEW i \in Nat, NEW j \in Nat, NEW len \in Nat,
         1 <= i, i + len <= N + 1, 1 <= j, j + len <= N + 1
  PROVE  Swapped(a, i, j, len) \in Arrays
BY DEF Swapped, Arrays

LEMMA ExchangedType ==
  ASSUME N \in Nat, NEW a \in Arrays, NEW b, NEW m, NEW t, Blocks(b, m, t)
  PROVE  BlocksExchanged(a, b, m, t) \in Arrays
BY DEF BlocksExchanged, Arrays, Blocks

(* A round in which the block at the bottom is the shorter one leaves as   *)
(* much to exchange as it has done.                                        *)
LEMMA BottomRound ==
  ASSUME N \in Nat, NEW a \in Arrays, NEW b, NEW m, NEW t, Blocks(b, m, t),
         t - m > m - b
  PROVE  BlocksExchanged(Swapped(a, b, t - (m - b), m - b), b, m, t - (m - b))
           = BlocksExchanged(a, b, m, t)
<1> DEFINE c == Swapped(a, b, t - (m - b), m - b)
<1>1. DOMAIN c = 1..N /\ DOMAIN a = 1..N
  BY DEF Swapped, Arrays
<1>2. ASSUME NEW k \in 1..N
      PROVE  BlocksExchanged(c, b, m, t - (m - b))[k] = BlocksExchanged(a, b, m, t)[k]
  <2>1. \A x \in 1..N : c[x] = IF b <= x /\ x < b + (m - b) THEN a[x - b + (t - (m - b))]
                                  ELSE IF t - (m - b) <= x /\ x < t - (m - b) + (m - b)
                                       THEN a[x - (t - (m - b)) + b]
                                  ELSE a[x]
    BY <1>1 DEF Swapped
  <2>2. BlocksExchanged(c, b, m, (t - (m - b)))[k] =
          IF b <= k /\ k < b + ((t - (m - b)) - m) THEN c[k + (m - (b))]
          ELSE IF b + ((t - (m - b)) - m) <= k /\ k < (t - (m - b)) THEN c[k - ((t - (m - b)) - m)]
          ELSE c[k]
    BY <1>1 DEF BlocksExchanged
  <2>3. BlocksExchanged(a, b, m, t)[k] =
          IF b <= k /\ k < b + (t - m) THEN a[k + (m - b)]
          ELSE IF b + (t - m) <= k /\ k < t THEN a[k - (t - m)]
          ELSE a[k]
    BY <1>1 DEF BlocksExchanged
  <2> HIDE DEF c
  <2>4. b \in Nat /\ m \in Nat /\ t \in Nat /\ k \in Nat
    BY DEF Blocks
  <2>5. CASE k < b \/ t <= k
    BY <2>1, <2>2, <2>3, <2>4, <2>5 DEF Blocks
  <2>6. CASE b <= k /\ k < b + (t - m) - (m - b)
    <3>1. k + (m - b) \in 1..N /\ c[k + (m - b)] = a[k + (m - b)]
      BY <2>1, <2>4, <2>6 DEF Blocks
    <3> QED
      BY <2>2, <2>3, <2>4, <2>6, <3>1 DEF Blocks
  <2>7. CASE b + (t - m) - (m - b) <= k /\ k < t - (m - b)
    <3>1. PICK x \in Int : x = k - (t - (m - b) - m)
      BY <2>4
    <3>2. x \in 1..N /\ b <= x /\ x < b + (m - b) /\ x - b + (t - (m - b)) = k + (m - b)
      BY <2>4, <2>7, <3>1 DEF Blocks
    <3>3. c[x] = a[k + (m - b)]
      BY <2>1, <3>2
    <3>4. BlocksExchanged(c, b, m, (t - (m - b)))[k] = c[x]
      BY <2>2, <2>4, <2>7, <3>1 DEF Blocks
    <3> QED
      BY <2>3, <2>4, <2>7, <3>3, <3>4 DEF Blocks
  <2>8. CASE t - (m - b) <= k /\ k < t
    <3>1. k - (t - (m - b)) + b = k - (t - m)
      BY <2>4
    <3>2. c[k] = a[k - (t - m)]
      BY <2>1, <2>4, <2>8, <3>1 DEF Blocks
    <3> QED
      BY <2>2, <2>3, <2>4, <2>8, <3>2 DEF Blocks
  <2> QED
    BY <2>4, <2>5, <2>6, <2>7, <2>8
<1> QED
  BY <1>1, <1>2 DEF BlocksExchanged

(* And so does a round in which the block on top is.                       *)
LEMMA TopRound ==
  ASSUME N \in Nat, NEW a \in Arrays, NEW b, NEW m, NEW t, Blocks(b, m, t),
         t - m <= m - b
  PROVE  BlocksExchanged(Swapped(a, b, m, t - m), b + (t - m), m, t)
           = BlocksExchanged(a, b, m, t)
<1> DEFINE c == Swapped(a, b, m, t - m)
<1>1. DOMAIN c = 1..N /\ DOMAIN a = 1..N
  BY DEF Swapped, Arrays
<1>2. ASSUME NEW k \in 1..N
      PROVE  BlocksExchanged(c, b + (t - m), m, t)[k] = BlocksExchanged(a, b, m, t)[k]
  <2>1. \A x \in 1..N : c[x] = IF b <= x /\ x < b + (t - m) THEN a[x - b + m]
                                  ELSE IF m <= x /\ x < m + (t - m) THEN a[x - m + b]
                                  ELSE a[x]
    BY <1>1 DEF Swapped
  <2>2. BlocksExchanged(c, (b + (t - m)), m, t)[k] =
          IF (b + (t - m)) <= k /\ k < (b + (t - m)) + (t - m) THEN c[k + (m - ((b + (t - m))))]
          ELSE IF (b + (t - m)) + (t - m) <= k /\ k < t THEN c[k - (t - m)]
          ELSE c[k]
    BY <1>1 DEF BlocksExchanged
  <2>3. BlocksExchanged(a, b, m, t)[k] =
          IF b <= k /\ k < b + (t - m) THEN a[k + (m - b)]
          ELSE IF b + (t - m) <= k /\ k < t THEN a[k - (t - m)]
          ELSE a[k]
    BY <1>1 DEF BlocksExchanged
  <2> HIDE DEF c
  <2> QED
    BY <2>1, <2>2, <2>3 DEF Blocks
<1> QED
  BY <1>1, <1>2 DEF BlocksExchanged

(* An empty block has changed places with any other.                       *)
LEMMA NothingLeft ==
  ASSUME N \in Nat, NEW a \in Arrays, NEW b, NEW m, NEW t, Blocks(b, m, t),
         ~(t > m /\ m > b)
  PROVE  BlocksExchanged(a, b, m, t) = a
<1>1. ASSUME NEW k \in 1..N
      PROVE  BlocksExchanged(a, b, m, t)[k] = a[k]
  BY DEF BlocksExchanged, Arrays, Blocks
<1> QED
  BY <1>1 DEF BlocksExchanged, Arrays

-----------------------------------------------------------------------------
(***************************************************************************)
(* The invariant of exchange and the variables of the scan.  After a       *)
(* return of "-1" they are not looked at any more.                         *)
(***************************************************************************)
Returned == pc = "returned" /\ optc # "-1"

\* Of the first n - 1 words of a, the operands are those from f to l - 1.
Passed(a, n, f, l) ==
  \A i \in 1..(n - 1) : a[i].kind = "operand" <=> f <= i /\ i < l

InCluster ==
  /\ nextchar # 0 => /\ pc \in {"call", "short", "returned"}
                     /\ optind <= N /\ argv[optind].kind = "short"
  /\ pc = "short" => nextchar # 0

InBounds ==
  /\ 1 <= optind /\ optind <= N + 1
  /\ pc \in {"call", "short", "endmark", "test", "exchange"} \/ Returned =>
       1 <= firstNonopt /\ firstNonopt <= lastNonopt /\ lastNonopt <= optind
  /\ pc \in {"skip", "ended"} => 1 <= firstNonopt /\ firstNonopt <= optind

PassedSorted ==
  ordering = "PERMUTE" =>
    /\ pc \in {"call", "short"} \/ Returned => Passed(argv, optind, firstNonopt, lastNonopt)
    /\ pc = "skip" => Passed(argv, optind, firstNonopt, optind)
    /\ pc = "endmark" \/ (pc = "test" /\ optind # N + 1) =>
         lastNonopt = optind /\ Passed(argv, optind, firstNonopt, lastNonopt)
    /\ pc = "exchange" /\ resume = "skip" => Passed(unswapped, optind, firstNonopt, lastNonopt)

Exchanging ==
  pc = "exchange" =>
    /\ unswapped \in Arrays /\ resume \in {"skip", "ended"}
    /\ Blocks(bottom, middle, top)
    /\ BlocksExchanged(argv, bottom, middle, top)
         = BlocksExchanged(unswapped, firstNonopt, lastNonopt, optind)

LineInv == Types /\ InCluster /\ InBounds /\ PassedSorted /\ Exchanging

LEMMA ArgcIs == Types => Argc = N + 1
BY DEF Argc, Types, Arrays

LEMMA InitHolds ==
  ASSUME NEW args \in ArgLists, NEW posixlyCorrect \in BOOLEAN, LineInit(args, posixlyCorrect)
  PROVE  LineInv
<1>1. args \in Seq(Words) /\ given = args /\ argv = args
  BY ArgListsAssumption DEF LineInit, GetoptInit
<1>2. Types
  BY <1>1 DEF Types, N, Arrays, LineInit, GetoptInit
<1>3. InCluster /\ InBounds /\ Exchanging
  BY <1>2 DEF Types, InCluster, InBounds, Exchanging, Returned, LineInit, GetoptInit
<1>4. PassedSorted
  BY DEF PassedSorted, Passed, Returned, LineInit, GetoptInit
<1> QED
  BY <1>2, <1>3, <1>4 DEF LineInv

(***************************************************************************)
(* The rounds of exchange, and its return.                                 *)
(***************************************************************************)
LEMMA ExchangeBottomStep ==
  ASSUME LineInv, ExchangeBottom, given' = given
  PROVE  LineInv'
<1>1. /\ Blocks(bottom, middle, top) /\ N \in Nat /\ N' = N
      /\ middle > bottom /\ top - middle > middle - bottom
  BY DEF LineInv, Types, Exchanging, ExchangeBottom, MoreToExchange, N
<1>2. argv' \in Arrays /\ Arrays' = Arrays
  <2>1. /\ bottom \in Nat /\ top - (middle - bottom) \in Nat /\ middle - bottom \in Nat
        /\ bottom + (middle - bottom) <= N + 1
        /\ 1 <= bottom /\ 1 <= top - (middle - bottom)
        /\ top - (middle - bottom) + (middle - bottom) <= N + 1
    BY <1>1 DEF Blocks
  <2> QED
    BY <1>1, <2>1, SwappedType DEF LineInv, Types, ExchangeBottom, Arrays
<1>3. Types'
  BY <1>1, <1>2 DEF LineInv, Types, ExchangeBottom, scan
<1>4. InCluster' /\ InBounds' /\ PassedSorted'
  BY <1>1 DEF LineInv, InCluster, InBounds, PassedSorted, Passed, Returned, ExchangeBottom, scan
<1>5. Exchanging'
  <2>1. Blocks(bottom, middle, top - (middle - bottom))
    BY <1>1 DEF Blocks
  <2>2. BlocksExchanged(argv', bottom, middle, top - (middle - bottom))
          = BlocksExchanged(argv, bottom, middle, top)
    BY <1>1, BottomRound DEF LineInv, Types, ExchangeBottom
  <2>3. /\ UNCHANGED <<pc, bottom, middle, resume, unswapped, firstNonopt, lastNonopt, optind>>
        /\ top' = top - (middle - bottom) /\ pc = "exchange"
    BY DEF ExchangeBottom, scan
  <2> QED
    BY <1>1, <1>2, <2>1, <2>2, <2>3 DEF LineInv, Exchanging, Blocks
<1> QED
  BY <1>3, <1>4, <1>5 DEF LineInv

LEMMA ExchangeTopStep ==
  ASSUME LineInv, ExchangeTop, given' = given
  PROVE  LineInv'
<1>1. /\ Blocks(bottom, middle, top) /\ N \in Nat /\ N' = N
      /\ top > middle /\ top - middle <= middle - bottom
  BY DEF LineInv, Types, Exchanging, ExchangeTop, MoreToExchange, N
<1>2. argv' \in Arrays /\ Arrays' = Arrays
  <2>1. /\ bottom \in Nat /\ middle \in Nat /\ top - middle \in Nat
        /\ bottom + (top - middle) <= N + 1 /\ middle + (top - middle) <= N + 1
        /\ 1 <= bottom /\ 1 <= middle
    BY <1>1 DEF Blocks
  <2> QED
    BY <1>1, <2>1, SwappedType DEF LineInv, Types, ExchangeTop, Arrays
<1>3. Types'
  BY <1>1, <1>2 DEF LineInv, Types, ExchangeTop, scan
<1>4. InCluster' /\ InBounds' /\ PassedSorted'
  BY <1>1 DEF LineInv, InCluster, InBounds, PassedSorted, Passed, Returned, ExchangeTop, scan
<1>5. Exchanging'
  <2>1. Blocks(bottom + (top - middle), middle, top)
    BY <1>1 DEF Blocks
  <2>2. BlocksExchanged(argv', bottom + (top - middle), middle, top)
          = BlocksExchanged(argv, bottom, middle, top)
    BY <1>1, TopRound DEF LineInv, Types, ExchangeTop
  <2>3. /\ UNCHANGED <<pc, middle, top, resume, unswapped, firstNonopt, lastNonopt, optind>>
        /\ bottom' = bottom + (top - middle) /\ pc = "exchange"
    BY DEF ExchangeTop, scan
  <2> QED
    BY <1>1, <1>2, <2>1, <2>2, <2>3 DEF LineInv, Exchanging, Blocks
<1> QED
  BY <1>3, <1>4, <1>5 DEF LineInv

(* Nothing is left to exchange, so all is exchanged.                       *)
LEMMA AllExchanged ==
  ASSUME LineInv, pc = "exchange", ~MoreToExchange
  PROVE  argv = BlocksExchanged(unswapped, firstNonopt, lastNonopt, optind)
<1>1. BlocksExchanged(argv, bottom, middle, top) = argv
  BY NothingLeft DEF LineInv, Types, Exchanging, MoreToExchange
<1> QED
  BY <1>1 DEF LineInv, Exchanging

LEMMA ExchangeDoneStep ==
  ASSUME LineInv, ExchangeDone, given' = given
  PROVE  LineInv'
<1> DEFINE f == firstNonopt
           l == lastNonopt
           o == optind
<1>1. /\ N \in Nat /\ N' = N /\ f \in Nat /\ l \in Nat /\ o \in Nat
      /\ 1 <= f /\ f <= l /\ l <= o /\ o <= N + 1
      /\ resume \in {"skip", "ended"} /\ unswapped \in Arrays
  BY DEF LineInv, Types, InBounds, Exchanging, ExchangeDone, N
<1>2. /\ firstNonopt' = f + (o - l) /\ lastNonopt' = o /\ pc' = resume
      /\ argv' = argv /\ optind' = o /\ nextchar' = nextchar /\ ordering' = ordering
      /\ optc' = optc
  BY DEF ExchangeDone
<1>3. Types'
  BY <1>1, <1>2 DEF LineInv, Types, Arrays
<1>4. InCluster' /\ InBounds' /\ Exchanging'
  BY <1>1, <1>2 DEF LineInv, InCluster, InBounds, Exchanging, Returned, ExchangeDone
<1>5. PassedSorted'
  <2>1. SUFFICES ASSUME ordering = "PERMUTE", resume = "skip"
                 PROVE  Passed(argv, o, f + (o - l), o)
    BY <1>1, <1>2 DEF PassedSorted, Returned
  <2>2. Passed(unswapped, o, f, l)
    BY <2>1 DEF LineInv, PassedSorted, ExchangeDone
  <2>3. argv = BlocksExchanged(unswapped, f, l, o)
    BY AllExchanged DEF ExchangeDone
  <2>4. SUFFICES ASSUME NEW i \in 1..(o - 1)
                 PROVE  argv[i].kind = "operand" <=> f + (o - l) <= i /\ i < o
    BY DEF Passed
  <2>5. argv[i] = IF f <= i /\ i < f + (o - l) THEN unswapped[i + (l - f)]
                  ELSE IF f + (o - l) <= i /\ i < o THEN unswapped[i - (o - l)]
                  ELSE unswapped[i]
    BY <1>1, <2>3 DEF BlocksExchanged, Arrays
  <2> HIDE DEF f, l, o
  <2>6. CASE f <= i /\ i < f + (o - l)
    <3>1. PICK j \in Int : j = i + (l - f)
      BY <1>1
    <3>2. j \in 1..(o - 1) /\ ~(j < l) /\ argv[i] = unswapped[j]
      BY <1>1, <2>5, <2>6, <3>1
    <3> QED
      BY <1>1, <2>2, <2>6, <3>2 DEF Passed
  <2>7. CASE f + (o - l) <= i /\ i < o
    <3>1. PICK j \in Int : j = i - (o - l)
      BY <1>1
    <3>2. j \in 1..(o - 1) /\ f <= j /\ j < l /\ argv[i] = unswapped[j]
      BY <1>1, <2>5, <2>7, <3>1
    <3> QED
      BY <1>1, <2>2, <2>7, <3>2 DEF Passed
  <2>8. CASE i < f
    BY <1>1, <2>2, <2>5, <2>8 DEF Passed
  <2> QED
    BY <1>1, <2>6, <2>7, <2>8
<1> QED
  BY <1>3, <1>4, <1>5 DEF LineInv

(***************************************************************************)
(* Calls of exchange begin with all to do.                                 *)
(***************************************************************************)
LEMMA BeginExchangeStep ==
  ASSUME LineInv, BeginExchange(optind', "skip") \/ BeginExchange(optind', "ended"),
         optind' \in Nat, optind' <= N + 1, lastNonopt <= optind',
         1 <= firstNonopt, firstNonopt <= lastNonopt,
         UNCHANGED <<argv, given, firstNonopt, lastNonopt>>
  PROVE  Exchanging'
<1>1. /\ pc' = "exchange" /\ resume' \in {"skip", "ended"} /\ unswapped' = argv
      /\ bottom' = firstNonopt /\ middle' = lastNonopt /\ top' = optind'
      /\ N' = N
  BY DEF BeginExchange, N
<1>2. Blocks(firstNonopt, lastNonopt, optind')
  BY DEF Blocks, LineInv, Types
<1> QED
  BY <1>1, <1>2 DEF Exchanging, Blocks, Arrays, LineInv, Types

LEMMA ExchangeBehindStep ==
  ASSUME LineInv, ExchangeBehind, given' = given
  PROVE  LineInv'
<1>1. Types' /\ InCluster' /\ InBounds'
  BY DEF LineInv, Types, N, Arrays, InCluster, InBounds, Returned, ExchangeBehind, BeginExchange, scan
<1>2. PassedSorted'
  BY DEF LineInv, PassedSorted, Passed, Returned, ExchangeBehind, BeginExchange, scan
<1>3. Exchanging'
  <2>1. /\ BeginExchange(optind', "skip") /\ optind' \in Nat /\ optind' <= N + 1
        /\ lastNonopt <= optind' /\ 1 <= firstNonopt /\ firstNonopt <= lastNonopt
        /\ UNCHANGED <<argv, given, firstNonopt, lastNonopt>>
    BY DEF LineInv, Types, InBounds, ExchangeBehind, BeginExchange, scan
  <2> QED
    BY <2>1, BeginExchangeStep
<1> QED
  BY <1>1, <1>2, <1>3 DEF LineInv

LEMMA ExchangeEndMarkStep ==
  ASSUME LineInv, ExchangeEndMark, given' = given
  PROVE  LineInv'
<1>1. Argc = N + 1
  BY ArgcIs DEF LineInv
<1>2. /\ optind' = optind + 1 /\ optind' \in Nat /\ optind' <= N + 1
      /\ lastNonopt <= optind /\ 1 <= firstNonopt /\ firstNonopt <= lastNonopt
      /\ UNCHANGED <<argv, given, firstNonopt, lastNonopt, nextchar, ordering>>
      /\ BeginExchange(optind', "ended") /\ nextchar = 0
  BY <1>1 DEF LineInv, Types, InBounds, InCluster, ExchangeEndMark, AtEndMark
<1>3. Types' /\ InCluster' /\ InBounds'
  BY <1>2 DEF LineInv, Types, N, Arrays, InCluster, InBounds, Returned, BeginExchange
<1>4. PassedSorted'
  BY <1>2 DEF PassedSorted, Returned, BeginExchange
<1>5. Exchanging'
  BY <1>2, BeginExchangeStep DEF LineInv, Types
<1> QED
  BY <1>3, <1>4, <1>5 DEF LineInv

(***************************************************************************)
(* The other steps do not change the array.  Each passes a word whose kind *)
(* it has looked at, or only moves the boundaries.                         *)
(***************************************************************************)
Elsewhere == pc' # "exchange" /\ argv' = argv /\ given' = given /\ ordering' = ordering

LEMMA NothingBehindStep ==
  ASSUME LineInv, NothingBehind, given' = given
  PROVE  LineInv'
<1>1. Elsewhere /\ Exchanging'
  BY DEF NothingBehind, Elsewhere, Exchanging
<1>2. Types' /\ InCluster' /\ InBounds'
  BY DEF LineInv, Types, N, Arrays, InCluster, InBounds, Returned, NothingBehind, Behind
<1>3. PassedSorted'
  BY DEF LineInv, Types, InBounds, PassedSorted, Passed, Returned, NothingBehind, Behind
<1> QED
  BY <1>1, <1>2, <1>3 DEF LineInv

LEMMA InOrderStep ==
  ASSUME LineInv, InOrder, given' = given
  PROVE  LineInv'
BY DEF LineInv, Types, N, Arrays, InCluster, InBounds, PassedSorted, Exchanging, Returned,
       InOrder, scan

LEMMA SkipOperandsStep ==
  ASSUME LineInv, SkipOperands, given' = given
  PROVE  LineInv'
<1>1. Argc = N + 1
  BY ArgcIs DEF LineInv
<1>2. PICK i \in optind..(N + 1) :
        /\ \A j \in optind..(i - 1) : IsOperand(j)
        /\ optind' = i /\ lastNonopt' = i
  BY <1>1 DEF SkipOperands
<1>3. Elsewhere /\ Exchanging'
  BY DEF SkipOperands, Elsewhere, Exchanging
<1>4. Types' /\ InCluster' /\ InBounds'
  BY <1>2 DEF LineInv, Types, N, Arrays, InCluster, InBounds, Returned, SkipOperands
<1>5. PassedSorted'
  <2>1. SUFFICES ASSUME ordering = "PERMUTE"
                 PROVE  Passed(argv, i, firstNonopt, i)
    BY <1>2 DEF PassedSorted, SkipOperands, Returned
  <2>2. Passed(argv, optind, firstNonopt, optind)
    BY <2>1 DEF LineInv, PassedSorted, SkipOperands
  <2> QED
    BY <1>2, <2>2 DEF Passed, IsOperand, LineInv, Types, InBounds, SkipOperands
<1> QED
  BY <1>3, <1>4, <1>5 DEF LineInv

LEMMA EndMarkStep ==
  ASSUME LineInv, PassEndMark \/ Ended \/ NoEndMark, given' = given
  PROVE  LineInv'
<1>1. Argc = N + 1
  BY ArgcIs DEF LineInv
<1>2. CASE PassEndMark
  <2>1. Types' /\ InCluster' /\ InBounds'
    BY <1>1, <1>2 DEF LineInv, Types, N, Arrays, InCluster, InBounds, Returned, PassEndMark, AtEndMark
  <2> QED
    BY <1>2, <2>1 DEF LineInv, PassedSorted, Exchanging, Returned, PassEndMark
<1>3. CASE Ended
  <2>1. Types' /\ InCluster' /\ InBounds'
    BY <1>1, <1>3 DEF LineInv, Types, N, Arrays, InCluster, InBounds, Returned, Ended
  <2>2. PassedSorted'
    BY <1>1, <1>3 DEF LineInv, PassedSorted, Returned, Ended, N
  <2> QED
    BY <1>3, <2>1, <2>2 DEF LineInv, Exchanging, Ended
<1>4. CASE NoEndMark
  <2>1. Types' /\ InCluster' /\ InBounds'
    BY <1>4 DEF LineInv, Types, N, Arrays, InCluster, InBounds, Returned, NoEndMark, scan
  <2>2. PassedSorted'
    BY <1>4 DEF LineInv, PassedSorted, Passed, Returned, NoEndMark, scan
  <2> QED
    BY <1>4, <2>1, <2>2 DEF LineInv, Exchanging, NoEndMark
<1> QED
  BY <1>2, <1>3, <1>4

LEMMA LastReturnStep ==
  ASSUME LineInv, AllScanned \/ StopAtOperand, given' = given
  PROVE  LineInv'
<1>1. Types'
  BY DEF LineInv, Types, N, Arrays, AllScanned, StopAtOperand, scan
<1>2. InCluster' /\ InBounds'
  BY ArgcIs DEF LineInv, Types, N, InCluster, InBounds, Returned, AllScanned, StopAtOperand, Return, scan
<1>3. PassedSorted' /\ Exchanging'
  BY DEF PassedSorted, Exchanging, Returned, AllScanned, StopAtOperand, Return
<1> QED
  BY <1>1, <1>2, <1>3 DEF LineInv

(* An option is passed, and is no operand.                                 *)
LEMMA LongOptionStep ==
  ASSUME LineInv, LongOption, given' = given
  PROVE  LineInv'
<1>1. /\ optind' = optind + 1 /\ optind # N + 1 /\ argv[optind].kind = "long"
      /\ pc = "test" /\ pc' = "returned"
      /\ UNCHANGED <<argv, firstNonopt, lastNonopt, nextchar, ordering>>
  BY ArgcIs DEF LongOption, Return, LineInv
<1>2. Types' /\ InCluster' /\ InBounds' /\ Exchanging'
  BY <1>1 DEF LineInv, Types, N, Arrays, InCluster, InBounds, Returned, Exchanging
<1>3. PassedSorted'
  <2>1. SUFFICES ASSUME ordering = "PERMUTE"
                 PROVE  Passed(argv, optind + 1, firstNonopt, lastNonopt)
    BY <1>1 DEF PassedSorted
  <2>2. lastNonopt = optind /\ Passed(argv, optind, firstNonopt, lastNonopt)
    BY <1>1, <2>1 DEF LineInv, PassedSorted
  <2> QED
    BY <1>1, <2>2 DEF Passed, LineInv, Types
<1> QED
  BY <1>2, <1>3 DEF LineInv

LEMMA ClusterStep ==
  ASSUME LineInv, BeginCluster \/ ContinueCluster, given' = given
  PROVE  LineInv'
<1>1. Argc = N + 1
  BY ArgcIs DEF LineInv
<1>2. Types' /\ Exchanging'
  BY DEF LineInv, Types, N, Arrays, Exchanging, BeginCluster, ContinueCluster, scan
<1>3. InCluster' /\ InBounds'
  BY <1>1 DEF LineInv, Types, N, InCluster, InBounds, Returned, BeginCluster, ContinueCluster, scan
<1>4. PassedSorted'
  BY <1>1 DEF LineInv, PassedSorted, Passed, Returned, BeginCluster, ContinueCluster, scan
<1> QED
  BY <1>2, <1>3, <1>4 DEF LineInv

LEMMA ShortOptionStep ==
  ASSUME LineInv, ShortOption, given' = given
  PROVE  LineInv'
<1>1. /\ pc = "short" /\ pc' = "returned" /\ nextchar # 0 /\ optind <= N
      /\ argv[optind].kind = "short"
      /\ UNCHANGED <<argv, firstNonopt, lastNonopt, ordering>>
      /\ \/ nextchar' = 0 /\ optind' = optind + 1
         \/ nextchar' = nextchar + 1 /\ optind' = optind
  BY DEF ShortOption, Return, LineInv, InCluster
<1>2. Types' /\ InCluster' /\ InBounds' /\ Exchanging'
  BY <1>1 DEF LineInv, Types, N, Arrays, InCluster, InBounds, Returned, Exchanging
<1>3. PassedSorted'
  <2>1. SUFFICES ASSUME ordering = "PERMUTE"
                 PROVE  Passed(argv, optind', firstNonopt, lastNonopt)
    BY <1>1 DEF PassedSorted
  <2>2. Passed(argv, optind, firstNonopt, lastNonopt)
    BY <1>1, <2>1 DEF LineInv, PassedSorted
  <2> QED
    BY <1>1, <2>2 DEF Passed, LineInv, Types, InBounds
<1> QED
  BY <1>2, <1>3 DEF LineInv

LEMMA LoopStep ==
  ASSUME LineInv, WrongOption \/ NextOption \/ LastOption
  PROVE  LineInv'
<1>1. CASE WrongOption \/ LastOption
  BY <1>1 DEF WrongOption, LastOption, getoptVars, scan, swap, LineInv, Types, N, Arrays, InCluster,
              InBounds, PassedSorted, Passed, Returned, Exchanging, Blocks
<1>2. CASE NextOption
  <2>1. Types' /\ InCluster' /\ InBounds' /\ Exchanging'
    BY <1>2 DEF NextOption, scan, LineInv, Types, N, Arrays, InCluster, InBounds, Returned, Exchanging
  <2>2. PassedSorted'
    BY <1>2 DEF NextOption, scan, LineInv, PassedSorted, Passed, Returned
  <2> QED
    BY <2>1, <2>2 DEF LineInv
<1> QED
  BY <1>1, <1>2

LEMMA NextHolds == LineInv /\ [ParseOptions]_lineVars => LineInv'
<1> SUFFICES ASSUME LineInv, [ParseOptions]_lineVars
             PROVE  LineInv'
  OBVIOUS
<1>1. CASE UNCHANGED lineVars
  BY <1>1 DEF lineVars, getoptVars, scan, swap, LineInv, Types, N, Arrays, InCluster,
              InBounds, PassedSorted, Passed, Returned, Exchanging, Blocks
<1>2. CASE Scan
  BY <1>2, ExchangeBottomStep, ExchangeTopStep, ExchangeDoneStep, ExchangeBehindStep,
     NothingBehindStep, InOrderStep, SkipOperandsStep, ExchangeEndMarkStep, EndMarkStep,
     LastReturnStep, LongOptionStep, ClusterStep, ShortOptionStep
     DEF Scan, GetoptLong
<1> QED
  BY <1>1, <1>2, LoopStep DEF ParseOptions

-----------------------------------------------------------------------------
(***************************************************************************)
(* The scan as a whole.  Array is the command line as the scan sees it:    *)
(* while exchange is at work, as exchange was given it.                    *)
(***************************************************************************)
Array == IF pc = "exchange" THEN unswapped ELSE argv

\* Of the first i words, those that are no operands.
Fronts(i) == Cardinality({j \in 1..i : given[j].kind # "operand"})

\* Where word i is while the operands passed are those in [f, l).
Spot(i, f, l) ==
  IF given[i].kind = "operand" THEN f - 1 + (i - Fronts(i))
  ELSE IF Fronts(i) < f THEN Fronts(i) ELSE Fronts(i) + (l - f)

Placed(a, o, f, l) ==
  /\ Fronts(o - 1) = o - 1 - (l - f)
  /\ \A i \in 1..(o - 1) : a[Spot(i, f, l)] = given[i]
Untouched(a, o) == \A i \in o..N : a[i] = given[i]

\* What the words before o are like, and what they ask for.
Clean(o) == \A i \in 1..(o - 1) : ~Stops(given[i])
Right(o) == \A i \in 1..(o - 1) : ~Wrong(given[i])
Heeded(o) ==
  \A flag \in {"opt_version", "opt_help"} :
    flags[flag] <=> \E i \in 1..(o - 1) : Names(given[i], flag)

\* Before "--", behind it, and when the scan has come to its end.
Scanning ==
  \/ pc \in {"call", "short", "skip", "endmark"}
  \/ pc = "exchange" /\ resume = "skip"
  \/ pc = "returned" /\ optc \in {"0", "m"}
  \/ pc = "test" /\ optind # N + 1
Marked == pc = "ended" \/ (pc = "exchange" /\ resume = "ended")
AtEnd == (pc = "test" /\ optind = N + 1) \/ (pc = "returned" /\ optc = "-1")

Last == IF pc \in {"skip", "ended"} THEN optind ELSE lastNonopt
FirstOperand ==
  IF pc = "test" /\ firstNonopt # lastNonopt THEN firstNonopt ELSE optind

ScanTypes ==
  /\ ordering \in {"PERMUTE", "REQUIRE_ORDER"}
  /\ flags \in [DOMAIN StaticFlags -> BOOLEAN]
  /\ pc \in {"call", "skip", "endmark", "ended", "test", "short", "exchange", "returned"}
  /\ pc = "returned" => optc \in {"0", "m", "?", "-1"}

Order ==
  ordering = "REQUIRE_ORDER" =>
    pc \notin {"skip", "exchange"} /\ (Scanning => firstNonopt = lastNonopt)

AtWord ==
  optind <= N =>
    /\ pc \in {"endmark", "test"} /\ ordering = "PERMUTE" => argv[optind].kind # "operand"
    /\ pc = "test" => argv[optind] # EndOfOptions

Letters ==
  nextchar # 0 /\ Scanning =>
    /\ nextchar <= Len(argv[optind].chars)
    /\ \A c \in 1..(nextchar - 1) : argv[optind].chars[c] \in ShortOpts

Known ==
  /\ Scanning \/ Marked =>
       /\ Placed(Array, optind, firstNonopt, Last) /\ Untouched(Array, optind)
       /\ Right(optind) /\ Heeded(optind)
  /\ Scanning => Clean(optind)
  /\ Marked => /\ optind > 1 /\ given[optind - 1] = EndOfOptions
               /\ Clean(optind - 1)

InPlace ==
  /\ \A i \in 1..N : argv[Place(i)] = given[i]
  /\ FirstOperand = 1 + Ahead(N)
Fine ==
  /\ \A i \in Before : ~Wrong(given[i])
  /\ \A flag \in {"opt_version", "opt_help"} : flags[flag] <=> Asks(flag)

Settled ==
  /\ AtEnd => InPlace /\ Fine
  /\ pc = "returned" /\ optc = "?" => \E i \in Before : Wrong(given[i])
  /\ outcome # "parsing" => pc = "returned" /\ outcome = Declared
  /\ outcome \notin {"parsing", "failure"} => optc = "-1"

ScanInv == ScanTypes /\ Order /\ AtWord /\ Letters /\ Known /\ Settled

-----------------------------------------------------------------------------
(***************************************************************************)
(* Counting words.                                                         *)
(***************************************************************************)
FrontsIn(a, b) == {j \in a..b : given[j].kind # "operand"}

LEMMA FrontsInFinite ==
  ASSUME NEW a \in Nat, NEW b \in Nat
  PROVE  IsFiniteSet(FrontsIn(a, b)) /\ Cardinality(FrontsIn(a, b)) \in Nat
<1>1. IsFiniteSet(a..b) /\ FrontsIn(a, b) \in SUBSET (a..b)
  BY FS_Interval DEF FrontsIn
<1> QED
  BY <1>1, FS_Subset, FS_CardinalityType

\* How the first i words compare to the first n.
Counted(i, n) ==
  /\ Fronts(i) \in Nat /\ Fronts(n) \in Nat
  /\ Fronts(i) <= i /\ Fronts(n) <= n
  /\ Fronts(i) <= Fronts(n) /\ i - Fronts(i) <= n - Fronts(n)
  /\ i # 0 /\ given[i].kind # "operand" => Fronts(i) >= 1
  /\ i # 0 /\ given[i].kind = "operand" => i - Fronts(i) >= 1

LEMMA FrontsAtMost ==
  ASSUME NEW i \in Nat
  PROVE  /\ Fronts(i) \in Nat /\ Fronts(i) <= i
         /\ i # 0 /\ given[i].kind # "operand" => Fronts(i) >= 1
         /\ i # 0 /\ given[i].kind = "operand" => i - Fronts(i) >= 1
<1>1. Fronts(i) = Cardinality(FrontsIn(1, i)) /\ IsFiniteSet(FrontsIn(1, i))
  BY FrontsInFinite DEF Fronts, FrontsIn
<1>2. Fronts(i) \in Nat
  BY <1>1, FS_CardinalityType
<1>3. Fronts(i) <= i
  <2>1. FrontsIn(1, i) \in SUBSET (1..i)
    BY DEF FrontsIn
  <2>2. IsFiniteSet(1..i) /\ Cardinality(1..i) = i
    BY FS_Interval
  <2> QED
    BY <1>1, <1>2, <2>1, <2>2, FS_Subset
<1>4. ASSUME i # 0, given[i].kind # "operand"
      PROVE  Fronts(i) >= 1
  <2>1. i \in FrontsIn(1, i)
    BY <1>4 DEF FrontsIn
  <2>2. Cardinality(FrontsIn(1, i)) # 0
    BY <1>1, <2>1, FS_EmptySet
  <2> QED
    BY <1>1, <1>2, <2>2
<1>5. ASSUME i # 0, given[i].kind = "operand"
      PROVE  i - Fronts(i) >= 1
  <2>1. FrontsIn(1, i) \in SUBSET (1..(i - 1))
    BY <1>5 DEF FrontsIn
  <2>2. IsFiniteSet(1..(i - 1)) /\ Cardinality(1..(i - 1)) = i - 1
    BY <1>5, FS_Interval
  <2>3. Fronts(i) <= i - 1
    BY <1>1, <2>1, <2>2, FS_Subset
  <2> QED
    BY <1>2, <2>3
<1> QED
  BY <1>2, <1>3, <1>4, <1>5

LEMMA FrontsGrow ==
  ASSUME NEW i \in Nat, NEW n \in Nat, i <= n
  PROVE  Counted(i, n)
<1>1. PICK k \in Nat : k = i + 1
  OBVIOUS
<1> DEFINE S == FrontsIn(1, i)
           T == FrontsIn(k, n)
<1>2. Fronts(i) = Cardinality(S) /\ Fronts(n) = Cardinality(S \cup T) /\ S \cap T = {}
  <2>1. FrontsIn(1, n) = S \cup T /\ S \cap T = {}
    BY <1>1 DEF FrontsIn
  <2> QED
    BY <2>1 DEF Fronts, FrontsIn
<1>3. /\ IsFiniteSet(S) /\ Cardinality(S) \in Nat
      /\ IsFiniteSet(T) /\ Cardinality(T) \in Nat
  BY FrontsInFinite
<1>4. Cardinality(T) <= n - i
  <2>1. T \in SUBSET (k..n)
    BY DEF FrontsIn
  <2>2. /\ IsFiniteSet(k..n)
        /\ Cardinality(k..n) = IF k > n THEN 0 ELSE n - k + 1
    BY FS_Interval
  <2>3. Cardinality(T) <= Cardinality(k..n)
    BY <2>1, <2>2, FS_Subset
  <2> QED
    BY <1>1, <1>3, <2>2, <2>3
<1> HIDE DEF S, T
<1>5. Cardinality(S \cup T) = Cardinality(S) + Cardinality(T)
  <2>1. Cardinality(S \cup T) = Cardinality(S) + Cardinality(T) - Cardinality(S \cap T)
    BY <1>3, FS_Union
  <2>2. Cardinality(S \cap T) = 0
    BY <1>2, FS_EmptySet
  <2> QED
    BY <1>3, <2>1, <2>2
<1>6. Fronts(i) <= i /\ Fronts(n) <= n
  BY FrontsAtMost
<1>7. Fronts(i) <= Fronts(n) /\ i - Fronts(i) <= n - Fronts(n)
  BY <1>2, <1>3, <1>4, <1>5
<1> QED
  BY <1>6, <1>7, FrontsAtMost DEF Counted

LEMMA FrontsNext ==
  ASSUME NEW i \in Nat
  PROVE  Fronts(i + 1) = IF given[i + 1].kind = "operand" THEN Fronts(i) ELSE Fronts(i) + 1
<1>1. IsFiniteSet(FrontsIn(1, i)) /\ i + 1 \notin FrontsIn(1, i)
  BY FrontsInFinite DEF FrontsIn
<1>2. FrontsIn(1, i + 1) = IF given[i + 1].kind = "operand" THEN FrontsIn(1, i)
                           ELSE FrontsIn(1, i) \cup {i + 1}
  BY DEF FrontsIn
<1> QED
  BY <1>1, <1>2, FS_AddElement DEF Fronts, FrontsIn

-----------------------------------------------------------------------------
(***************************************************************************)
(* Where the words passed are.                                             *)
(***************************************************************************)
(* Passing an option, or "--".                                             *)
LEMMA PlacedNext ==
  ASSUME NEW a, NEW o \in Nat, NEW f \in Nat, NEW l \in Nat, 1 <= f, f <= l, l <= o,
         Placed(a, o, f, l), given[o].kind # "operand", a[o] = given[o]
  PROVE  Placed(a, o + 1, f, l)
<1>1. o - 1 \in Nat /\ (o - 1) + 1 = o
  OBVIOUS
<1>2. Fronts(o) = Fronts(o - 1) + 1
  BY <1>1, FrontsNext
<1>3. Fronts(o - 1) = o - 1 - (l - f)
  BY DEF Placed
<1>4. Fronts(o) = o - (l - f)
  BY <1>2, <1>3
<1>5. Spot(o, f, l) = o
  BY <1>4 DEF Spot
<1>6. ASSUME NEW i \in 1..o
      PROVE  a[Spot(i, f, l)] = given[i]
  BY <1>5 DEF Placed
<1>7. (o + 1) - 1 = o
  OBVIOUS
<1> QED
  BY <1>4, <1>6, <1>7 DEF Placed

(* Passing operands.                                                       *)
LEMMA PlacedOperands ==
  ASSUME NEW a, NEW o \in Nat, NEW n \in Nat, NEW f \in Nat, 1 <= f, f <= o, o <= n,
         Placed(a, o, f, o),
         \A j \in o..(n - 1) : given[j].kind = "operand" /\ a[j] = given[j]
  PROVE  Placed(a, n, f, n)
<1>1. Fronts(o - 1) = f - 1
  BY DEF Placed
<1>2. \A j \in (o - 1)..(n - 1) : Fronts(j) = f - 1
  <2>1. ASSUME NEW j \in (o - 1)..(n - 1)
        PROVE  FrontsIn(1, j) = FrontsIn(1, o - 1)
    BY DEF FrontsIn
  <2> QED
    BY <1>1, <2>1 DEF Fronts, FrontsIn
<1>3. Fronts(n - 1) = n - 1 - (n - f)
  BY <1>2
<1>4. ASSUME NEW i \in 1..(n - 1)
      PROVE  a[Spot(i, f, n)] = given[i]
  <2>1. CASE i < o
    <3>1. Counted(i, o - 1)
      BY <2>1, FrontsGrow
    <3>2. Spot(i, f, n) = Spot(i, f, o)
      BY <1>1, <3>1 DEF Spot, Counted
    <3>3. i \in 1..(o - 1)
      BY <2>1
    <3> QED
      BY <3>2, <3>3 DEF Placed
  <2>2. CASE o <= i
    <3>1. given[i].kind = "operand" /\ a[i] = given[i] /\ Fronts(i) = f - 1
      BY <1>2, <2>2
    <3>2. Spot(i, f, n) = i
      BY <3>1 DEF Spot
    <3> QED
      BY <3>1, <3>2
  <2> QED
    BY <2>1, <2>2
<1> QED
  BY <1>3, <1>4 DEF Placed

(* As long as there are no operands, it does not matter where they are.    *)
LEMMA PlacedNone ==
  ASSUME NEW a, NEW o \in Nat, NEW f \in Nat, 1 <= f, f <= o, Placed(a, o, f, f)
  PROVE  Placed(a, o, o, o)
<1>1. Fronts(o - 1) = o - 1
  BY DEF Placed
<1>2. ASSUME NEW i \in 1..(o - 1)
      PROVE  a[Spot(i, o, o)] = given[i]
  <2>1. Counted(i, o - 1)
    BY FrontsGrow
  <2>2. Spot(i, o, o) = Spot(i, f, f)
    BY <1>1, <2>1 DEF Spot, Counted
  <2> QED
    BY <2>2 DEF Placed
<1> QED
  BY <1>1, <1>2 DEF Placed

(* exchange puts the options behind the operands in their place.           *)
LEMMA PlacedExchanged ==
  ASSUME N \in Nat, NEW a \in Arrays, NEW o \in Nat, NEW f \in Nat, NEW l \in Nat,
         1 <= f, f <= l, l <= o, o <= N + 1, Placed(a, o, f, l)
  PROVE  Placed(BlocksExchanged(a, f, l, o), o, f + (o - l), o)
<1> DEFINE b == BlocksExchanged(a, f, l, o)
<1>1. Fronts(o - 1) = o - 1 - (l - f)
  BY DEF Placed
<1>2. Fronts(o - 1) = o - 1 - (o - (f + (o - l)))
  BY <1>1
<1>3. \A k \in 1..N : b[k] = IF f <= k /\ k < f + (o - l) THEN a[k + (l - f)]
                             ELSE IF f + (o - l) <= k /\ k < o THEN a[k - (o - l)]
                             ELSE a[k]
  BY DEF BlocksExchanged, Arrays
<1> HIDE DEF b
<1>4. ASSUME NEW i \in 1..(o - 1)
      PROVE  b[Spot(i, f + (o - l), o)] = given[i]
  <2>1. Counted(i, o - 1)
    BY FrontsGrow
  <2>2. PICK c \in Nat : c = Fronts(i) /\ c <= o - 1 - (l - f) /\ i - c <= l - f
    BY <1>1, <2>1 DEF Counted
  <2>3. a[Spot(i, f, l)] = given[i]
    BY DEF Placed
  <2>4. CASE given[i].kind = "operand"
    <3>1. i - c >= 1
      BY <2>1, <2>2, <2>4 DEF Counted
    <3>2. PICK s \in Nat, s1 \in Nat : s = f - 1 + (i - c) /\ s1 = f + (o - l) - 1 + (i - c)
      BY <3>1
    <3>3. Spot(i, f, l) = s /\ Spot(i, f + (o - l), o) = s1
      BY <2>2, <2>4, <3>2 DEF Spot
    <3>4. s1 \in 1..N /\ f + (o - l) <= s1 /\ s1 < o /\ s1 - (o - l) = s
      BY <2>2, <3>1, <3>2
    <3>5. b[s1] = a[s]
      BY <1>3, <3>4
    <3> QED
      BY <2>3, <3>3, <3>5
  <2>5. CASE given[i].kind # "operand"
    <3>1. c >= 1
      BY <2>1, <2>2, <2>5 DEF Counted
    <3>2. Spot(i, f + (o - l), o) = c /\ c < f + (o - l) /\ c \in 1..N
      BY <2>2, <2>5, <3>1 DEF Spot
    <3>3. Spot(i, f, l) = IF c < f THEN c ELSE c + (l - f)
      BY <2>2, <2>5 DEF Spot
    <3>4. b[c] = a[Spot(i, f, l)]
      BY <1>3, <3>2, <3>3
    <3> QED
      BY <2>3, <3>2, <3>4
  <2> QED
    BY <2>4, <2>5
<1> QED
  BY <1>2, <1>4 DEF Placed, b

(* When the scan ends behind word e, its result can be read off.           *)
LEMMA PlacedAtEnd ==
  ASSUME N \in Nat, NEW e \in 0..N, Sifted = 1..e, NEW f \in Nat, NEW l \in Nat,
         1 <= f, f <= l, l <= e + 1, f = l \/ l = e + 1,
         Placed(argv, e + 1, f, l), Untouched(argv, e + 1)
  PROVE  /\ \A i \in 1..N : argv[Place(i)] = given[i]
         /\ Ahead(N) = e - (l - f)
<1>1. ASSUME NEW i \in 0..e PROVE Ahead(i) = Fronts(i)
  <2>1. {j \in Sifted : j <= i /\ given[j].kind # "operand"}
          = {j \in 1..i : given[j].kind # "operand"}
    OBVIOUS
  <2> QED
    BY <2>1 DEF Ahead, Fronts
<1>2. Ahead(N) = Fronts(e)
  <2>1. {j \in Sifted : j <= N /\ given[j].kind # "operand"}
          = {j \in 1..e : given[j].kind # "operand"}
    OBVIOUS
  <2> QED
    BY <2>1 DEF Ahead, Fronts
<1>3. Fronts(e) = e - (l - f)
  <2>1. (e + 1) - 1 = e
    OBVIOUS
  <2> QED
    BY <2>1 DEF Placed
<1>4. ASSUME NEW i \in 1..N
      PROVE  argv[Place(i)] = given[i]
  <2>1. CASE i > e
    <3>1. Place(i) = i
      BY <2>1 DEF Place
    <3> QED
      BY <2>1, <3>1 DEF Untouched
  <2>2. CASE i <= e
    <3>1. Counted(i, e)
      BY <2>2, FrontsGrow
    <3>2. Place(i) = IF given[i].kind # "operand" THEN Fronts(i)
                     ELSE Fronts(e) + (i - Fronts(i))
      BY <1>1, <1>2, <2>2 DEF Place, N
    <3>3. Place(i) = Spot(i, f, l)
      BY <1>3, <3>1, <3>2 DEF Spot, Counted
    <3>4. i \in 1..((e + 1) - 1)
      BY <2>2
    <3> QED
      BY <3>3, <3>4 DEF Placed
  <2> QED
    BY <2>1, <2>2
<1> QED
  BY <1>2, <1>3, <1>4

-----------------------------------------------------------------------------
(***************************************************************************)
(* What the steps of the scan have in common.                              *)
(***************************************************************************)
(* What the user gave does not change.                                     *)
LEMMA Rigid ==
  ASSUME given' = given, ordering' = ordering
  PROVE  /\ N' = N /\ Before' = Before /\ Sifted' = Sifted
         /\ \A o : (Clean(o)' <=> Clean(o)) /\ (Right(o)' <=> Right(o))
         /\ \A a, o, f, l : Placed(a, o, f, l)' <=> Placed(a, o, f, l)
         /\ \A a, o : Untouched(a, o)' <=> Untouched(a, o)
         /\ \A i : Ahead(i)' = Ahead(i) /\ Place(i)' = Place(i)
         /\ flags' = flags => \A o : Heeded(o)' <=> Heeded(o)
         /\ \A flag : Asks(flag)' <=> Asks(flag)
<1>1. N' = N
  BY DEF N
<1>2. Before' = Before /\ Sifted' = Sifted
  BY DEF Before, Sifted, Stops
<1>3. \A o : Clean(o)' <=> Clean(o)
  BY DEF Clean, Stops
<1>4. \A o : Right(o)' <=> Right(o)
  BY DEF Right, Wrong
<1>5. \A a, o, f, l : Placed(a, o, f, l)' <=> Placed(a, o, f, l)
  BY DEF Placed, Spot, Fronts
<1>6. \A a, o : Untouched(a, o)' <=> Untouched(a, o)
  BY DEF Untouched, N
<1>7. \A i : Ahead(i)' = Ahead(i)
  BY DEF Ahead, Sifted, Stops
<1>8. \A i : Place(i)' = Place(i)
  BY DEF Place, Ahead, Sifted, Stops
<1>9. flags' = flags => \A o : Heeded(o)' <=> Heeded(o)
  BY DEF Heeded, Names
<1>10. \A flag : Asks(flag)' <=> Asks(flag)
  BY DEF Asks, Names, Before, Stops
<1> QED
  BY <1>1, <1>2, <1>3, <1>4, <1>5, <1>6, <1>7, <1>8, <1>9, <1>10

(* Nothing is settled before the end.                                      *)
LEMMA GoesOn == ASSUME Scanning' \/ Marked', outcome' = "parsing" PROVE Settled'
BY DEF Scanning, Marked, Settled, AtEnd

(* The next word stands where the user put it.                             *)
LEMMA NextWord ==
  ASSUME LineInv, Known, Scanning, pc # "exchange", optind <= N
  PROVE  /\ argv[optind] = given[optind] /\ given[optind] \in Words
         /\ optind \in Nat /\ optind >= 1
<1>1. optind \in 1..N /\ given \in Seq(Words) /\ N = Len(given)
  BY DEF LineInv, Types, InBounds, N
<1>2. given[optind] \in Words
  BY <1>1
<1>3. argv[optind] = given[optind]
  BY <1>1 DEF Known, Array, Untouched
<1> QED
  BY <1>1, <1>2, <1>3

(* An option is passed.                                                    *)
LEMMA OptionPassed ==
  ASSUME LineInv, Known, Scanning, pc \in {"short", "test"}, optind <= N, IsOption(argv[optind])
  PROVE  /\ Placed(argv, optind + 1, firstNonopt, lastNonopt)
         /\ Untouched(argv, optind + 1) /\ Clean(optind + 1)
         /\ optind \in Before
<1>1. /\ argv[optind] = given[optind] /\ given[optind] \in Words
      /\ optind \in Nat /\ optind >= 1
  BY NextWord
<1>2. given[optind].kind # "operand" /\ ~Stops(given[optind])
  BY <1>1, WordsAssumption DEF IsOption, Stops
<1>3. Clean(optind + 1)
  BY <1>1, <1>2 DEF Known, Clean
<1>4. optind \in Before
  BY <1>1, <1>3 DEF Clean, Before, N
<1>5. Placed(argv, optind, firstNonopt, lastNonopt)
  BY DEF Known, Array, Last
<1>6. /\ firstNonopt \in Nat /\ lastNonopt \in Nat
      /\ 1 <= firstNonopt /\ firstNonopt <= lastNonopt /\ lastNonopt <= optind
  BY DEF LineInv, Types, InBounds
<1>7. Placed(argv, optind + 1, firstNonopt, lastNonopt)
  BY <1>1, <1>2, <1>5, <1>6, PlacedNext
<1>8. Untouched(argv, optind + 1)
  BY <1>1 DEF Known, Array, Untouched
<1> QED
  BY <1>3, <1>4, <1>7, <1>8

(***************************************************************************)
(* exchange.                                                               *)
(***************************************************************************)
LEMMA ScanExchange ==
  ASSUME LineInv, ScanInv, ExchangeBottom \/ ExchangeTop,
         given' = given, outcome = "parsing", outcome' = outcome
  PROVE  ScanInv'
<1>1. /\ pc = "exchange" /\ nextchar = 0
      /\ UNCHANGED <<pc, resume, unswapped, optind, firstNonopt, lastNonopt, nextchar,
                     ordering, optc, flags>>
  BY DEF ExchangeBottom, ExchangeTop, scan, LineInv, InCluster
<1>2. ScanTypes' /\ Order' /\ AtWord' /\ Letters'
  BY <1>1 DEF ScanInv, ScanTypes, Order, Scanning, AtWord, Letters
<1>3. Array' = Array /\ Last' = Last /\ (Scanning' <=> Scanning) /\ (Marked' <=> Marked)
  BY <1>1, Rigid DEF Array, Last, Scanning, Marked
<1>4. Known'
  BY <1>1, <1>3, Rigid DEF ScanInv, Known
<1>5. Scanning \/ Marked
  BY <1>1 DEF LineInv, Exchanging, Scanning, Marked
<1>6. Settled'
  BY <1>3, <1>5, GoesOn
<1> QED
  BY <1>2, <1>4, <1>6 DEF ScanInv

LEMMA ScanExchangeDone ==
  ASSUME LineInv, ScanInv, ExchangeDone,
         given' = given, outcome = "parsing", outcome' = outcome
  PROVE  ScanInv'
<1> DEFINE f == firstNonopt
           l == lastNonopt
           o == optind
<1>1. /\ N \in Nat /\ f \in Nat /\ l \in Nat /\ o \in Nat
      /\ 1 <= f /\ f <= l /\ l <= o /\ o <= N + 1
      /\ resume \in {"skip", "ended"} /\ unswapped \in Arrays
      /\ pc = "exchange" /\ nextchar = 0
  BY DEF LineInv, Types, InCluster, InBounds, Exchanging, ExchangeDone
<1>2. /\ f' = f + (o - l) /\ l' = o /\ pc' = resume /\ o' = o
      /\ UNCHANGED <<argv, nextchar, ordering, optc, flags>>
  BY DEF ExchangeDone
<1>3. argv = BlocksExchanged(unswapped, f, l, o)
  BY <1>1, AllExchanged DEF ExchangeDone
<1>4. ordering = "PERMUTE"
  BY <1>1 DEF ScanInv, ScanTypes, Order
<1>5. ScanTypes' /\ Order' /\ AtWord' /\ Letters'
  BY <1>1, <1>2, <1>4 DEF ScanInv, ScanTypes, Order, AtWord, Letters
<1>6. Placed(unswapped, o, f, l) /\ Untouched(unswapped, o) /\ Right(o) /\ Heeded(o)
  BY <1>1 DEF ScanInv, Known, Scanning, Marked, Array, Last
<1>7. Placed(argv, o, f + (o - l), o)
  BY <1>1, <1>3, <1>6, PlacedExchanged
<1>8. Untouched(argv, o)
  BY <1>1, <1>3, <1>6 DEF Untouched, BlocksExchanged, Arrays
<1>9. Array' = argv /\ Last' = o
  BY <1>1, <1>2 DEF Array, Last
<1>10. (Scanning' <=> Scanning) /\ (Marked' <=> Marked) /\ (Scanning \/ Marked)
  BY <1>1, <1>2 DEF Scanning, Marked
<1> HIDE DEF f, l, o
<1>11. Known'
  <2>1. Placed(Array, optind, firstNonopt, Last)' /\ Untouched(Array, optind)'
    BY <1>2, <1>7, <1>8, <1>9, Rigid DEF f, l, o
  <2>2. Right(optind)' /\ Heeded(optind)'
    BY <1>2, <1>6, Rigid DEF o
  <2>3. Scanning => Clean(optind)'
    BY <1>2, Rigid DEF o, ScanInv, Known
  <2>4. Marked => /\ optind' > 1 /\ given'[optind' - 1] = EndOfOptions
                  /\ Clean(optind - 1)'
    BY <1>2, Rigid DEF o, ScanInv, Known
  <2> QED
    BY <1>10, <2>1, <2>2, <2>3, <2>4 DEF Known
<1>12. Settled'
  BY <1>10, GoesOn
<1> QED
  BY <1>5, <1>11, <1>12 DEF ScanInv

LEMMA ScanBeginExchange ==
  ASSUME LineInv, ScanInv, ExchangeBehind,
         given' = given, outcome = "parsing", outcome' = outcome
  PROVE  ScanInv'
<1>1. /\ pc = "call" /\ pc' = "exchange" /\ resume' = "skip" /\ unswapped' = argv
      /\ ordering = "PERMUTE" /\ nextchar = 0
      /\ UNCHANGED <<argv, optind, firstNonopt, lastNonopt, nextchar, ordering, optc, flags>>
  BY DEF ExchangeBehind, BeginExchange, scan
<1>2. ScanTypes' /\ Order' /\ AtWord' /\ Letters'
  BY <1>1 DEF ScanInv, ScanTypes, Order, AtWord, Letters
<1>3. Array' = Array /\ Last' = Last /\ Scanning' /\ Scanning /\ ~Marked'
  BY <1>1 DEF Array, Last, Scanning, Marked
<1>4. Known'
  BY <1>1, <1>3, Rigid DEF ScanInv, Known
<1> QED
  BY <1>2, <1>3, <1>4, GoesOn DEF ScanInv

(***************************************************************************)
(* On the way to the next word.                                            *)
(***************************************************************************)
LEMMA ScanNothingBehind ==
  ASSUME LineInv, ScanInv, NothingBehind,
         given' = given, outcome = "parsing", outcome' = outcome
  PROVE  ScanInv'
<1>1. /\ pc = "call" /\ pc' = "skip" /\ ordering = "PERMUTE" /\ nextchar = 0
      /\ UNCHANGED <<argv, optind, lastNonopt, nextchar, ordering, optc, flags>>
      /\ firstNonopt' = IF lastNonopt # optind THEN optind ELSE firstNonopt
      /\ firstNonopt = lastNonopt \/ lastNonopt = optind
  BY DEF NothingBehind, Behind
<1>2. /\ firstNonopt \in Nat /\ lastNonopt \in Nat /\ optind \in Nat
      /\ 1 <= firstNonopt /\ firstNonopt <= lastNonopt /\ lastNonopt <= optind
  BY <1>1 DEF LineInv, Types, InBounds
<1>3. ScanTypes' /\ Order' /\ AtWord' /\ Letters'
  BY <1>1 DEF ScanInv, ScanTypes, Order, AtWord, Letters
<1>4. /\ Placed(argv, optind, firstNonopt, lastNonopt) /\ Untouched(argv, optind)
      /\ Right(optind) /\ Heeded(optind) /\ Clean(optind)
  BY <1>1 DEF ScanInv, Known, Scanning, Array, Last
<1>5. Placed(argv, optind, firstNonopt', optind)
  BY <1>1, <1>2, <1>4, PlacedNone
<1>6. Array' = argv /\ Last' = optind /\ Scanning' /\ ~Marked'
  BY <1>1 DEF Array, Last, Scanning, Marked
<1>7. Known'
  BY <1>1, <1>4, <1>5, <1>6, Rigid DEF Known
<1> QED
  BY <1>3, <1>6, <1>7, GoesOn DEF ScanInv

LEMMA ScanInOrder ==
  ASSUME LineInv, ScanInv, InOrder \/ ContinueCluster,
         given' = given, outcome = "parsing", outcome' = outcome
  PROVE  ScanInv'
<1>1. /\ pc = "call" /\ pc' \in {"endmark", "short"}
      /\ pc' = "endmark" => ordering = "REQUIRE_ORDER"
      /\ UNCHANGED <<argv, optind, firstNonopt, lastNonopt, nextchar, ordering, optc, flags>>
  BY DEF InOrder, ContinueCluster, scan
<1>2. Array' = Array /\ Last' = Last /\ Scanning' /\ Scanning /\ ~Marked'
  BY <1>1 DEF Array, Last, Scanning, Marked
<1>3. ScanTypes' /\ Order' /\ AtWord' /\ Letters'
  BY <1>1, <1>2 DEF ScanInv, ScanTypes, Order, AtWord, Letters
<1>4. Known'
  BY <1>1, <1>2, Rigid DEF ScanInv, Known
<1> QED
  BY <1>2, <1>3, <1>4, GoesOn DEF ScanInv

LEMMA ScanSkipOperands ==
  ASSUME LineInv, ScanInv, SkipOperands,
         given' = given, outcome = "parsing", outcome' = outcome
  PROVE  ScanInv'
<1>1. Argc = N + 1
  BY ArgcIs DEF LineInv
<1>2. PICK i \in optind..(N + 1) :
        /\ \A j \in optind..(i - 1) : IsOperand(j)
        /\ i # N + 1 => ~IsOperand(i)
        /\ optind' = i /\ lastNonopt' = i
  BY <1>1 DEF SkipOperands
<1>3. /\ pc = "skip" /\ pc' = "endmark" /\ ordering = "PERMUTE" /\ nextchar = 0
      /\ UNCHANGED <<argv, firstNonopt, nextchar, ordering, optc, flags>>
  BY DEF SkipOperands, LineInv, InCluster, ScanInv, ScanTypes, Order
<1>4. /\ N \in Nat /\ optind \in Nat /\ i \in Nat /\ firstNonopt \in Nat
      /\ 1 <= firstNonopt /\ firstNonopt <= optind /\ optind <= i /\ i <= N + 1
  BY <1>2, <1>3 DEF LineInv, Types, InBounds
<1>5. ScanTypes' /\ Order' /\ AtWord' /\ Letters'
  <2>1. ScanTypes' /\ Order'
    BY <1>3 DEF ScanInv, ScanTypes, Order
  <2>2. AtWord'
    <3>1. N' = N
      BY <1>3, Rigid
    <3>2. optind' <= N => argv'[optind'].kind # "operand"
      BY <1>2, <1>3, <1>4 DEF IsOperand
    <3> QED
      BY <1>3, <3>1, <3>2 DEF AtWord
  <2>3. Letters'
    BY <1>3 DEF Letters
  <2> QED
    BY <2>1, <2>2, <2>3
<1>6. /\ Placed(argv, optind, firstNonopt, optind) /\ Untouched(argv, optind)
      /\ Right(optind) /\ Heeded(optind) /\ Clean(optind)
  BY <1>3 DEF ScanInv, Known, Scanning, Array, Last
<1>7. ASSUME NEW j \in optind..(i - 1)
      PROVE  /\ given[j].kind = "operand" /\ argv[j] = given[j]
             /\ ~Stops(given[j]) /\ ~Wrong(given[j])
             /\ \A flag : ~Names(given[j], flag)
  <2>1. j \in 1..N /\ argv[j] = given[j] /\ given[j].kind = "operand"
    BY <1>2, <1>4, <1>6 DEF Untouched, IsOperand
  <2>2. given[j] \in Words
    BY <2>1 DEF LineInv, Types, N
  <2> QED
    BY <1>3, <2>1, <2>2, WordsAssumption DEF Stops, Wrong, Names
<1>8. Placed(argv, i, firstNonopt, i)
  BY <1>4, <1>6, <1>7, PlacedOperands
<1>9. Untouched(argv, i)
  BY <1>4, <1>6 DEF Untouched
<1>10. Right(i) /\ Clean(i)
  BY <1>4, <1>6, <1>7 DEF Right, Clean
<1>11. Heeded(i)
  <2>1. ASSUME NEW flag
        PROVE  (\E j \in 1..(optind - 1) : Names(given[j], flag))
                 <=> (\E j \in 1..(i - 1) : Names(given[j], flag))
    <3>1. \A j \in 1..(i - 1) : j \in 1..(optind - 1) \/ j \in optind..(i - 1)
      BY <1>4
    <3>2. \A j \in 1..(optind - 1) : j \in 1..(i - 1)
      BY <1>4
    <3>3. \A j \in optind..(i - 1) : ~Names(given[j], flag)
      BY <1>7
    <3> QED
      BY <3>1, <3>2, <3>3
  <2> QED
    BY <1>6, <2>1 DEF Heeded
<1>12. Array' = argv /\ Last' = i /\ Scanning' /\ ~Marked'
  BY <1>2, <1>3 DEF Array, Last, Scanning, Marked
<1>13. Known'
  BY <1>2, <1>3, <1>8, <1>9, <1>10, <1>11, <1>12, Rigid DEF Known
<1> QED
  BY <1>5, <1>12, <1>13, GoesOn DEF ScanInv

-----------------------------------------------------------------------------
(***************************************************************************)
(* One more word that is not wrong.                                        *)
(***************************************************************************)
LEMMA OneMore ==
  ASSUME NEW o \in Nat, 1 <= o, ~Wrong(given[o]), Right(o)
  PROVE  /\ Right(o + 1)
         /\ \A flag : (\E i \in 1..((o + 1) - 1) : Names(given[i], flag))
                        <=> (\E i \in 1..(o - 1) : Names(given[i], flag)) \/ Names(given[o], flag)
<1>1. \A i \in 1..((o + 1) - 1) : i \in 1..(o - 1) \/ i = o
  OBVIOUS
<1>2. o \in 1..((o + 1) - 1) /\ \A i \in 1..(o - 1) : i \in 1..((o + 1) - 1)
  OBVIOUS
<1>3. Right(o + 1)
  BY <1>1 DEF Right
<1>4. ASSUME NEW flag
      PROVE  (\E i \in 1..((o + 1) - 1) : Names(given[i], flag))
               <=> (\E i \in 1..(o - 1) : Names(given[i], flag)) \/ Names(given[o], flag)
  BY <1>1, <1>2
<1> QED
  BY <1>3, <1>4

(***************************************************************************)
(* "--".                                                                   *)
(***************************************************************************)
LEMMA EndMarkPassed ==
  ASSUME LineInv, ScanInv, pc = "endmark", AtEndMark
  PROVE  /\ Placed(argv, optind + 1, firstNonopt, lastNonopt)
         /\ Untouched(argv, optind + 1) /\ Right(optind + 1) /\ Heeded(optind + 1)
         /\ given[optind] = EndOfOptions /\ Clean(optind)
         /\ optind \in Nat /\ 1 <= optind
<1>1. optind <= N /\ Scanning
  BY ArgcIs DEF AtEndMark, LineInv, Types, InBounds, Scanning
<1>2. /\ argv[optind] = given[optind] /\ given[optind] \in Words
      /\ optind \in Nat /\ optind >= 1
  BY <1>1, NextWord DEF ScanInv
<1>3. given[optind] = EndOfOptions /\ given[optind].kind = "end"
  BY <1>2, WordsAssumption DEF AtEndMark
<1>4. /\ Placed(argv, optind, firstNonopt, lastNonopt) /\ Untouched(argv, optind)
      /\ Right(optind) /\ Heeded(optind) /\ Clean(optind)
  BY <1>1 DEF ScanInv, Known, Array, Last
<1>5. /\ firstNonopt \in Nat /\ lastNonopt \in Nat
      /\ 1 <= firstNonopt /\ firstNonopt <= lastNonopt /\ lastNonopt <= optind
  BY DEF LineInv, Types, InBounds
<1>6. Placed(argv, optind + 1, firstNonopt, lastNonopt)
  BY <1>2, <1>3, <1>4, <1>5, PlacedNext
<1>7. Untouched(argv, optind + 1)
  BY <1>2, <1>4 DEF Untouched
<1>8. ~Wrong(given[optind]) /\ \A flag : ~Names(given[optind], flag)
  BY <1>3 DEF Wrong, Names
<1>9. Right(optind + 1) /\ Heeded(optind + 1)
  BY <1>2, <1>4, <1>8, OneMore DEF Heeded
<1> QED
  BY <1>2, <1>3, <1>4, <1>6, <1>7, <1>9

LEMMA ScanExchangeEndMark ==
  ASSUME LineInv, ScanInv, ExchangeEndMark,
         given' = given, outcome = "parsing", outcome' = outcome
  PROVE  ScanInv'
<1>1. /\ pc = "endmark" /\ pc' = "exchange" /\ resume' = "ended" /\ unswapped' = argv
      /\ AtEndMark /\ optind' = optind + 1 /\ nextchar = 0 /\ firstNonopt # lastNonopt
      /\ UNCHANGED <<argv, firstNonopt, lastNonopt, nextchar, ordering, optc, flags>>
  BY DEF ExchangeEndMark, BeginExchange, LineInv, InCluster
<1>2. ordering = "PERMUTE"
  BY <1>1 DEF ScanInv, ScanTypes, Order, Scanning
<1>3. /\ Placed(argv, optind + 1, firstNonopt, lastNonopt)
      /\ Untouched(argv, optind + 1) /\ Right(optind + 1) /\ Heeded(optind + 1)
      /\ given[optind] = EndOfOptions /\ Clean(optind)
      /\ optind \in Nat /\ 1 <= optind /\ optind' > 1 /\ optind' - 1 = optind
  BY <1>1, EndMarkPassed
<1>4. ScanTypes' /\ Order' /\ AtWord' /\ Letters'
  BY <1>1, <1>2 DEF ScanInv, ScanTypes, Order, AtWord, Letters
<1>5. Array' = argv /\ Last' = lastNonopt /\ ~Scanning' /\ Marked'
  BY <1>1 DEF Array, Last, Scanning, Marked
<1>6. Known'
  BY <1>1, <1>3, <1>5, Rigid DEF Known
<1> QED
  BY <1>4, <1>5, <1>6, GoesOn DEF ScanInv

LEMMA ScanPassEndMark ==
  ASSUME LineInv, ScanInv, PassEndMark,
         given' = given, outcome = "parsing", outcome' = outcome
  PROVE  ScanInv'
<1>1. /\ pc = "endmark" /\ pc' = "ended" /\ AtEndMark /\ optind' = optind + 1 /\ nextchar = 0
      /\ ~(firstNonopt # lastNonopt /\ lastNonopt # optind')
      /\ firstNonopt' = IF firstNonopt = lastNonopt THEN optind' ELSE firstNonopt
      /\ UNCHANGED <<argv, lastNonopt, nextchar, ordering, optc, flags>>
  BY DEF PassEndMark, LineInv, InCluster
<1>2. /\ Placed(argv, optind + 1, firstNonopt, lastNonopt)
      /\ Untouched(argv, optind + 1) /\ Right(optind + 1) /\ Heeded(optind + 1)
      /\ given[optind] = EndOfOptions /\ Clean(optind)
      /\ optind \in Nat /\ 1 <= optind /\ optind' > 1 /\ optind' - 1 = optind
  BY <1>1, EndMarkPassed
<1>3. /\ firstNonopt \in Nat /\ lastNonopt \in Nat
      /\ 1 <= firstNonopt /\ firstNonopt <= lastNonopt /\ lastNonopt <= optind
  BY <1>1 DEF LineInv, Types, InBounds
<1>4. firstNonopt = lastNonopt /\ firstNonopt' = optind + 1
  BY <1>1, <1>2, <1>3
<1>5. Placed(argv, optind + 1, optind + 1, optind + 1)
  BY <1>2, <1>3, <1>4, PlacedNone
<1>6. ScanTypes' /\ AtWord' /\ Letters'
  BY <1>1 DEF ScanInv, ScanTypes, AtWord, Letters
<1>7. Array' = argv /\ Last' = optind + 1 /\ ~Scanning' /\ Marked'
  BY <1>1 DEF Array, Last, Scanning, Marked
<1>8. Order'
  BY <1>1, <1>7 DEF Order
<1>9. Known'
  BY <1>1, <1>2, <1>4, <1>5, <1>7, Rigid DEF Known
<1> QED
  BY <1>6, <1>7, <1>8, <1>9, GoesOn DEF ScanInv

(***************************************************************************)
(* The end of the scan.                                                    *)
(***************************************************************************)
(* Without "--" all words passed count.                                    *)
LEMMA SiftedClean ==
  ASSUME N \in Nat, NEW o \in 1..(N + 1), Clean(o),
         o = N + 1 \/ (Stops(given[o]) /\ given[o] # EndOfOptions)
  PROVE  Before = 1..(o - 1) /\ Sifted = 1..(o - 1)
<1>1. ASSUME NEW i \in 1..(o - 1)
      PROVE  i \in Before /\ i \in Sifted
  BY <1>1 DEF Clean, Before, Sifted, N
<1>2. ASSUME NEW i \in Before \cup Sifted
      PROVE  i \in 1..(o - 1)
  <2>1. i \in 1..N
    BY <1>2 DEF Before, Sifted, N
  <2>2. SUFFICES ASSUME o <= i PROVE FALSE
    BY <2>1
  <2>3. o \in 1..i /\ Stops(given[o]) /\ given[o] # EndOfOptions
    BY <2>1, <2>2
  <2> QED
    BY <2>3 DEF Before, Sifted
<1> QED
  BY <1>1, <1>2

(* With it, it does not count among the words before.                      *)
LEMMA SiftedMarked ==
  ASSUME N \in Nat, NEW m \in 1..N, Clean(m), given[m] = EndOfOptions
  PROVE  Before = 1..(m - 1) /\ Sifted = 1..m
<1>1. Stops(given[m])
  BY DEF Stops
<1>2. \A i \in 1..(m - 1) : i \in Before /\ i \in Sifted
  BY DEF Clean, Before, Sifted, N
<1>3. m \in Sifted
  BY DEF Clean, Sifted, N
<1>4. ASSUME NEW i \in Before
      PROVE  i \in 1..(m - 1)
  <2>1. i \in 1..N /\ (m \in 1..i => FALSE)
    BY <1>1 DEF Before, N
  <2> QED
    BY <2>1
<1>5. ASSUME NEW i \in Sifted
      PROVE  i \in 1..m
  <2>1. i \in 1..N /\ (m \in 1..i => m = i)
    BY <1>1 DEF Sifted, N
  <2> QED
    BY <2>1
<1>6. Before = 1..(m - 1)
  BY <1>2, <1>4
<1>7. \A i \in 1..m : i \in 1..(m - 1) \/ i = m
  OBVIOUS
<1>8. Sifted = 1..m
  BY <1>2, <1>3, <1>5, <1>7
<1> QED
  BY <1>6, <1>8

(* What the scan has to say when it is over.                               *)
LEMMA ScanIsOver ==
  AtEnd' /\ InPlace' /\ Fine' /\ outcome' = "parsing" => Settled'
<1> SUFFICES ASSUME AtEnd', InPlace', Fine', outcome' = "parsing"
             PROVE  Settled'
  OBVIOUS
<1>1. ~(pc' = "returned" /\ optc' = "?")
  BY DEF AtEnd
<1> QED
  BY <1>1 DEF Settled

LEMMA ScanEnded ==
  ASSUME LineInv, ScanInv, Ended,
         given' = given, outcome = "parsing", outcome' = outcome
  PROVE  ScanInv'
<1>1. Argc = N + 1
  BY ArgcIs DEF LineInv
<1>2. /\ pc = "ended" /\ pc' = "test" /\ optind' = N + 1 /\ lastNonopt' = N + 1 /\ nextchar = 0
      /\ UNCHANGED <<argv, firstNonopt, nextchar, ordering, optc, flags>>
  BY <1>1 DEF Ended, LineInv, InCluster
<1>3. /\ N \in Nat /\ optind \in Nat /\ firstNonopt \in Nat /\ optind <= N + 1
      /\ 1 <= firstNonopt /\ firstNonopt <= optind /\ N' = N
  BY <1>2, Rigid DEF LineInv, Types, InBounds
<1>4. /\ Placed(argv, optind, firstNonopt, optind) /\ Untouched(argv, optind)
      /\ Right(optind) /\ Heeded(optind)
      /\ optind > 1 /\ given[optind - 1] = EndOfOptions /\ Clean(optind - 1)
  BY <1>2 DEF ScanInv, Known, Marked, Array, Last
<1>5. PICK m \in 1..N : m = optind - 1 /\ m + 1 = optind
  BY <1>3, <1>4
<1>6. Before = 1..(m - 1) /\ Sifted = 1..m
  BY <1>3, <1>4, <1>5, SiftedMarked
<1>7. /\ \A i \in 1..N : argv[Place(i)] = given[i]
      /\ Ahead(N) = m - ((m + 1) - firstNonopt)
  BY <1>3, <1>4, <1>5, <1>6, PlacedAtEnd
<1>8. AtEnd' /\ FirstOperand' = firstNonopt /\ ~Scanning' /\ ~Marked'
  BY <1>2, <1>3 DEF AtEnd, FirstOperand, Scanning, Marked
<1>9. InPlace'
  <2>1. firstNonopt = 1 + Ahead(N)
    BY <1>3, <1>7
  <2> QED
    BY <1>2, <1>3, <1>7, <1>8, <2>1, Rigid DEF InPlace
<1>10. Fine
  <2>1. ~Wrong(given[m]) /\ \A flag : ~Names(given[m], flag)
    BY <1>4, <1>5 DEF EndOfOptions, Wrong, Names
  <2>2. \A i \in 1..(optind - 1) : i \in Before \/ i = m
    BY <1>3, <1>5, <1>6
  <2>3. \A i \in Before : i \in 1..(optind - 1)
    BY <1>3, <1>5, <1>6
  <2>4. \A i \in Before : ~Wrong(given[i])
    BY <1>4, <2>3 DEF Right
  <2>5. ASSUME NEW flag
        PROVE  (\E i \in 1..(optind - 1) : Names(given[i], flag)) <=> Asks(flag)
    BY <2>1, <2>2, <2>3 DEF Asks
  <2> QED
    BY <1>4, <2>4, <2>5 DEF Fine, Heeded
<1>11. Fine'
  BY <1>2, <1>10, Rigid DEF Fine, Wrong
<1>12. ScanTypes' /\ Order' /\ AtWord' /\ Letters'
  BY <1>2, <1>3, <1>8 DEF ScanInv, ScanTypes, Order, AtWord, Letters
<1>13. Known'
  BY <1>8 DEF Known
<1> QED
  BY <1>8, <1>9, <1>11, <1>12, <1>13, ScanIsOver DEF ScanInv

(* What was found out about the words passed is what was asked for.        *)
LEMMA FineWithoutMark ==
  ASSUME NEW o, Right(o), Heeded(o), Before = 1..(o - 1)
  PROVE  Fine
BY DEF Right, Heeded, Fine, Asks

LEMMA ScanNoEndMark ==
  ASSUME LineInv, ScanInv, NoEndMark,
         given' = given, outcome = "parsing", outcome' = outcome
  PROVE  ScanInv'
<1>1. Argc = N + 1
  BY ArgcIs DEF LineInv
<1>2. /\ pc = "endmark" /\ pc' = "test" /\ ~AtEndMark /\ nextchar = 0
      /\ UNCHANGED <<argv, optind, firstNonopt, lastNonopt, nextchar, ordering, optc, flags>>
  BY DEF NoEndMark, scan, LineInv, InCluster
<1>3. /\ N \in Nat /\ optind \in 1..(N + 1) /\ firstNonopt \in Nat /\ lastNonopt \in Nat
      /\ 1 <= firstNonopt /\ firstNonopt <= lastNonopt /\ lastNonopt <= optind /\ N' = N
  BY <1>2, Rigid DEF LineInv, Types, InBounds
<1>4. Scanning /\ ~Marked'
  BY <1>2 DEF Scanning, Marked
<1>5. /\ Placed(argv, optind, firstNonopt, lastNonopt) /\ Untouched(argv, optind)
      /\ Right(optind) /\ Heeded(optind) /\ Clean(optind)
  BY <1>2, <1>4 DEF ScanInv, Known, Array, Last
<1>6. AtWord'
  <2>1. optind <= N => argv[optind] # EndOfOptions
    BY <1>1, <1>2, <1>3 DEF AtEndMark
  <2> QED
    BY <1>2, <1>3, <2>1 DEF ScanInv, AtWord
<1>7. ScanTypes' /\ Order' /\ Letters'
  BY <1>2, <1>4 DEF ScanInv, ScanTypes, Order, Letters
<1>8. Known'
  <2>1. Array' = argv /\ Last' = lastNonopt
    BY <1>2 DEF Array, Last
  <2> QED
    BY <1>2, <1>4, <1>5, <2>1, Rigid DEF Known
<1>9. CASE optind # N + 1
  <2>1. Scanning'
    BY <1>2, <1>3, <1>9 DEF Scanning
  <2> QED
    BY <1>6, <1>7, <1>8, <2>1, GoesOn DEF ScanInv
<1>10. CASE optind = N + 1
  <2>1. Before = 1..(optind - 1) /\ Sifted = 1..(optind - 1)
    BY <1>3, <1>5, <1>10, SiftedClean
  <2>2. firstNonopt = lastNonopt \/ lastNonopt = N + 1
    BY <1>2, <1>4, <1>10 DEF ScanInv, ScanTypes, Order, LineInv, PassedSorted
  <2>3. N \in 0..N /\ Sifted = 1..N
    BY <1>3, <1>10, <2>1
  <2>4. /\ \A i \in 1..N : argv[Place(i)] = given[i]
        /\ Ahead(N) = N - (lastNonopt - firstNonopt)
    BY <1>3, <1>5, <1>10, <2>2, <2>3, PlacedAtEnd
  <2>5. AtEnd' /\ FirstOperand' = (IF firstNonopt # lastNonopt THEN firstNonopt ELSE optind)
    BY <1>2, <1>3, <1>10 DEF AtEnd, FirstOperand
  <2>6. FirstOperand' = 1 + Ahead(N)
    BY <1>3, <1>10, <2>2, <2>4, <2>5
  <2>7. InPlace'
    BY <1>2, <1>3, <2>4, <2>6, Rigid DEF InPlace
  <2>8. Fine
    BY <1>5, <2>1, FineWithoutMark
  <2>9. Fine'
    BY <1>2, <2>8, Rigid DEF Fine, Wrong
  <2> QED
    BY <1>6, <1>7, <1>8, <2>5, <2>7, <2>9, ScanIsOver DEF ScanInv
<1> QED
  BY <1>9, <1>10

LEMMA ScanAllScanned ==
  ASSUME LineInv, ScanInv, AllScanned,
         given' = given, outcome = "parsing", outcome' = outcome
  PROVE  ScanInv'
<1>1. Argc = N + 1
  BY ArgcIs DEF LineInv
<1>2. /\ pc = "test" /\ pc' = "returned" /\ optc' = "-1" /\ optind = N + 1
      /\ optind' = FirstOperand
      /\ UNCHANGED <<argv, firstNonopt, lastNonopt, nextchar, ordering, flags>>
  BY <1>1 DEF AllScanned, Return, FirstOperand
<1>3. AtEnd /\ AtEnd' /\ FirstOperand' = FirstOperand /\ ~Scanning' /\ ~Marked'
  BY <1>2 DEF AtEnd, FirstOperand, Scanning, Marked
<1>4. InPlace /\ Fine
  BY <1>3 DEF ScanInv, Settled
<1>5. InPlace'
  BY <1>2, <1>3, <1>4, Rigid DEF InPlace
<1>6. Fine'
  BY <1>2, <1>4, Rigid DEF Fine, Wrong
<1>7. ScanTypes' /\ Order' /\ AtWord' /\ Letters' /\ Known'
  BY <1>2, <1>3 DEF ScanInv, ScanTypes, Order, AtWord, Letters, Known
<1> QED
  BY <1>3, <1>5, <1>6, <1>7, ScanIsOver DEF ScanInv

LEMMA ScanStopAtOperand ==
  ASSUME LineInv, ScanInv, StopAtOperand,
         given' = given, outcome = "parsing", outcome' = outcome
  PROVE  ScanInv'
<1>1. Argc = N + 1
  BY ArgcIs DEF LineInv
<1>2. /\ pc = "test" /\ pc' = "returned" /\ optc' = "-1" /\ optind # N + 1
      /\ IsOperand(optind)
      /\ UNCHANGED <<argv, optind, firstNonopt, lastNonopt, nextchar, ordering, flags>>
  BY <1>1 DEF StopAtOperand, Return, scan
<1>3. /\ N \in Nat /\ optind \in 1..(N + 1) /\ optind <= N /\ firstNonopt \in Nat
      /\ lastNonopt \in Nat
      /\ 1 <= firstNonopt /\ firstNonopt <= lastNonopt /\ lastNonopt <= optind
  BY <1>2 DEF LineInv, Types, InBounds
<1>4. Scanning /\ AtEnd' /\ FirstOperand' = optind /\ ~Scanning' /\ ~Marked'
  BY <1>2 DEF AtEnd, FirstOperand, Scanning, Marked
<1>5. ordering = "REQUIRE_ORDER" /\ firstNonopt = lastNonopt
  BY <1>2, <1>3, <1>4 DEF ScanInv, ScanTypes, AtWord, Order, IsOperand
<1>6. /\ Placed(argv, optind, firstNonopt, lastNonopt) /\ Untouched(argv, optind)
      /\ Right(optind) /\ Heeded(optind) /\ Clean(optind)
  BY <1>2, <1>4 DEF ScanInv, Known, Array, Last
<1>7. Stops(given[optind]) /\ given[optind] # EndOfOptions
  <2>1. argv[optind] = given[optind] /\ given[optind] \in Words
    BY <1>2, <1>3, <1>4, NextWord DEF ScanInv
  <2> QED
    BY <1>2, <1>5, <2>1, WordsAssumption DEF Stops, IsOption, IsOperand
<1>8. Before = 1..(optind - 1) /\ Sifted = 1..(optind - 1)
  BY <1>3, <1>6, <1>7, SiftedClean
<1>9. PICK e \in 0..N : e = optind - 1 /\ e + 1 = optind
  BY <1>3
<1>10. /\ \A i \in 1..N : argv[Place(i)] = given[i]
       /\ Ahead(N) = e - (lastNonopt - firstNonopt)
  BY <1>3, <1>5, <1>6, <1>8, <1>9, PlacedAtEnd
<1>11. FirstOperand' = 1 + Ahead(N)
  BY <1>3, <1>4, <1>5, <1>9, <1>10
<1>12. InPlace'
  BY <1>2, <1>10, <1>11, Rigid DEF InPlace
<1>13. Fine
  BY <1>6, <1>8, FineWithoutMark
<1>14. Fine'
  BY <1>2, <1>13, Rigid DEF Fine, Wrong
<1>15. ScanTypes' /\ Order' /\ AtWord' /\ Letters' /\ Known'
  BY <1>2, <1>4, <1>5 DEF ScanInv, ScanTypes, Order, AtWord, Letters, Known
<1> QED
  BY <1>4, <1>12, <1>14, <1>15, ScanIsOver DEF ScanInv

-----------------------------------------------------------------------------
(***************************************************************************)
(* Options.                                                                *)
(***************************************************************************)
(* The entries of the table.                                               *)
LEMMA TableIs ==
  /\ LongOpts = {HideMenuBar, Help, Version}
  /\ HideMenuBar.flag = "opt_with_menu_bar" /\ HideMenuBar.val = FALSE
  /\ Help.flag = "opt_help" /\ Help.val = TRUE
  /\ Version.flag = "opt_version" /\ Version.val = TRUE
<1>1. LongOpts = {HideMenuBar, Help, Version}
  BY DEF LongOpts
<1>2. HideMenuBar.flag = "opt_with_menu_bar" /\ HideMenuBar.val = FALSE
  BY DEF HideMenuBar, Entry
<1>3. Help.flag = "opt_help" /\ Help.val = TRUE
  BY DEF Help, Entry
<1>4. Version.flag = "opt_version" /\ Version.val = TRUE
  BY DEF Version, Entry
<1> QED
  BY <1>1, <1>2, <1>3, <1>4

(* No two entries of the table do the same, so an abbreviation stands for  *)
(* one entry or is refused.                                                *)
LEMMA FoundIsTheOne ==
  ASSUME NEW w \in Words, w.kind = "long"
  PROVE  IF Cardinality(w.matches) = 1
         THEN \E o \in LongOpts : w.matches = {o} /\ Found(w) = {o}
         ELSE Found(w) = {}
<1>1. w.matches \subseteq LongOpts
  BY WordsAssumption
<1>2. \A o, p \in LongOpts : o.flag = p.flag => o = p
  BY TableIs
<1>3. CASE \E o : w.matches = {o}
  <2>1. PICK o : w.matches = {o}
    BY <1>3
  <2>2. Cardinality(w.matches) = 1 /\ o \in LongOpts
    BY <1>1, <2>1, FS_Singleton
  <2>3. Found(w) = w.matches
    BY <2>1 DEF Found
  <2> QED
    BY <2>1, <2>2, <2>3
<1>4. CASE ~\E o : w.matches = {o}
  <2>1. IsFiniteSet(w.matches)
    <3>1. IsFiniteSet(LongOpts)
      <4>1. LongOpts = ({HideMenuBar} \cup {Help}) \cup {Version}
        BY TableIs
      <4>2. IsFiniteSet({HideMenuBar}) /\ IsFiniteSet({Help}) /\ IsFiniteSet({Version})
        BY FS_Singleton
      <4>3. IsFiniteSet({HideMenuBar} \cup {Help})
        BY <4>2, FS_Union
      <4> QED
        BY <4>1, <4>2, <4>3, FS_Union
    <3> QED
      BY <1>1, <3>1, FS_Subset
  <2>2. Cardinality(w.matches) # 1
    BY <1>4, <2>1, FS_Singleton
  <2>3. Found(w) = {}
    <3>1. CASE w.matches = {}
      BY <3>1 DEF Found
    <3>2. CASE w.matches # {}
      <4>1. PICK o \in w.matches, p \in w.matches : o # p
        BY <1>4, <3>2
      <4>2. o.flag # p.flag
        BY <1>1, <1>2, <4>1
      <4> QED
        BY <4>2 DEF Found
    <3> QED
      BY <3>1, <3>2
  <2> QED
    BY <2>2, <2>3
<1> QED
  BY <1>3, <1>4

(* A wrong option is one of those that count.                              *)
LEMMA Refused ==
  ASSUME LineInv, ScanInv, pc \in {"test", "short"}, optind <= N, IsOption(argv[optind]),
         Wrong(given[optind]), given' = given, ordering' = ordering,
         pc' = "returned", optc' = "?", flags' = flags, outcome' = "parsing"
  PROVE  ScanInv'
<1>1. Scanning
  BY DEF Scanning, LineInv, Types, InBounds
<1>2. optind \in Before
  BY <1>1, OptionPassed DEF ScanInv
<1>3. ~Scanning' /\ ~Marked' /\ ~AtEnd'
  BY DEF Scanning, Marked, AtEnd
<1>4. \E i \in Before : Wrong(given[i])
  BY <1>2
<1>5. \E i \in Before' : Wrong(given'[i])
  BY <1>4, Rigid
<1>6. Settled'
  BY <1>3, <1>5 DEF Settled, Wrong
<1>7. ScanTypes' /\ Order' /\ AtWord' /\ Letters' /\ Known'
  BY <1>3 DEF ScanInv, ScanTypes, Order, AtWord, Letters, Known
<1> QED
  BY <1>6, <1>7 DEF ScanInv

LEMMA ScanLongOption ==
  ASSUME LineInv, ScanInv, LongOption,
         given' = given, outcome = "parsing", outcome' = outcome
  PROVE  ScanInv'
<1> DEFINE w == given[optind]
<1>1. Argc = N + 1
  BY ArgcIs DEF LineInv
<1>2. /\ pc = "test" /\ pc' = "returned" /\ optind # N + 1
      /\ argv[optind].kind = "long" /\ optind' = optind + 1 /\ nextchar = 0
      /\ UNCHANGED <<argv, firstNonopt, lastNonopt, nextchar, ordering>>
  BY <1>1 DEF LongOption, Return, LineInv, InCluster
<1>3. optind <= N /\ Scanning /\ IsOption(argv[optind])
  BY <1>2 DEF LineInv, Types, InBounds, Scanning, IsOption
<1>4. /\ argv[optind] = w /\ w \in Words /\ optind \in Nat /\ optind >= 1 /\ w.kind = "long"
  BY <1>2, <1>3, NextWord DEF ScanInv
<1>5. /\ Found(w) = {} \/ w.value => optc' = "?" /\ flags' = flags
      /\ ~(Found(w) = {} \/ w.value) =>
           optc' = "0" /\ \E o \in Found(w) : flags' = [flags EXCEPT ![o.flag] = o.val]
  BY <1>4 DEF LongOption, Return
<1> HIDE DEF w
<1>6. w.value \in BOOLEAN /\ w.matches \subseteq LongOpts
  BY <1>4, WordsAssumption
<1>7. CASE Found(w) = {} \/ w.value
  <2>1. Wrong(w)
    <3>1. ASSUME Found(w) = {} PROVE Cardinality(w.matches) # 1
      BY <1>4, <3>1, FoundIsTheOne
    <3> QED
      BY <1>4, <1>7, <3>1 DEF Wrong
  <2> QED
    BY <1>2, <1>3, <1>5, <1>7, <2>1, Refused DEF w
<1>8. CASE ~(Found(w) = {} \/ w.value)
  <2>1. PICK o \in LongOpts : w.matches = {o} /\ Found(w) = {o} /\ Cardinality(w.matches) = 1
    BY <1>4, <1>8, FoundIsTheOne
  <2>2. optc' = "0" /\ flags' = [flags EXCEPT ![o.flag] = o.val]
    BY <1>5, <1>8, <2>1
  <2>3. ~Wrong(w) /\ \A flag : Names(w, flag) <=> flag = o.flag
    BY <1>4, <1>8, <2>1 DEF Wrong, Names
  <2>4. /\ Right(optind) /\ Heeded(optind)
        /\ flags \in [DOMAIN StaticFlags -> BOOLEAN]
    BY <1>3 DEF ScanInv, Known, ScanTypes
  <2>5. /\ o.flag \in DOMAIN StaticFlags /\ o.val \in BOOLEAN
        /\ o.flag \in {"opt_version", "opt_help"} => o.val
    <3>1. DOMAIN StaticFlags = {"opt_with_menu_bar", "opt_help", "opt_version"}
      BY DEF StaticFlags
    <3>2. CASE o = HideMenuBar
      BY <3>1, <3>2, TableIs
    <3>3. CASE o = Help
      BY <3>1, <3>3, TableIs
    <3>4. CASE o = Version
      BY <3>1, <3>4, TableIs
    <3> QED
      BY <3>2, <3>3, <3>4, TableIs
  <2>6. /\ flags' \in [DOMAIN StaticFlags -> BOOLEAN]
        /\ \A flag \in {"opt_version", "opt_help"} :
             flags'[flag] <=> flags[flag] \/ Names(w, flag)
    <3>1. flags' \in [DOMAIN StaticFlags -> BOOLEAN]
      BY <2>2, <2>4, <2>5
    <3>2. {"opt_version", "opt_help"} \subseteq DOMAIN StaticFlags
      BY DEF StaticFlags
    <3>3. ASSUME NEW flag \in {"opt_version", "opt_help"}
          PROVE  flags'[flag] <=> flags[flag] \/ Names(w, flag)
      <4>1. CASE flag = o.flag
        <5>1. flags'[flag] = o.val
          BY <2>2, <2>4, <2>5, <4>1
        <5> QED
          BY <2>3, <2>5, <4>1, <5>1
      <4>2. CASE flag # o.flag
        <5>1. flags'[flag] = flags[flag]
          BY <2>2, <2>4, <3>2, <4>2
        <5> QED
          BY <2>3, <4>2, <5>1
      <4> QED
        BY <4>1, <4>2
    <3> QED
      BY <3>1, <3>3
  <2>7. /\ Placed(argv, optind + 1, firstNonopt, lastNonopt)
        /\ Untouched(argv, optind + 1) /\ Clean(optind + 1)
    BY <1>2, <1>3, OptionPassed DEF ScanInv
  <2>8. Right(optind + 1)
    BY <1>4, <2>3, <2>4, OneMore DEF w
  <2>9. \A flag \in {"opt_version", "opt_help"} :
          flags'[flag] <=> \E i \in 1..((optind + 1) - 1) : Names(given[i], flag)
    BY <1>4, <2>3, <2>4, <2>6, OneMore DEF w, Heeded
  <2>10. Heeded(optind)'
    BY <1>2, <2>9 DEF Heeded, Names
  <2>11. Array' = argv /\ Last' = lastNonopt /\ Scanning' /\ ~Marked'
    BY <1>2, <2>2 DEF Array, Last, Scanning, Marked
  <2>12. Known'
    BY <1>2, <2>7, <2>8, <2>10, <2>11, Rigid DEF Known
  <2>13. ScanTypes' /\ AtWord' /\ Letters'
    BY <1>2, <2>2, <2>6 DEF ScanInv, ScanTypes, AtWord, Letters
  <2>14. Order'
    BY <1>2, <1>3 DEF ScanInv, Order
  <2> QED
    BY <2>11, <2>12, <2>13, <2>14, GoesOn DEF ScanInv
<1> QED
  BY <1>7, <1>8

LEMMA ScanBeginCluster ==
  ASSUME LineInv, ScanInv, BeginCluster,
         given' = given, outcome = "parsing", outcome' = outcome
  PROVE  ScanInv'
<1>1. Argc = N + 1
  BY ArgcIs DEF LineInv
<1>2. /\ pc = "test" /\ pc' = "short" /\ optind # N + 1 /\ nextchar' = 1
      /\ argv[optind].kind = "short"
      /\ UNCHANGED <<argv, optind, firstNonopt, lastNonopt, ordering, optc, flags>>
  BY <1>1 DEF BeginCluster
<1>3. optind <= N /\ Scanning
  BY <1>2 DEF LineInv, Types, InBounds, Scanning
<1>4. Len(argv[optind].chars) >= 1
  <2>1. argv[optind] \in Words
    BY <1>2, <1>3, NextWord DEF ScanInv
  <2> QED
    BY <1>2, <2>1, WordsAssumption
<1>5. Letters'
  BY <1>2, <1>4 DEF Letters
<1>6. Array' = Array /\ Last' = Last /\ Scanning' /\ ~Marked'
  BY <1>2 DEF Array, Last, Scanning, Marked
<1>7. ScanTypes' /\ Order' /\ AtWord'
  BY <1>2, <1>3 DEF ScanInv, ScanTypes, Order, AtWord
<1>8. Known'
  BY <1>2, <1>3, <1>6, Rigid DEF ScanInv, Known
<1> QED
  BY <1>5, <1>6, <1>7, <1>8, GoesOn DEF ScanInv

LEMMA ScanShortOption ==
  ASSUME LineInv, ScanInv, ShortOption,
         given' = given, outcome = "parsing", outcome' = outcome
  PROVE  ScanInv'
<1> DEFINE chars == argv[optind].chars
<1>1. /\ pc = "short" /\ pc' = "returned" /\ nextchar # 0 /\ nextchar \in Nat
      /\ optind <= N /\ argv[optind].kind = "short"
      /\ UNCHANGED <<argv, firstNonopt, lastNonopt, ordering, flags>>
      /\ optc' = IF chars[nextchar] \in ShortOpts THEN chars[nextchar] ELSE "?"
      /\ IF nextchar = Len(chars) THEN nextchar' = 0 /\ optind' = optind + 1
         ELSE nextchar' = nextchar + 1 /\ optind' = optind
  BY ShortOptionsAssumption DEF ShortOption, Return, LineInv, Types, InCluster
<1>2. Scanning /\ IsOption(argv[optind])
  BY <1>1 DEF Scanning, IsOption
<1>3. /\ argv[optind] = given[optind] /\ given[optind] \in Words
      /\ optind \in Nat /\ optind >= 1
  BY <1>1, <1>2, NextWord DEF ScanInv
<1>4. /\ nextchar <= Len(chars) /\ Len(chars) \in Nat
      /\ \A c \in 1..(nextchar - 1) : chars[c] \in ShortOpts
  BY <1>1, <1>2, <1>3, WordsAssumption DEF ScanInv, Letters
<1>5. CASE chars[nextchar] \notin ShortOpts
  <2>1. Wrong(given[optind])
    BY <1>1, <1>3, <1>4, <1>5 DEF Wrong
  <2> QED
    BY <1>1, <1>2, <1>5, <2>1, Refused
<1>6. CASE chars[nextchar] \in ShortOpts
  <2>1. optc' = "m"
    BY <1>1, <1>6 DEF ShortOpts
  <2>2. \A c \in 1..nextchar : chars[c] \in ShortOpts
    BY <1>1, <1>4, <1>6
  <2>3. Array' = argv /\ Last' = lastNonopt /\ Scanning' /\ ~Marked'
    BY <1>1, <2>1 DEF Array, Last, Scanning, Marked
  <2>4. /\ Placed(argv, optind, firstNonopt, lastNonopt) /\ Untouched(argv, optind)
        /\ Right(optind) /\ Heeded(optind) /\ Clean(optind)
    BY <1>1, <1>2 DEF ScanInv, Known, Array, Last
  <2>5. Known'
    <3>1. CASE nextchar = Len(chars)
      <4>1. /\ Placed(argv, optind + 1, firstNonopt, lastNonopt)
            /\ Untouched(argv, optind + 1) /\ Clean(optind + 1)
        BY <1>1, <1>2, OptionPassed DEF ScanInv
      <4>2. ~Wrong(given[optind]) /\ \A flag : ~Names(given[optind], flag)
        BY <1>1, <1>3, <2>2, <3>1 DEF Wrong, Names
      <4>3. Right(optind + 1) /\ Heeded(optind + 1)
        BY <1>3, <2>4, <4>2, OneMore DEF Heeded
      <4>4. optind' = optind + 1
        BY <1>1, <3>1
      <4> QED
        BY <1>1, <2>3, <4>1, <4>3, <4>4, Rigid DEF Known
    <3>2. CASE nextchar # Len(chars)
      <4>1. optind' = optind
        BY <1>1, <3>2
      <4> QED
        BY <1>1, <2>3, <2>4, <4>1, Rigid DEF Known
    <3> QED
      BY <3>1, <3>2
  <2>6. Letters'
    <3>1. CASE nextchar = Len(chars)
      BY <1>1, <3>1 DEF Letters
    <3>2. CASE nextchar # Len(chars)
      <4>1. nextchar' = nextchar + 1 /\ optind' = optind /\ argv' = argv
        BY <1>1, <3>2
      <4>2. nextchar + 1 <= Len(chars) /\ (nextchar + 1) - 1 = nextchar
        BY <1>1, <1>4, <3>2
      <4> QED
        BY <2>2, <4>1, <4>2 DEF Letters
    <3> QED
      BY <3>1, <3>2
  <2>7. ScanTypes' /\ AtWord'
    BY <1>1, <2>1 DEF ScanInv, ScanTypes, AtWord
  <2>8. Order'
    BY <1>1, <1>2 DEF ScanInv, Order
  <2> QED
    BY <2>3, <2>5, <2>6, <2>7, <2>8, GoesOn DEF ScanInv
<1> QED
  BY <1>5, <1>6

(***************************************************************************)
(* The loop of parse_options.                                              *)
(***************************************************************************)
LEMMA ScanNextOption ==
  ASSUME LineInv, ScanInv, NextOption
  PROVE  ScanInv'
<1>1. /\ pc = "returned" /\ optc \in {"0", "m"} /\ pc' = "call" /\ outcome' = "parsing"
      /\ flags' = IF optc = "m" THEN [flags EXCEPT !["opt_with_menu_bar"] = FALSE] ELSE flags
      /\ UNCHANGED <<argv, optind, firstNonopt, lastNonopt, nextchar, ordering, given>>
  BY DEF NextOption, scan
<1>2. flags \in [DOMAIN StaticFlags -> BOOLEAN] /\ Scanning
  BY <1>1 DEF ScanInv, ScanTypes, Scanning
<1>3. /\ flags' \in [DOMAIN StaticFlags -> BOOLEAN]
      /\ \A flag \in {"opt_version", "opt_help"} : flags'[flag] = flags[flag]
  BY <1>1, <1>2 DEF StaticFlags
<1>4. /\ Placed(argv, optind, firstNonopt, lastNonopt) /\ Untouched(argv, optind)
      /\ Right(optind) /\ Heeded(optind) /\ Clean(optind)
  BY <1>1, <1>2 DEF ScanInv, Known, Array, Last
<1>5. Heeded(optind)'
  <2>1. \A i, flag : Names(given'[i], flag) <=> Names(given[i], flag)
    BY <1>1
  <2> QED
    BY <1>1, <1>3, <1>4, <2>1 DEF Heeded, Names
<1>6. Array' = argv /\ Last' = lastNonopt /\ Scanning' /\ ~Marked'
  BY <1>1 DEF Array, Last, Scanning, Marked
<1>7. Known'
  BY <1>1, <1>4, <1>5, <1>6, Rigid DEF Known
<1>8. ScanTypes' /\ AtWord'
  BY <1>1, <1>3 DEF ScanInv, ScanTypes, AtWord
<1>9. Order' /\ Letters'
  BY <1>1, <1>2 DEF ScanInv, Order, Letters
<1> QED
  BY <1>1, <1>6, <1>7, <1>8, <1>9, GoesOn DEF ScanInv

(* What the program comes to is what was declared.                         *)
LEMMA Concluded ==
  ASSUME LineInv, ScanInv, WrongOption \/ LastOption
  PROVE  ScanInv'
<1>1. /\ pc = "returned" /\ optc \in {"?", "-1"} /\ outcome = "parsing"
      /\ WrongOption => optc = "?" /\ outcome' = "failure"
      /\ LastOption =>
           /\ optc = "-1"
           /\ outcome' = IF flags["opt_version"] THEN "version"
                         ELSE IF flags["opt_help"] THEN "help" ELSE "run"
      /\ UNCHANGED <<argv, optind, firstNonopt, lastNonopt, nextchar, ordering, pc, optc,
                     flags, given>>
  BY DEF WrongOption, LastOption, getoptVars, scan
<1>2. ~Scanning' /\ ~Marked' /\ FirstOperand' = FirstOperand /\ (AtEnd' <=> AtEnd)
  <2>1. N' = N
    BY <1>1, Rigid
  <2> QED
    BY <1>1, <2>1 DEF Scanning, Marked, FirstOperand, AtEnd
<1>3. ScanTypes' /\ Order' /\ AtWord' /\ Letters' /\ Known'
  BY <1>1, <1>2 DEF ScanInv, ScanTypes, Order, AtWord, Letters, Known
<1>4. AtEnd => InPlace' /\ Fine'
  <2>1. InPlace => InPlace'
    BY <1>1, <1>2, Rigid DEF InPlace
  <2>2. Fine => Fine'
    BY <1>1, Rigid DEF Fine, Wrong
  <2> QED
    BY <2>1, <2>2 DEF ScanInv, Settled
<1>5. Declared' = Declared
  BY <1>1 DEF Declared, Asks, Before, Stops, Wrong, Names
<1>6. outcome' = Declared
  <2>1. CASE WrongOption
    BY <1>1, <2>1 DEF ScanInv, Settled, Declared
  <2>2. CASE LastOption
    <3>1. Fine
      BY <1>1, <2>2 DEF ScanInv, Settled, AtEnd
    <3> QED
      BY <1>1, <2>2, <3>1 DEF Fine, Declared
  <2> QED
    BY <2>1, <2>2
<1>7. optc = "?" => \E i \in Before' : Wrong(given'[i])
  BY <1>1, Rigid DEF ScanInv, Settled
<1>8. outcome' \notin {"parsing", "failure"} => optc' = "-1"
  BY <1>1
<1>9. Settled'
  BY <1>1, <1>2, <1>4, <1>5, <1>6, <1>7, <1>8 DEF Settled, Wrong
<1> QED
  BY <1>3, <1>9 DEF ScanInv

(***************************************************************************)
(* The invariant of the scan.                                              *)
(***************************************************************************)
LEMMA ScanInit ==
  ASSUME NEW args \in ArgLists, NEW posixlyCorrect \in BOOLEAN, LineInit(args, posixlyCorrect)
  PROVE  ScanInv
<1>1. /\ argv = given /\ optind = 1 /\ firstNonopt = 1 /\ lastNonopt = 1 /\ nextchar = 0
      /\ pc = "call" /\ outcome = "parsing" /\ flags = StaticFlags
      /\ ordering \in {"PERMUTE", "REQUIRE_ORDER"}
  BY DEF LineInit, GetoptInit
<1>2. Scanning /\ ~Marked /\ ~AtEnd /\ Array = argv /\ Last = 1
  BY <1>1 DEF Scanning, Marked, AtEnd, Array, Last
<1>3. Placed(argv, 1, 1, 1)
  <2>1. Fronts(0) = 0
    <3>1. {j \in 1..0 : given[j].kind # "operand"} = {}
      OBVIOUS
    <3> QED
      BY <3>1, FS_EmptySet DEF Fronts
  <2> QED
    BY <2>1 DEF Placed
<1>4. Untouched(argv, 1) /\ Right(1) /\ Clean(1)
  BY <1>1 DEF Untouched, Right, Clean
<1>5. Heeded(1)
  <2>1. ASSUME NEW flag \in {"opt_version", "opt_help"}
        PROVE  ~flags[flag]
    BY <1>1, <2>1 DEF StaticFlags
  <2>2. \A i \in 1..(1 - 1) : FALSE
    OBVIOUS
  <2> QED
    BY <2>1, <2>2 DEF Heeded
<1>6. Known
  BY <1>1, <1>2, <1>3, <1>4, <1>5 DEF Known
<1>7. ScanTypes /\ Order /\ AtWord /\ Letters /\ Settled
  <2>1. StaticFlags \in [DOMAIN StaticFlags -> BOOLEAN]
    BY DEF StaticFlags
  <2> QED
    BY <1>1, <1>2, <2>1 DEF ScanTypes, Order, AtWord, Letters, Settled
<1> QED
  BY <1>6, <1>7 DEF ScanInv

LEMMA ScanStutters == ScanInv /\ UNCHANGED lineVars => ScanInv'
<1> SUFFICES ASSUME ScanInv, UNCHANGED lineVars PROVE ScanInv'
  OBVIOUS
<1>1. UNCHANGED <<argv, optind, firstNonopt, lastNonopt, nextchar, ordering, pc, resume,
                  unswapped, optc, flags, given, outcome>>
  BY DEF lineVars, getoptVars, scan, swap
<1>2. /\ Array' = Array /\ Last' = Last /\ FirstOperand' = FirstOperand
      /\ (Scanning' <=> Scanning) /\ (Marked' <=> Marked) /\ (AtEnd' <=> AtEnd)
  BY <1>1, Rigid DEF Array, Last, FirstOperand, Scanning, Marked, AtEnd
<1>3. ScanTypes' /\ Order' /\ AtWord' /\ Letters'
  BY <1>1, <1>2, Rigid DEF ScanInv, ScanTypes, Order, AtWord, Letters
<1>4. Known'
  BY <1>1, <1>2, Rigid DEF ScanInv, Known
<1>5. InPlace => InPlace'
  BY <1>1, <1>2, Rigid DEF InPlace
<1>6. Fine => Fine'
  BY <1>1, Rigid DEF Fine, Wrong
<1>7. Declared' = Declared
  BY <1>1 DEF Declared, Asks, Before, Stops, Wrong, Names
<1>8. Settled'
  BY <1>1, <1>2, <1>5, <1>6, <1>7, Rigid DEF ScanInv, Settled, Wrong
<1> QED
  BY <1>3, <1>4, <1>8 DEF ScanInv

LEMMA ScanNext == LineInv /\ ScanInv /\ [ParseOptions]_lineVars => ScanInv'
<1> SUFFICES ASSUME LineInv, ScanInv, [ParseOptions]_lineVars
             PROVE  ScanInv'
  OBVIOUS
<1>1. CASE Scan
  BY <1>1, ScanExchange, ScanExchangeDone, ScanBeginExchange, ScanNothingBehind, ScanInOrder,
     ScanSkipOperands, ScanExchangeEndMark, ScanPassEndMark, ScanEnded, ScanNoEndMark,
     ScanAllScanned, ScanStopAtOperand, ScanLongOption, ScanBeginCluster, ScanShortOption
     DEF Scan, GetoptLong
<1> QED
  BY <1>1, ScanNextOption, Concluded, ScanStutters DEF ParseOptions

(* The line of a later run, or of one that went on, is an empty one.       *)
NoLine ==
  /\ argv = <<>> /\ given = <<>> /\ unswapped = Nothing
  /\ optind = 1 /\ firstNonopt = 1 /\ lastNonopt = 1 /\ nextchar = 0
  /\ bottom = 0 /\ middle = 0 /\ top = 0 /\ resume = "none"
  /\ ordering = "PERMUTE" /\ pc = "returned" /\ optc = "-1"
  /\ flags = StaticFlags /\ outcome = "run"

LEMMA NoLineIsFine == NoLine => LineInv /\ ScanInv
<1> SUFFICES ASSUME NoLine PROVE LineInv /\ ScanInv
  OBVIOUS
<1> USE DEF NoLine
<1>1. N = 0 /\ Len(given) = 0
  BY DEF N
<1>2. LineInv
  <2>1. given \in Seq(Words) /\ argv \in Arrays
    BY <1>1 DEF Arrays
  <2> QED
    BY <1>1, <2>1 DEF LineInv, Types, InCluster, InBounds, PassedSorted, Exchanging, Returned
<1>3. ~Scanning /\ ~Marked /\ FirstOperand = 1
  BY DEF Scanning, Marked, FirstOperand
<1>4. Before = {} /\ Sifted = {}
  BY <1>1 DEF Before, Sifted
<1>5. InPlace
  <2>1. Ahead(N) = 0
    <3>1. {j \in Sifted : j <= N /\ given[j].kind # "operand"} = {}
      BY <1>4
    <3> QED
      BY <3>1, FS_EmptySet DEF Ahead
  <2> QED
    BY <1>1, <1>3, <2>1 DEF InPlace
<1>6. flags \in [DOMAIN StaticFlags -> BOOLEAN] /\ ~flags["opt_version"] /\ ~flags["opt_help"]
  BY DEF StaticFlags
<1>7. Fine
  BY <1>4, <1>6 DEF Fine, Asks
<1>8. Declared = "run"
  BY <1>4 DEF Declared, Asks
<1>9. Settled
  BY <1>5, <1>7, <1>8 DEF Settled
<1>10. ScanInv
  BY <1>3, <1>6, <1>9 DEF ScanInv, ScanTypes, Order, AtWord, Letters, Known
<1> QED
  BY <1>2, <1>10

LEMMA LineInvariant == AppSpec => [](LineInv /\ ScanInv)
<1>1. AppInit => LineInv /\ ScanInv
  BY InitHolds, ScanInit DEF AppInit
<1>2. [AppNext]_appVars => [ParseOptions]_lineVars \/ NoLine'
  BY DEF AppNext, Proceed, Parse, MainReturns, MainGoesOn, ConstructWithoutHome, Construct,
         Activate, LoopEnds, Destroy, Stop, CloseWindow, ShowAboutDialog, AboutResponse,
         CloseDialog, ChangeOptions, Kill, RunAgain, LineForgotten, NoLine, appVars
<1>3. LineInv /\ ScanInv /\ [ParseOptions]_lineVars => LineInv' /\ ScanInv'
  BY NextHolds, ScanNext
<1> QED
  BY <1>1, <1>2, <1>3, NoLineIsFine, PTL DEF AppSpec

-----------------------------------------------------------------------------
(* Whatever the lengths of the two blocks, when exchange returns they have *)
(* changed places, each in its own order, and nothing else has moved.      *)
THEOREM ExchangeExchanges == AppSpec => []ExchangeKeepsOrder
<1>1. LineInv => ExchangeKeepsOrder
  BY AllExchanged DEF ExchangeKeepsOrder
<1> QED
  BY <1>1, LineInvariant, PTL

(* Of the words getopt has passed, it knows which are operands.            *)
THEOREM PassedIsSorted == AppSpec => []Sorted
<1>1. LineInv => Sorted
  BY DEF LineInv, Types, InBounds, PassedSorted, Passed, Sorted, IsOperand
<1> QED
  BY <1>1, LineInvariant, PTL

(* What main does depends on the words before "--" alone (or before the    *)
(* first operand, for POSIX), wherever the operands stand between them:    *)
(* the scan, with all its exchanges, heeds those words and no others.      *)
THEOREM AlwaysAsDeclared == AppSpec => []OutcomeAsDeclared
<1>1. ScanInv => OutcomeAsDeclared
  BY DEF ScanInv, Settled, OutcomeAsDeclared
<1> QED
  BY <1>1, LineInvariant, PTL

(* When getopt has returned -1, the options come first, then "--", then    *)
(* the operands, each in the order given, and optind is the first operand. *)
THEOREM AlwaysOperandsLast == AppSpec => []OperandsLast
<1>1. LineInv /\ ScanInv => OperandsLast
  <2> SUFFICES ASSUME LineInv, ScanInv, outcome \notin {"parsing", "failure"}
               PROVE  /\ Len(argv) = Len(given)
                      /\ \A i \in 1..Len(given) : argv[Place(i)] = given[i]
                      /\ optind = 1 + Ahead(Len(given))
    BY DEF OperandsLast
  <2>1. pc = "returned" /\ optc = "-1"
    BY DEF ScanInv, Settled
  <2>2. InPlace /\ FirstOperand = optind
    BY <2>1 DEF ScanInv, Settled, AtEnd, FirstOperand
  <2>3. Len(argv) = Len(given)
    BY DEF LineInv, Types, Arrays, N
  <2> QED
    BY <2>2, <2>3 DEF InPlace, N
<1> QED
  BY <1>1, LineInvariant, PTL

-----------------------------------------------------------------------------
(***************************************************************************)
(* The scan comes to its end.  Fairness is beyond the prover, but not what *)
(* every step gets closer to: a later word, or a later letter of the same  *)
(* one, or a later place in the code, or a smaller rest to exchange.       *)
(***************************************************************************)
Rank ==
  CASE pc = "returned" -> 8
    [] pc = "call" -> 7
    [] pc = "exchange" /\ resume = "skip" -> 6
    [] pc = "skip" -> 5
    [] pc = "endmark" -> 4
    [] pc = "exchange" /\ resume = "ended" -> 3
    [] pc = "ended" -> 2
    [] pc = "test" -> 1
    [] pc = "short" -> 0
Rest == IF pc = "exchange" THEN top - bottom ELSE 0

Later  == optind' > optind \/ (optind' = optind /\ nextchar' > nextchar)
Finish == (pc' = "returned" /\ optc' = "-1") \/ outcome' # "parsing"
Closer ==
  \/ Later \/ Finish
  \/ /\ optind' >= optind /\ nextchar' = nextchar
     /\ Rank' < Rank \/ (Rank' = Rank /\ Rest' < Rest)

\* None of these goes on for ever.
Bounded ==
  /\ optind \in 1..(Len(given) + 1)
  /\ pc \in {"call", "short"} /\ nextchar # 0 => nextchar <= Len(given[optind].chars)
  /\ Rank \in 0..8 /\ Rest \in 0..Len(given)

(* Each step of getopt and of the loop around it is a step forward.        *)
THEOREM ScanGetsCloser == AppSpec => [][ParseOptions => Closer]_lineVars
<1>1. LineInv /\ ScanInv /\ ParseOptions => Closer
  <2> SUFFICES ASSUME LineInv, ScanInv, ParseOptions PROVE Closer
    OBVIOUS
  <2>1. /\ optind \in Nat /\ optind <= N + 1 /\ Argc = N + 1 /\ N \in Nat /\ nextchar \in Nat
        /\ pc \notin {"call", "short", "returned"} => nextchar = 0
    BY ArgcIs DEF LineInv, Types, InBounds, InCluster
  <2>2. CASE ExchangeBottom
    <3>1. /\ pc = "exchange" /\ top \in Nat /\ bottom \in Nat /\ middle \in Nat /\ middle > bottom
          /\ resume \in {"skip", "ended"}
      BY <2>2 DEF LineInv, Exchanging, Blocks, ExchangeBottom, MoreToExchange
    <3> QED
      BY <2>1, <2>2, <3>1 DEF ExchangeBottom, scan, Closer, Rank, Rest
  <2>3. CASE ExchangeTop
    <3>1. /\ pc = "exchange" /\ top \in Nat /\ bottom \in Nat /\ middle \in Nat /\ top > middle
          /\ resume \in {"skip", "ended"}
      BY <2>3 DEF LineInv, Exchanging, Blocks, ExchangeTop, MoreToExchange
    <3> QED
      BY <2>1, <2>3, <3>1 DEF ExchangeTop, scan, Closer, Rank, Rest
  <2>4. CASE ExchangeDone
    <3>1. resume \in {"skip", "ended"}
      BY <2>4 DEF LineInv, Exchanging, ExchangeDone
    <3> QED
      BY <2>1, <2>4, <3>1 DEF ExchangeDone, Closer, Rank
  <2>5. CASE ExchangeBehind \/ NothingBehind \/ InOrder
    BY <2>1, <2>5 DEF ExchangeBehind, BeginExchange, NothingBehind, InOrder, scan, Closer, Rank
  <2>6. CASE SkipOperands
    BY <2>1, <2>6 DEF SkipOperands, Closer, Rank
  <2>7. CASE ExchangeEndMark \/ PassEndMark \/ LongOption
    BY <2>1, <2>7 DEF ExchangeEndMark, PassEndMark, LongOption, Closer, Later
  <2>8. CASE Ended
    BY <2>1, <2>8 DEF Ended, Closer, Rank
  <2>9. CASE NoEndMark
    BY <2>1, <2>9 DEF NoEndMark, scan, Closer, Rank
  <2>10. CASE AllScanned \/ StopAtOperand
    BY <2>10 DEF AllScanned, StopAtOperand, Return, Closer, Finish
  <2>11. CASE BeginCluster
    BY <2>1, <2>11 DEF BeginCluster, Closer, Later
  <2>12. CASE ContinueCluster
    BY <2>1, <2>12 DEF ContinueCluster, scan, Closer, Rank
  <2>13. CASE ShortOption
    <3>1. \/ optind' = optind + 1
          \/ optind' = optind /\ nextchar' = nextchar + 1
      BY <2>13 DEF ShortOption
    <3> QED
      BY <2>1, <3>1 DEF Closer, Later
  <2>14. CASE NextOption
    BY <2>1, <2>14 DEF NextOption, scan, Closer, Rank
  <2>15. CASE WrongOption \/ LastOption
    BY <2>15 DEF WrongOption, LastOption, Closer, Finish
  <2> QED
    BY <2>2, <2>3, <2>4, <2>5, <2>6, <2>7, <2>8, <2>9, <2>10, <2>11, <2>12, <2>13,
       <2>14, <2>15 DEF ParseOptions, Scan, GetoptLong
<1> QED
  BY <1>1, LineInvariant, PTL

(* And there are only so many of them.                                     *)
THEOREM ScanIsBounded == AppSpec => []Bounded
<1>1. LineInv /\ ScanInv => Bounded
  <2> SUFFICES ASSUME LineInv, ScanInv PROVE Bounded
    OBVIOUS
  <2>1. optind \in 1..(Len(given) + 1)
    BY DEF LineInv, Types, InBounds, N
  <2>2. ASSUME pc \in {"call", "short"}, nextchar # 0
        PROVE  nextchar <= Len(given[optind].chars)
    <3>1. optind <= N /\ Scanning
      BY <2>2 DEF LineInv, InCluster, Scanning
    <3>2. argv[optind] = given[optind]
      BY <2>2, <3>1, NextWord DEF ScanInv
    <3> QED
      BY <2>2, <3>1, <3>2 DEF ScanInv, Letters
  <2>3. Rank \in 0..8
    BY DEF ScanInv, ScanTypes, LineInv, Exchanging, Rank
  <2>4. Rest \in 0..Len(given)
    <3>1. N = Len(given) /\ N \in Nat
      BY DEF LineInv, Types, N
    <3>2. CASE pc = "exchange"
      <4>1. /\ bottom \in Nat /\ top \in Nat /\ 1 <= bottom /\ bottom <= top
            /\ top <= N + 1
        BY <3>2 DEF LineInv, Exchanging, Blocks
      <4>2. top - bottom \in 0..N
        BY <3>1, <4>1
      <4> QED
        BY <3>1, <3>2, <4>2 DEF Rest
    <3>3. CASE pc # "exchange"
      BY <3>1, <3>3 DEF Rest
    <3> QED
      BY <3>2, <3>3
  <2> QED
    BY <2>1, <2>2, <2>3, <2>4 DEF Bounded
<1> QED
  BY <1>1, LineInvariant, PTL

-----------------------------------------------------------------------------
(***************************************************************************)
(* The options file.  Application is the one process of Profile, so what   *)
(* is proved of a lone process holds of it; and a run that comes to its    *)
(* end has saved what it was told of.                                      *)
(***************************************************************************)
PP == INSTANCE ProfileProofs WITH Procs <- {Proc}, pc <- stage, Nothing <- NoFile

LEMMA ProfileInit == P!Init => PP!Init
BY DEF P!Init, PP!Init, P!DefaultUpdateRate, PP!DefaultUpdateRate

(* A step of the program is one of its profile, or leaves that alone.      *)
LEMMA ProfileNext ==
  ASSUME [AppNext]_appVars
  PROVE  [PP!Next]_(PP!vars)
<1> USE DEF P!files, PP!files, P!Down, PP!Down, P!Parsed, PP!Parsed, P!Throws, PP!Throws
<1>1. CASE UNCHANGED profileVars
  BY <1>1 DEF profileVars, PP!vars, PP!procs
<1>2. CASE Construct
  <2>1. P!Start(Proc) => PP!Start(Proc)
    BY DEF P!Start, PP!Start, P!Restores, PP!Restores, P!LegalRates, PP!LegalRates,
           P!DefaultUpdateRate, PP!DefaultUpdateRate
  <2>2. P!StartThrows(Proc) => PP!StartThrows(Proc)
    BY DEF P!StartThrows, PP!StartThrows, P!LegalRates, PP!LegalRates
  <2> QED
    BY <1>2, <2>1, <2>2 DEF Construct, PP!Next
<1>3. CASE ChangeOptions
  <2>1. ASSUME NEW r \in UserRates PROVE P!ChangeRate(Proc, r) => PP!ChangeRate(Proc, r)
    BY DEF P!ChangeRate, PP!ChangeRate, P!OptionsChanged, PP!OptionsChanged
  <2> QED
    BY <1>3, <2>1 DEF ChangeOptions, PP!Next
<1>4. CASE Destroy
  <2>1. P!ExitUnsaved(Proc) => PP!ExitUnsaved(Proc)
    BY DEF P!ExitUnsaved, PP!ExitUnsaved
  <2>2. P!Save(Proc) => PP!Save(Proc)
    BY DEF P!Save, PP!Save, P!SaveParse, PP!SaveParse, P!SaveOpen, PP!SaveOpen,
           P!SaveOpenFails, PP!SaveOpenFails, P!SaveWrite, PP!SaveWrite,
           P!SaveWriteFails, PP!SaveWriteFails, P!SaveRename, PP!SaveRename,
           P!WithRate, PP!WithRate
  <2> QED
    BY <1>4, <2>1, <2>2 DEF Destroy, PP!Next
<1>5. CASE Kill
  BY <1>5 DEF Kill, P!Kill, PP!Kill, PP!Next
<1> QED
  BY <1>1, <1>2, <1>3, <1>4, <1>5
     DEF AppNext, Proceed, Parse, MainReturns, MainGoesOn, ConstructWithoutHome, Activate,
         LoopEnds, Stop, CloseWindow, ShowAboutDialog, AboutResponse, CloseDialog, RunAgain, appVars

LEMMA ImplementsProfile == AppSpec => PP!Spec
<1>1. AppInit => PP!Init
  BY ProfileInit DEF AppInit
<1> QED
  BY <1>1, ProfileNext, PTL DEF AppSpec, PP!Spec

LEMMA LoneInvariant == AppSpec => [](PP!LoneInv)
<1>1. AppInit => PP!LoneInv
  <2>1. PP!Init => PP!IInv
    BY PP!InitHolds, ProfileAssumption
  <2>2. PP!Init => PP!OwnTmp /\ PP!SavedIsThere
    BY DEF PP!Init, PP!OwnTmp, PP!SavedIsThere
  <2> QED
    BY <2>1, <2>2, ProfileInit DEF AppInit, PP!LoneInv
<1>2. PP!LoneInv /\ [AppNext]_appVars => PP!LoneInv'
  <2> SUFFICES ASSUME PP!LoneInv, [AppNext]_appVars PROVE PP!LoneInv'
    OBVIOUS
  <2>1. [PP!Next]_(PP!vars)
    BY ProfileNext
  <2>2. PP!IInv'
    BY <2>1, PP!NextHolds, ProfileAssumption DEF PP!LoneInv
  <2>3. PP!OwnTmp' /\ PP!SavedIsThere'
    BY <2>1, PP!LoneStep, ProfileAssumption
  <2> QED BY <2>2, <2>3 DEF PP!LoneInv
<1> QED BY <1>1, <1>2, PTL DEF AppSpec


(* After a save that went through, the next run gets the rate back,        *)
(* whatever writes failed and runs were killed in between.                 *)
THEOREM AppRestores == AppSpec => []RestoresWhatWasSaved
<1>1. PP!Spec => []PP!RestoresWhatWasSaved
  BY PP!LoneRestores, ProfileAssumption
<1>2. PP!RestoresWhatWasSaved => RestoresWhatWasSaved
  BY DEF RestoresWhatWasSaved, P!RestoresWhatWasSaved, PP!RestoresWhatWasSaved,
         P!Parsed, PP!Parsed, P!Throws, PP!Throws, P!Restores, PP!Restores,
         P!LegalRates, PP!LegalRates, P!DefaultUpdateRate, PP!DefaultUpdateRate
<1> QED
  BY <1>1, <1>2, ImplementsProfile, PTL

(* If writing does not fail, killed at any moment of a save a run leaves   *)
(* the old document or the new one.                                        *)
THEOREM AppReplacesAsAWhole ==
  ASSUME ~WritesMayFail
  PROVE  AppSpec => ReplacedAsAWhole
<1>1. PP!Spec => PP!ReplacedAsAWhole
  BY PP!LoneReplacesAsAWhole, ProfileAssumption
<1>2. PP!OneFile!FileInit => P!OneFile!FileInit
  BY DEF PP!OneFile!FileInit, P!OneFile!FileInit, P!Parsed, PP!Parsed
<1>3. [PP!OneFile!Replace]_(PP!Parsed) => [P!OneFile!Replace]_(P!Parsed)
  BY DEF PP!OneFile!Replace, P!OneFile!Replace, P!Parsed, PP!Parsed, P!LegalRates, PP!LegalRates
<1> QED
  BY <1>1, <1>2, <1>3, ImplementsProfile, PTL
     DEF ReplacedAsAWhole, P!ReplacedAsAWhole, PP!ReplacedAsAWhole, P!OneFile!FileSpec, PP!OneFile!FileSpec

\* What save will find in `changed', and what it leaves alone without XML.
Told ==
  /\ phase = "parse" => ~edited[Proc]
  /\ stage[Proc] = "running" /\ edited[Proc] => changed[Proc]
  /\ ~HaveXml => P!Parsed \in InitDocs \cup {Torn}

EndInv == PP!LoneInv /\ Told /\ SavedAtTheEnd

(* With the XML code only a save that renamed brings a run with changes to *)
(* its end, and what it renamed has the rate; without it the files never   *)
(* change.                                                                 *)
LEMMA EndStep ==
  ASSUME HaveXml => ~WritesMayFail, EndInv, [AppNext]_appVars
  PROVE  Told' /\ SavedAtTheEnd'
<1>0. /\ stage \in [{Proc} -> PP!Stages] /\ edited \in [{Proc} -> BOOLEAN]
      /\ changed \in [{Proc} -> BOOLEAN]
  BY DEF EndInv, PP!LoneInv, PP!IInv, PP!TypeOK
<1>1. ASSUME ~HaveXml PROVE P!Parsed' \in InitDocs \cup {Torn}
  <2>1. PP!files' = PP!files
    BY <1>1, ProfileNext, PP!WritersEdited, ProfileAssumption DEF EndInv, PP!LoneInv
  <2>2. P!Parsed' = P!Parsed
    BY <2>1 DEF PP!files, P!Parsed
  <2> QED
    BY <1>1, <2>2 DEF EndInv, Told
<1> DEFINE BeforeRun == phase = "parse" => ~edited[Proc]
           Heard     == stage[Proc] = "running" /\ edited[Proc] => changed[Proc]
           WithXml   == phase = "returned" /\ edited[Proc] /\ P!Parsed # <<>>
                          => P!Restores(P!Parsed, rate[Proc])
<1>2. BeforeRun /\ Heard /\ (HaveXml => WithXml)
  BY DEF EndInv, Told, SavedAtTheEnd
<1>3. BeforeRun' /\ Heard'
  <2>1. CASE UNCHANGED appVars
    BY <1>2, <2>1 DEF appVars, profileVars
  <2>2. CASE UNCHANGED profileVars /\ (phase' = "parse" => phase = "parse")
    BY <1>2, <2>2 DEF profileVars
  <2>3. CASE Construct
    BY <1>0, <1>2, <2>3 DEF Construct, P!Start, P!StartThrows
  <2>4. CASE ChangeOptions
    BY <1>0, <1>2, <2>4 DEF ChangeOptions, P!ChangeRate, P!OptionsChanged
  <2>5. CASE Kill
    BY <1>0, <1>2, <2>5 DEF Kill, P!Kill
  <2>6. CASE Destroy
    BY <1>0, <1>2, <2>6
       DEF Destroy, P!ExitUnsaved, P!Save, P!SaveParse, P!SaveOpen, P!SaveOpenFails, P!SaveWrite,
           P!SaveWriteFails, P!SaveRename
  <2> QED
    BY <2>1, <2>2, <2>3, <2>4, <2>5, <2>6
       DEF AppNext, Proceed, Parse, MainReturns, MainGoesOn, ConstructWithoutHome, Activate,
           LoopEnds, Stop, CloseWindow, ShowAboutDialog, AboutResponse, CloseDialog, RunAgain
<1>4. ASSUME HaveXml PROVE WithXml'
  <2>1. CASE UNCHANGED appVars
    BY <1>2, <1>4, <2>1 DEF appVars, profileVars, P!Parsed, P!Restores
  <2>2. CASE phase' # "returned"
    BY <2>2
  <2>3. CASE MainReturns
    BY <1>2, <2>3 DEF MainReturns, profileVars
  <2>4. CASE Parse
    BY <1>2, <2>4 DEF Parse, profileVars
  <2>5. CASE ChangeOptions
    BY <2>5 DEF ChangeOptions
  <2>6. CASE Destroy /\ ~P!SaveRename(Proc)
    BY <1>0, <1>2, <1>4, <2>6
       DEF Destroy, P!ExitUnsaved, P!Save, P!SaveParse, P!SaveOpen, P!SaveOpenFails, P!SaveWrite,
           P!SaveWriteFails
  <2>7. CASE P!SaveRename(Proc)
    <3>1. stage[Proc] = "written" /\ stage' = [stage EXCEPT ![Proc] = "exited"]
          /\ options' = (IF tmp = NoFile THEN options ELSE tmp)
          /\ UNCHANGED <<data, rate, edited, changed>>
      BY <2>7 DEF P!SaveRename
    <3>2. /\ PP!Uniform(doc[Proc], rate[Proc]) /\ rate[Proc] \in PP!LegalRates
          /\ tmp \in Inodes /\ data[tmp] = doc[Proc]
      BY <1>4, <3>1 DEF EndInv, PP!LoneInv, PP!IInv, PP!TypeOK, PP!EditorsSave, PP!Saving, PP!OwnTmp
    <3>3. PP!Parsed' = doc[Proc]
      BY <3>1, <3>2, ProfileAssumption DEF PP!Parsed
    <3>4. doc[Proc] # <<>> => PP!Restores(doc[Proc], rate[Proc])
      BY <3>2, PP!UniformIsLegal, ProfileAssumption
    <3>5. P!Parsed' = PP!Parsed'
      BY DEF P!Parsed, PP!Parsed
    <3> QED
      BY <3>1, <3>3, <3>4, <3>5
         DEF P!Restores, PP!Restores, P!DefaultUpdateRate, PP!DefaultUpdateRate
  <2> QED
    BY <2>1, <2>2, <2>3, <2>4, <2>5, <2>6, <2>7
       DEF AppNext, Proceed, MainGoesOn, ConstructWithoutHome, Construct, Activate, LoopEnds, Stop,
           CloseWindow, ShowAboutDialog, AboutResponse, CloseDialog, Kill, RunAgain, Responsive
<1> QED
  BY <1>1, <1>3, <1>4 DEF Told, SavedAtTheEnd

(* A run that was told of a change and came to its end has, with the XML   *)
(* code, saved the rate last chosen, for which writing must not fail; and  *)
(* without it, as the program is built, has left the document as it was,   *)
(* for which nothing is assumed.                                           *)
THEOREM AppSavesAtTheEnd ==
  ASSUME HaveXml => ~WritesMayFail
  PROVE  AppSpec => []SavedAtTheEnd
<1>1. AppInit => Told /\ SavedAtTheEnd
  BY DEF AppInit, P!Init, Told, SavedAtTheEnd, P!Parsed
<1>2. EndInv /\ [AppNext]_appVars => Told' /\ SavedAtTheEnd'
  BY EndStep
<1> QED
  BY <1>1, <1>2, LoneInvariant, PTL DEF AppSpec, EndInv
=============================================================================
