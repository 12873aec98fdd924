------------------------------- MODULE Getopt -------------------------------
(***************************************************************************)
(* getopt_long of libgnu/getopt.c, for options without arguments, which is *)
(* all that programs/rglclock.cpp has.  Each call returns the next option; *)
(* operands met on the way are exchanged, block by block, with the options *)
(* found behind them, so that at the end all operands come last and both   *)
(* kinds keep their order.  In the environment of POSIXLY_CORRECT the scan *)
(* stops at the first operand instead.                                     *)
(*                                                                         *)
(* Indices are those of the source: argv[1] is the first word behind the   *)
(* program's name.  Of a word only what getopt finds out is kept: a long   *)
(* one is the set of table entries whose names begin with it (only one, if *)
(* it is a name in full), and whether "=value" follows.  The loops are     *)
(* steps of their own, the exchange one step for each round.               *)
(***************************************************************************)
EXTENDS Integers, Sequences, FiniteSets

CONSTANT ShortOptions   \* the letters of optstring

VARIABLES
  argv,                      \* argv[1], argv[2], ...
  optind,                    \* optind
  firstNonopt, lastNonopt,   \* __first_nonopt, __last_nonopt
  nextchar,                  \* __nextchar: a position in a cluster of letters, or 0
  ordering,                  \* __ordering
  pc,                        \* where _getopt_internal_r is
  bottom, middle, top,       \* exchange: its variables, and
  resume,                    \*   where it returns to
  unswapped,                 \* history: argv when exchange was called
  optc,                      \* what the call returned
  flags                      \* the variables the table points to

scan       == <<optind, firstNonopt, lastNonopt, nextchar>>
swap       == <<bottom, middle, top, resume, unswapped>>
getoptVars == <<argv, scan, ordering, pc, swap, optc, flags>>

Operand(text)   == [kind |-> "operand", text |-> text]
EndOfOptions    == [kind |-> "end"]
Cluster(chars)  == [kind |-> "short", chars |-> chars]
Long(matches, value) == [kind |-> "long", matches |-> matches, value |-> value]

Argc == Len(argv) + 1
Nothing == <<>>

(***************************************************************************)
(* _getopt_initialize, before the first call does anything else.           *)
(***************************************************************************)
GetoptInit(args, posixlyCorrect, values) ==
  /\ argv = args /\ unswapped = Nothing
  /\ optind = 1 /\ firstNonopt = 1 /\ lastNonopt = 1 /\ nextchar = 0
  /\ ordering = IF posixlyCorrect THEN "REQUIRE_ORDER" ELSE "PERMUTE"
  /\ bottom = 0 /\ middle = 0 /\ top = 0 /\ resume = "none"
  /\ pc = "call" /\ optc = "none" /\ flags = values

-----------------------------------------------------------------------------
(***************************************************************************)
(* exchange.  The shorter of the two blocks changes places with the far    *)
(* end of the longer one, until one is empty.                              *)
(***************************************************************************)
\* Words [i, i + len) and [j, j + len) of a change places.
Swapped(a, i, j, len) ==
  [k \in DOMAIN a |->
     IF i <= k /\ k < i + len THEN a[k - i + j]
     ELSE IF j <= k /\ k < j + len THEN a[k - j + i]
     ELSE a[k]]

BeginExchange(last, next) ==
  /\ pc' = "exchange" /\ resume' = next
  /\ bottom' = firstNonopt /\ middle' = lastNonopt /\ top' = last
  /\ unswapped' = argv

MoreToExchange == top > middle /\ middle > bottom

ExchangeBottom ==
  /\ pc = "exchange" /\ MoreToExchange
  /\ top - middle > middle - bottom
  /\ argv' = Swapped(argv, bottom, top - (middle - bottom), middle - bottom)
  /\ top' = top - (middle - bottom)
  /\ UNCHANGED <<scan, ordering, pc, bottom, middle, resume, unswapped, optc, flags>>

\* Mutant: the mark between the blocks moves along.
ExchangeTopTwice ==
  /\ pc = "exchange" /\ MoreToExchange
  /\ top - middle <= middle - bottom
  /\ argv' = Swapped(argv, bottom, middle, top - middle)
  /\ bottom' = bottom + (top - middle) /\ middle' = middle - (top - middle)
  /\ UNCHANGED <<scan, ordering, pc, top, resume, unswapped, optc, flags>>

ExchangeTop ==
  /\ pc = "exchange" /\ MoreToExchange
  /\ top - middle <= middle - bottom
  /\ argv' = Swapped(argv, bottom, middle, top - middle)
  /\ bottom' = bottom + (top - middle)
  /\ UNCHANGED <<scan, ordering, pc, middle, top, resume, unswapped, optc, flags>>

ExchangeDone ==
  /\ pc = "exchange" /\ ~MoreToExchange
  /\ firstNonopt' = firstNonopt + (optind - lastNonopt)
  /\ lastNonopt' = optind
  /\ pc' = resume
  /\ UNCHANGED <<argv, optind, nextchar, ordering, swap, optc, flags>>

-----------------------------------------------------------------------------
(***************************************************************************)
(* A call with no letters left advances to the next word.                  *)
(***************************************************************************)
Behind == firstNonopt # lastNonopt /\ lastNonopt # optind

ExchangeBehind ==
  /\ pc = "call" /\ nextchar = 0
  /\ ordering = "PERMUTE" /\ Behind
  /\ BeginExchange(optind, "skip")
  /\ UNCHANGED <<argv, scan, ordering, optc, flags>>

\* Mutant: operands are taken to begin where the last ones ended.
NothingBehindKeepsFirst ==
  /\ pc = "call" /\ nextchar = 0
  /\ ordering = "PERMUTE" /\ ~Behind
  /\ pc' = "skip"
  /\ UNCHANGED <<argv, scan, ordering, swap, optc, flags>>

NothingBehind ==
  /\ pc = "call" /\ nextchar = 0
  /\ ordering = "PERMUTE" /\ ~Behind
  /\ firstNonopt' = IF lastNonopt # optind THEN optind ELSE firstNonopt
  /\ pc' = "skip"
  /\ UNCHANGED <<argv, optind, lastNonopt, nextchar, ordering, swap, optc, flags>>

InOrder ==
  /\ pc = "call" /\ nextchar = 0
  /\ ordering = "REQUIRE_ORDER"
  /\ pc' = "endmark"
  /\ UNCHANGED <<argv, scan, ordering, swap, optc, flags>>

IsOperand(i) == argv[i].kind = "operand"

SkipOperands ==
  /\ pc = "skip"
  /\ \E i \in optind..Argc :
       /\ \A j \in optind..(i - 1) : IsOperand(j)
       /\ i # Argc => ~IsOperand(i)
       /\ optind' = i /\ lastNonopt' = i
  /\ pc' = "endmark"
  /\ UNCHANGED <<argv, firstNonopt, nextchar, ordering, swap, optc, flags>>

(***************************************************************************)
(* "--" is exchanged like an option; everything behind it is an operand.   *)
(***************************************************************************)
AtEndMark == optind # Argc /\ argv[optind] = EndOfOptions

ExchangeEndMark ==
  /\ pc = "endmark" /\ AtEndMark
  /\ optind' = optind + 1
  /\ firstNonopt # lastNonopt /\ lastNonopt # optind'
  /\ BeginExchange(optind', "ended")
  /\ UNCHANGED <<argv, firstNonopt, lastNonopt, nextchar, ordering, optc, flags>>

\* Mutant: the operands before "--" are forgotten.
PassEndMarkAnyway ==
  /\ pc = "endmark" /\ AtEndMark
  /\ optind' = optind + 1
  /\ firstNonopt' = optind'
  /\ pc' = "ended"
  /\ UNCHANGED <<argv, lastNonopt, nextchar, ordering, swap, optc, flags>>

PassEndMark ==
  /\ pc = "endmark" /\ AtEndMark
  /\ optind' = optind + 1
  /\ ~(firstNonopt # lastNonopt /\ lastNonopt # optind')
  /\ firstNonopt' = IF firstNonopt = lastNonopt THEN optind' ELSE firstNonopt
  /\ pc' = "ended"
  /\ UNCHANGED <<argv, lastNonopt, nextchar, ordering, swap, optc, flags>>

Ended ==
  /\ pc = "ended"
  /\ lastNonopt' = Argc /\ optind' = Argc
  /\ pc' = "test"
  /\ UNCHANGED <<argv, firstNonopt, nextchar, ordering, swap, optc, flags>>

NoEndMark ==
  /\ pc = "endmark" /\ ~AtEndMark
  /\ pc' = "test"
  /\ UNCHANGED <<argv, scan, ordering, swap, optc, flags>>

-----------------------------------------------------------------------------
Return(code) == optc' = code /\ pc' = "returned"

AllScanned ==
  /\ pc = "test" /\ optind = Argc
  /\ optind' = IF firstNonopt # lastNonopt THEN firstNonopt ELSE optind
  /\ Return("-1")
  /\ UNCHANGED <<argv, firstNonopt, lastNonopt, nextchar, ordering, swap, flags>>

StopAtOperand ==
  /\ pc = "test" /\ optind # Argc /\ IsOperand(optind)
  /\ Return("-1")
  /\ UNCHANGED <<argv, scan, ordering, swap, flags>>

(***************************************************************************)
(* process_long_option.  An abbreviation is ambiguous unless all entries   *)
(* it may stand for do the same.                                           *)
(***************************************************************************)
\* Mutant: of several entries any is taken.
FoundAny(w) == w.matches

Found(w) ==
  IF \A o, p \in w.matches : o.flag = p.flag /\ o.val = p.val THEN w.matches ELSE {}

LongOption ==
  /\ pc = "test" /\ optind # Argc /\ argv[optind].kind = "long"
  /\ optind' = optind + 1
  /\ LET found == Found(argv[optind])
     IN IF found = {} \/ argv[optind].value
        THEN Return("?") /\ UNCHANGED flags
        ELSE \E o \in found : flags' = [flags EXCEPT ![o.flag] = o.val] /\ Return("0")
  /\ UNCHANGED <<argv, firstNonopt, lastNonopt, nextchar, ordering, swap>>

(***************************************************************************)
(* A cluster of letters, one for each call.                                *)
(***************************************************************************)
BeginCluster ==
  /\ pc = "test" /\ optind # Argc /\ argv[optind].kind = "short"
  /\ nextchar' = 1
  /\ pc' = "short"
  /\ UNCHANGED <<argv, optind, firstNonopt, lastNonopt, ordering, swap, optc, flags>>

ContinueCluster ==
  /\ pc = "call" /\ nextchar # 0
  /\ pc' = "short"
  /\ UNCHANGED <<argv, scan, ordering, swap, optc, flags>>

\* Mutant: the last letter does not advance to the next word.
ShortOptionStays ==
  /\ pc = "short"
  /\ LET chars == argv[optind].chars
     IN /\ Return(IF chars[nextchar] \in ShortOptions THEN chars[nextchar] ELSE "?")
        /\ nextchar' = IF nextchar = Len(chars) THEN 0 ELSE nextchar + 1
  /\ UNCHANGED <<argv, optind, firstNonopt, lastNonopt, ordering, swap, flags>>

ShortOption ==
  /\ pc = "short"
  /\ LET chars == argv[optind].chars
     IN /\ Return(IF chars[nextchar] \in ShortOptions THEN chars[nextchar] ELSE "?")
        /\ IF nextchar = Len(chars)
           THEN nextchar' = 0 /\ optind' = optind + 1
           ELSE nextchar' = nextchar + 1 /\ UNCHANGED optind
  /\ UNCHANGED <<argv, firstNonopt, lastNonopt, ordering, swap, flags>>

GetoptLong ==
  \/ ExchangeBottom \/ ExchangeTop \/ ExchangeDone
  \/ ExchangeBehind \/ NothingBehind \/ InOrder \/ SkipOperands
  \/ ExchangeEndMark \/ PassEndMark \/ Ended \/ NoEndMark
  \/ AllScanned \/ StopAtOperand
  \/ LongOption \/ BeginCluster \/ ContinueCluster \/ ShortOption

-----------------------------------------------------------------------------
(***************************************************************************)
(* Properties.                                                             *)
(***************************************************************************)
(* What exchange is for: the block [b, m) and the block [m, t) of a change *)
(* places, each in its own order.                                          *)
BlocksExchanged(a, b, m, t) ==
  [k \in DOMAIN a |->
     IF b <= k /\ k < b + (t - m) THEN a[k + (m - b)]
     ELSE IF b + (t - m) <= k /\ k < t THEN a[k - (t - m)]
     ELSE a[k]]

(* Whatever the lengths of the two blocks, when exchange returns they have *)
(* changed places, and nothing else has moved.                             *)
ExchangeKeepsOrder ==
  pc = "exchange" /\ ~MoreToExchange =>
    argv = BlocksExchanged(unswapped, firstNonopt, lastNonopt, optind)

(* What getopt has passed is options, except for the operands it remembers *)
(* and has not yet exchanged with the options behind them.                 *)
Sorted ==
  ordering = "PERMUTE" /\ pc = "call" =>
    /\ 1 <= firstNonopt /\ firstNonopt <= lastNonopt /\ lastNonopt <= optind
    /\ \A i \in 1..(optind - 1) :
         IsOperand(i) <=> firstNonopt <= i /\ i < lastNonopt
=============================================================================
