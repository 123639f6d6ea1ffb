--------------------------- MODULE MCPairedCalls ---------------------------
(***************************************************************************)
(* Two instances of the rule, sharing the variables: one pair of calls in  *)
(* files of three nodes, and two pairs that share a closer, one of them    *)
(* for another platform, in files of two nodes. The constants of the       *)
(* configuration bound both, and the properties are those of PairedCalls.  *)
(* A third instance is that of the configuration: one pair of calls.       *)
(***************************************************************************)
EXTENDS PairedCalls

VARIABLE pairs      \* which instance this behaviour is of

OnePair == INSTANCE PairedCalls WITH
    Openers <- {"begin"}, Closers <- {"end"}, ClosersOf <- [o \in {"begin"} |-> {"end"}],
    Roblox <- {"begin"}, MaxNodes <- 3, MaxCases <- 2, MaxOpeners <- 2

SharedCloser == [o \in {"begin", "open"} |-> IF o = "begin" THEN {"end"} ELSE {"end", "close"}]
TwoPairs == INSTANCE PairedCalls WITH
    Openers <- {"begin", "open"}, Closers <- {"end", "close"}, ClosersOf <- SharedCloser,
    Roblox <- {"begin"}, MaxNodes <- 2, MaxCases <- 1, MaxOpeners <- 3

EitherInit ==
  \/ pairs = 1 /\ OnePair!Init
  \/ pairs = 2 /\ TwoPairs!Init
NextOne == pairs = 1 /\ OnePair!Next /\ UNCHANGED pairs
NextTwo == pairs = 2 /\ TwoPairs!Next /\ UNCHANGED pairs
EitherNext == NextOne \/ NextTwo
EitherSpec == EitherInit /\ [][EitherNext]_<<pairs, vars>>

EachClosedByEnd == [o \in Openers |-> {"end"}]
PlainSpec == pairs = 0 /\ Init /\ [][Next /\ UNCHANGED pairs]_<<pairs, vars>>
=============================================================================
