---------------------------- MODULE MCPriceStore ----------------------------
(* Instances of PriceStore for TLC. *)
EXTENDS PriceStore

CONSTANTS c1, c2, stnear, upper, lower, upperNOK, lowerNOK, lowernok

\* STNEAR and stNEAR are one token; a refresh writes currencies in upper case.
DirOfName == [n \in Name |-> IF n = upperNOK THEN upper ELSE lower]
TokenOfDir == [d \in Dir |-> stnear]
ListedName == [d \in Dir |-> IF d = upper THEN upperNOK ELSE lowerNOK]

\* The cache ignores the case of the token and not the case of the currency.
KeyOfName == [n \in Name |-> IF n = lowernok THEN "STNEAR nok" ELSE "STNEAR NOK"]

\* A report and a chart ask, each with a spelling of its own, while "load from server" is
\* at work.
PagesAsk ==
  [c \in Caller |->
     IF c = c1 THEN [lookup |-> {lowernok}, map |-> {upperNOK}, refresh |-> FALSE]
     ELSE [lookup |-> {}, map |-> {}, refresh |-> TRUE]]

ShortOffers == {{1}, {2}}
=============================================================================
