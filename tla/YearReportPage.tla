--------------------------- MODULE YearReportPage ---------------------------
(***************************************************************************)
(* The year report page: what its table shows while its selects are changed, *)
(* and the list of tokens it leaves out.  yearreport-page.component.js,      *)
(* yearreport-table-renderer.js and token-exclusions.js of yearreport/, over *)
(* the exclusions' file of storage/domainobjectstore.js.                    *)
(*                                                                         *)
(* A render gives way to no other: it clears the table at one of its steps  *)
(* and appends at later ones.  What a report says is in YearReport; here    *)
(* are only its rows, and the tokens a combined one leaves out.             *)
(***************************************************************************)
EXTENDS Naturals, Sequences

CONSTANTS
  Token,        \* fungible tokens
  SymbolOf,     \* their symbols, by which an old entry without a contract names them
  NoMarket,     \* tokens the price service knows to have no price
  Report,       \* what the selects can say: a token or all of them, a period, a currency
  Combined,     \* reports of all tokens
  NoCurrency,   \* reports in no currency
  TokenOf,      \* TokenOf[r]: the token of a report that is not combined
  Days,         \* days of a report that have a row
  OldLists,     \* files an older build may have left: the bare list
  Task,         \* handlers and renders that may be under way at once
  MaxTasks      \* bound: how many begin

\* An entry with a contract is told from one with a symbol only.
ASSUME ReportAssumption ==
  /\ Combined \subseteq Report /\ NoCurrency \subseteq Report /\ NoMarket \subseteq Token
  /\ TokenOf \in [Report \ Combined -> Token]
  /\ \A c \in Token : SymbolOf[c] \notin Token
  /\ Days \in Nat \ {0} /\ MaxTasks \in Nat

VARIABLES
  file,        \* the exclusions' file: the entries excluded, the tokens kept
  exclusions,  \* this.exclusions
  asked,       \* what the selects say, and the page's fields with them
  reportTable, \* the rows of the table
  columns,     \* the report whose column titles and caption the table has: "token" or "all"
  totals,      \* the report and the day its totals were set at
  task,        \* task[k]: where k stands
  begun,       \* the bounded count of them
  rendersMet,  \* have two renders been under way at once, since one began alone?
  failed,      \* has a render failed since?
  wish,        \* wish[c]: what the user has last asked for c: "out", "in", "back" or nothing
  raced        \* have two changes of the file been under way at once?

reportVars ==
  <<file, exclusions, asked, reportTable, columns, totals, task, begun, rendersMet, failed, wish, raced>>

IdleTask == [at |-> "idle"]
Rendering == {k \in Task : task[k].at \in {"computing", "collecting", "rows"}}
Changing == {k \in Task : task[k].at \in {"read", "write", "reread"}}
MeetsChange(k) == raced \/ Changing \ {k} # {}
Quiet == \A k \in Task : task[k].at = "idle"

\* An entry is a token's contract, or a symbol.
IsExcluded(list, c) == c \in list.excluded \/ SymbolOf[c] \in list.excluded
LeftOut(list) == {c \in Token : IsExcluded(list, c)}

ReportInit ==
  /\ file \in [excluded : OldLists, kept : {{}}]
  /\ exclusions = file
  /\ asked \in Report \ Combined
  /\ reportTable = <<>> /\ columns = "token" /\ totals = <<>>
  /\ task = [k \in Task |-> IdleTask]
  /\ begun = 0
  /\ rendersMet = FALSE /\ failed = FALSE
  /\ wish = [c \in Token |-> "nothing"]
  /\ raced = FALSE

---------------------------------------------------------------------------
(* Rendering: refreshView, renderPeriodReportTable, renderAllTokensPeriodTable. *)

Row(r, left, n) == [report |-> r, left |-> left, day |-> n]
Message(r) == [report |-> r, message |-> TRUE]
RenderTask(at, r) == [at |-> at, report |-> r, left |-> LeftOut(exclusions'), next |-> 1]

\* A combined report clears the table before it collects, one of a token once it has computed.
StartsRender(k, r) ==
  /\ rendersMet' = (Rendering \ {k} # {})
  /\ failed' = (failed /\ Rendering \ {k} # {})
  /\ IF r \in Combined /\ r \in NoCurrency
     THEN /\ reportTable' = <<Message(r)>>
          /\ task' = [task EXCEPT ![k] = IdleTask]
          /\ UNCHANGED columns
     ELSE IF r \in Combined
     THEN /\ reportTable' = <<>>
          /\ task' = [task EXCEPT ![k] = RenderTask("collecting", r)]
          /\ UNCHANGED columns
     ELSE /\ columns' = "token"
          /\ task' = [task EXCEPT ![k] = RenderTask("computing", r)]
          /\ UNCHANGED reportTable

Begins(k) ==
  /\ task[k].at = "idle" /\ begun < MaxTasks
  /\ begun' = begun + 1

\* updateView, and the listeners of the year, month and length.
Choose(k, r) ==
  /\ Begins(k)
  /\ r # asked \/ reportTable = <<>>
  /\ asked' = r
  /\ UNCHANGED exclusions
  /\ StartsRender(k, r)
  /\ UNCHANGED <<file, totals, wish, raced>>

\* Mutant: nothing is removed from the table.
Kept == reportTable
Cleared == <<>>

Computed(k) ==
  /\ task[k].at = "computing"
  /\ reportTable' = Cleared
  /\ task' = [task EXCEPT ![k].at = "rows"]
  /\ UNCHANGED <<file, exclusions, asked, columns, totals, begun, rendersMet, failed, wish, raced>>

\* What the prices did not answer for, and what was left out, goes above the rows.
Collected(k) ==
  /\ task[k].at = "collecting"
  /\ columns' = "all"
  /\ task' = [task EXCEPT ![k].at = "rows"]
  /\ UNCHANGED <<file, exclusions, asked, reportTable, totals, begun, rendersMet, failed, wish, raced>>

\* A combined report then looks for tokens without a market among those it has read.
AfterRows(k) ==
  LET none == NoMarket \ task[k].left
  IN IF task[k].report \in Combined /\ none # {} THEN [at |-> "read", change |-> "auto", of |-> none]
     ELSE IdleTask

\* One day, newest first.  The totals of a token's report are set with each row, those of a
\* combined one after the last.
NextRow(k) ==
  /\ task[k].at = "rows"
  /\ LET t == task[k]
         last == t.next = Days
     IN /\ reportTable' = Append(reportTable, Row(t.report, t.left, t.next))
        /\ totals' = IF last \/ t.report \notin Combined THEN <<t.report, t.next>> ELSE totals
        /\ task' = [task EXCEPT ![k] = IF last THEN AfterRows(k) ELSE [t EXCEPT !.next = t.next + 1]]
        /\ raced' = IF last /\ AfterRows(k) # IdleTask THEN MeetsChange(k) ELSE raced
  /\ UNCHANGED <<file, exclusions, asked, columns, begun, rendersMet, failed, wish>>

\* Reading or pricing the days throws, and nothing catches it.
RenderFails(k) ==
  /\ k \in Rendering
  /\ task' = [task EXCEPT ![k] = IdleTask]
  /\ failed' = TRUE
  /\ UNCHANGED <<file, exclusions, asked, reportTable, columns, totals, begun, rendersMet, wish, raced>>

---------------------------------------------------------------------------
(* The excluded tokens. *)

\* The button excludes the token whose report is shown, unless it is excluded.
ClickExclude(k) ==
  /\ Begins(k)
  /\ asked \notin Combined /\ ~IsExcluded(exclusions, TokenOf[asked])
  /\ task' = [task EXCEPT ![k] = [at |-> "read", change |-> "exclude", of |-> TokenOf[asked]]]
  /\ wish' = [wish EXCEPT ![TokenOf[asked]] = "out"]
  /\ raced' = MeetsChange(k)
  /\ UNCHANGED <<file, exclusions, asked, reportTable, columns, totals, rendersMet, failed>>

\* "Include again", beside an entry of the list.  One without a contract asks for the tokens
\* that are left out by their symbol.
Asked(entry, c) ==
  IF entry = c THEN "in"
  ELSE IF entry = SymbolOf[c] /\ c \notin exclusions.excluded /\ wish[c] = "nothing" THEN "back"
  ELSE wish[c]

ClickInclude(k, entry) ==
  /\ Begins(k)
  /\ entry \in exclusions.excluded
  /\ task' = [task EXCEPT ![k] = [at |-> "read", change |-> "include", of |-> entry]]
  /\ wish' = [c \in Token |-> Asked(entry, c)]
  /\ raced' = MeetsChange(k)
  /\ UNCHANGED <<file, exclusions, asked, reportTable, columns, totals, rendersMet, failed>>

\* excludeToken.
WithExcluded(list, c) ==
  [excluded |-> IF IsExcluded(list, c) THEN list.excluded ELSE list.excluded \cup {c},
   kept |-> list.kept \ {c}]

\* includeToken, by the contract: an entry without one takes all such entries with it, and
\* what is kept names no token.
WithIncluded(list, entry) ==
  IF entry \in Token
  THEN [excluded |-> list.excluded \ {entry}, kept |-> list.kept \cup {entry}]
  ELSE [excluded |-> list.excluded \cap Token, kept |-> list.kept]

\* excludeNoPriceTokens.  Mutant: what the user has put back is not looked at.
AnyAddable(list, cs) == {c \in cs : ~IsExcluded(list, c)}
Addable(list, cs) == {c \in cs : ~IsExcluded(list, c) /\ c \notin list.kept}

Changed(list, t) ==
  CASE t.change = "exclude" -> WithExcluded(list, t.of)
    [] t.change = "include" -> WithIncluded(list, t.of)
    [] t.change = "auto" -> [list EXCEPT !.excluded = list.excluded \cup Addable(list, t.of)]

ReadExclusions(k) ==
  /\ task[k].at = "read"
  /\ LET t == task[k]
     IN task' = [task EXCEPT ![k] =
          IF t.change = "auto" /\ Addable(file, t.of) = {} THEN IdleTask
          ELSE [at |-> "write", change |-> t.change, of |-> t.of, new |-> Changed(file, t)]]
  /\ UNCHANGED <<file, exclusions, asked, reportTable, columns, totals, begun, rendersMet, failed, wish, raced>>

\* The page goes by what it has written, and renders a combined report anew.
WriteExclusions(k) ==
  /\ task[k].at = "write" /\ task[k].change # "auto"
  /\ file' = task[k].new /\ exclusions' = task[k].new
  /\ IF asked \in Combined THEN StartsRender(k, asked)
     ELSE /\ task' = [task EXCEPT ![k] = IdleTask]
          /\ UNCHANGED <<reportTable, columns, rendersMet, failed>>
  /\ UNCHANGED <<asked, totals, begun, wish, raced>>

\* Or, for the tokens without a market, by what it then reads again.
WriteNoPrice(k) ==
  /\ task[k].at = "write" /\ task[k].change = "auto"
  /\ file' = task[k].new
  /\ task' = [task EXCEPT ![k] = [at |-> "reread"]]
  /\ UNCHANGED <<exclusions, asked, reportTable, columns, totals, begun, rendersMet, failed, wish, raced>>

ReadAgain(k) ==
  /\ task[k].at = "reread"
  /\ exclusions' = file
  /\ task' = [task EXCEPT ![k] = IdleTask]
  /\ UNCHANGED <<file, asked, reportTable, columns, totals, begun, rendersMet, failed, wish, raced>>

ReportNext ==
  \E k \in Task :
    \/ \E r \in Report : Choose(k, r)
    \/ ClickExclude(k)
    \/ \E entry \in exclusions.excluded : ClickInclude(k, entry)
    \/ Computed(k) \/ Collected(k) \/ NextRow(k) \/ RenderFails(k)
    \/ ReadExclusions(k) \/ WriteExclusions(k) \/ WriteNoPrice(k) \/ ReadAgain(k)

ReportSpec == ReportInit /\ [][ReportNext]_reportVars

---------------------------------------------------------------------------
(* Properties. *)

\* When nothing is under way after a render that no other overlapped and that did not fail,
\* whatever earlier ones had left in the table, it has each day of the chosen report once,
\* under the titles and over the totals of that report.  A combined one then has left out the
\* tokens of the list, but for those the list has since got for want of a market.
ReportIsChosen ==
  Quiet /\ ~rendersMet /\ ~failed /\ reportTable # <<>> /\ reportTable # <<Message(asked)>> =>
    /\ \E left \in SUBSET Token :
         /\ reportTable = [n \in 1 .. Days |-> Row(asked, left, n)]
         /\ asked \in Combined /\ ~raced => left \cup NoMarket = LeftOut(exclusions) \cup NoMarket
    /\ columns = IF asked \in Combined THEN "all" ELSE "token"
    /\ totals = <<asked, Days>>

\* What the user has put back stays in the report, and is not left out again for want of a
\* market; what the user has left out stays out.  What was put back from an entry without a
\* contract stays in as well, but for want of a market: it is not remembered, whatever the
\* comment of includeToken says.  Unless a change of the list overlapped another, which it
\* may have undone.
ExclusionsKept ==
  Changing = {} /\ ~raced =>
    \A c \in Token : /\ wish[c] = "in" => c \notin file.excluded /\ c \in file.kept
                     /\ wish[c] = "out" => IsExcluded(file, c)
                     /\ wish[c] = "back" /\ c \notin NoMarket => ~IsExcluded(file, c)
=============================================================================
