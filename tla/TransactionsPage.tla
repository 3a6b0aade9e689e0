-------------------------- MODULE TransactionsPage --------------------------
(***************************************************************************)
(* What the transactions page shows while its two selects are changed under *)
(* way: transactions/transactions-page.component.js.                       *)
(*                                                                         *)
(* A render belongs to a generation and gives way to a newer one at each of *)
(* its awaits.  Choosing an account loads its records and renders them a    *)
(* chunk at a time; choosing a token renders what is loaded already, under  *)
(* a generation of its own.                                                *)
(***************************************************************************)
EXTENDS Naturals, Sequences

CONSTANTS
  Shown,       \* accounts of the account select
  All,         \* the filter "All tokens"
  Filter,      \* All, and the tokens
  Chunks,      \* Chunks[a][f]: chunks that a's transactions of f make
  NoAccount,   \* nothing chosen, or nothing loaded
  MaxRenders   \* bound: generations

ASSUME PageAssumption ==
  /\ All \in Filter /\ NoAccount \notin Shown
  /\ Chunks \in [Shown -> [Filter -> Nat]]
  /\ \A a \in Shown, f \in Filter : Chunks[a][f] > 0 => Chunks[a][All] > 0
  /\ MaxRenders \in Nat

VARIABLES
  chosen,       \* the account select
  filter,       \* the token select
  loaded,       \* the account whose records the page holds
  table,        \* the chunks in the table, in the order they were appended
  generation,   \* the latest render
  render,       \* render[g]: where generation g stands, what it renders, and its next chunk
  spinner,      \* does the page say that it is loading?
  interrupted   \* has the load of the chosen account been aborted, or failed?

pageVars == <<chosen, filter, loaded, table, generation, render, spinner, interrupted>>

Listing(a, f) ==
  IF a = NoAccount THEN <<>> ELSE [i \in 1 .. Chunks[a][f] |-> <<a, f, i>>]

Render(at, a, f, next) == [at |-> at, account |-> a, filter |-> f, next |-> next]
Done == Render("done", NoAccount, All, 0)
Under == {g \in 1 .. generation : render[g].at # "done"}

\* isCurrent. Mutant: a render does not look at the generation again.
Always(g) == TRUE
IsCurrent(g) == g = generation

PageInit ==
  /\ chosen = NoAccount /\ filter = All /\ loaded = NoAccount
  /\ table = <<>> /\ generation = 0
  /\ render = [g \in 1 .. MaxRenders |-> Done]
  /\ spinner = FALSE /\ interrupted = FALSE

---------------------------------------------------------------------------

\* The first turn of _renderTable empties the table and appends the first chunk, if there is
\* one.  With nothing to yield for it ends there, and the run of updateView it is part of
\* clears the spinner.
RenderTable(g, a, f, view) ==
  LET rest == Chunks[a][f] > 1
  IN /\ table' = IF Chunks[a][f] > 0 THEN <<<<a, f, 1>>>> ELSE <<>>
     /\ render' = [render EXCEPT ![g] =
          IF rest THEN Render(IF view THEN "viewing" ELSE "filtering", a, f, 2) ELSE Done]
     /\ spinner' = (spinner /\ ~(view /\ ~rest))

\* updateView, up to the first await of _loadAccount.
ChooseAccount(a) ==
  /\ a # chosen /\ generation < MaxRenders
  /\ chosen' = a
  /\ generation' = generation + 1
  /\ render' = [render EXCEPT ![generation + 1] = Render("records", a, All, 0)]
  /\ spinner' = TRUE /\ interrupted' = FALSE
  /\ UNCHANGED <<filter, loaded, table>>

\* A render that is no longer current ends at the await it was at, and leaves the spinner.
Abort(g) ==
  /\ render[g].at # "done" /\ ~IsCurrent(g)
  /\ render' = [render EXCEPT ![g] = Done]
  /\ UNCHANGED <<chosen, filter, loaded, table, generation, spinner, interrupted>>

RecordsRead(g) ==
  /\ render[g].at = "records" /\ IsCurrent(g)
  /\ render' = [render EXCEPT ![g].at = "display"]
  /\ UNCHANGED <<chosen, filter, loaded, table, generation, spinner, interrupted>>

\* Reading the records, or resolving how their tokens are shown, throws.
LoadFails(g) ==
  /\ render[g].at \in {"records", "display"}
  /\ render' = [render EXCEPT ![g] = Done]
  /\ spinner' = (spinner /\ ~IsCurrent(g))
  /\ interrupted' = (interrupted \/ IsCurrent(g))
  /\ UNCHANGED <<chosen, filter, loaded, table, generation>>

\* The page takes the records over, the token select is filled anew and reset.
Loads(g) ==
  /\ render[g].at = "display" /\ IsCurrent(g)
  /\ loaded' = render[g].account /\ filter' = All
  /\ RenderTable(g, render[g].account, All, TRUE)
  /\ UNCHANGED <<chosen, generation, interrupted>>

\* The token select is disabled until an account with transactions is loaded.
ChooseFilter(f) ==
  /\ loaded # NoAccount /\ f # filter /\ Chunks[loaded][f] > 0
  /\ generation < MaxRenders
  /\ filter' = f
  /\ generation' = generation + 1
  /\ interrupted' = (interrupted \/ spinner)
  /\ RenderTable(generation + 1, loaded, f, FALSE)
  /\ UNCHANGED <<chosen, loaded>>

NextChunk(g) ==
  /\ render[g].at \in {"viewing", "filtering"} /\ IsCurrent(g)
  /\ table' = Append(table, <<render[g].account, render[g].filter, render[g].next>>)
  /\ LET last == render[g].next = Chunks[render[g].account][render[g].filter]
     IN /\ render' = [render EXCEPT ![g] = IF last THEN Done ELSE [render[g] EXCEPT !.next = @ + 1]]
        /\ spinner' = (spinner /\ ~(last /\ render[g].at = "viewing"))
  /\ UNCHANGED <<chosen, filter, loaded, generation, interrupted>>

PageNext ==
  \/ \E a \in Shown : ChooseAccount(a)
  \/ \E f \in Filter : ChooseFilter(f)
  \/ \E g \in 1 .. MaxRenders :
       Abort(g) \/ RecordsRead(g) \/ LoadFails(g) \/ Loads(g) \/ NextChunk(g)

PageSpec == PageInit /\ [][PageNext]_pageVars

---------------------------------------------------------------------------
(* Properties. *)

\* However the selects are changed while renders are under way, the rows are the beginning of
\* one account's transactions under the filter the select shows.  Once no render is under way
\* they are all those of the account that was chosen last, and nothing says that it is
\* loading, unless a filter change fell into its load, or the load failed.
ShownIsChosen ==
  /\ \E n \in 0 .. Len(Listing(loaded, filter)) : table = SubSeq(Listing(loaded, filter), 1, n)
  /\ Under = {} /\ ~interrupted =>
       loaded = chosen /\ table = Listing(loaded, filter) /\ ~spinner
=============================================================================
