----------------------------- MODULE MCBrowser -----------------------------
(***************************************************************************)
(* An instance for TLC of the parts of a browser session that touch none of *)
(* each other's state: the migration of the repository, the tokens and      *)
(* signatures, and the pages with transactions, year report and portfolio.  *)
(* A behavior is one of one part, the others at a state they begin in.      *)
(***************************************************************************)
EXTENDS Migration, GatewayAccess, TransactionsPage, YearReportPage, PortfolioPage, TLC

CONSTANTS
  t1, t2, f1, f2,          \* tabs, files
  r1, b1, h1,              \* requests, a confidential fetch
  alice, bob, carol, nobody,   \* accounts; carol's history is also fetched
  all, near, usdc, spam    \* tokens

VARIABLE part

Parts == {"migration", "access", "transactions", "report", "portfolio"}

\* alice's transactions make three chunks, those of NEAR two; bob has none of NEAR; carol has
\* none to show.
ChunksOf ==
  (alice :> (all :> 3 @@ near :> 2)) @@ (bob :> (all :> 2 @@ near :> 0)) @@ (carol :> (all :> 0 @@ near :> 0))

SymbolsOf == (spam :> "SPAM") @@ (usdc :> "USDC")
TokensOf == (1 :> spam) @@ (2 :> usdc)
Lists == {{"SPAM", "USDC"}, {spam}}
Selected == [currency |-> "nok", from |-> 1, grain |-> "month"]

\* Of a part that does not run, one initial state is enough.
OneOf(running, name, condition) == running = name \/ condition

BrowserInit ==
  /\ part \in Parts
  /\ MigrationInit /\ OneOf(part, "migration", legacy = {})
  /\ AccessInit /\ OneOf(part, "access", wallet = NoOne)
  /\ PageInit
  /\ ReportInit /\ OneOf(part, "report", asked = 1 /\ file.excluded = {spam})
  /\ PortfolioInit

BrowserNext ==
  \/ /\ part = "migration" /\ MigrationNext
     /\ UNCHANGED <<part, accessVars, pageVars, reportVars, portfolioVars>>
  \/ /\ part = "access" /\ AccessNext
     /\ UNCHANGED <<part, migrationVars, pageVars, reportVars, portfolioVars>>
  \/ /\ part = "transactions" /\ PageNext
     /\ UNCHANGED <<part, migrationVars, accessVars, reportVars, portfolioVars>>
  \/ /\ part = "report" /\ ReportNext
     /\ UNCHANGED <<part, migrationVars, accessVars, pageVars, portfolioVars>>
  \/ /\ part = "portfolio" /\ PortfolioNext
     /\ UNCHANGED <<part, migrationVars, accessVars, pageVars, reportVars>>

BrowserSpec ==
  BrowserInit
  /\ [][BrowserNext]_<<part, migrationVars, accessVars, pageVars, reportVars, portfolioVars>>
  /\ AccessFairness
=============================================================================
