-------------------------- MODULE PriceStoreProofs --------------------------
(***************************************************************************)
(* Proofs about PriceStore: its types, what a fetch may lose, when a cached *)
(* history is the one in the store, and when a request is refused.          *)
(***************************************************************************)
EXTENDS PriceStore, TLAPS

\* Who is reading, fetching or writing a history knows whose it is.
Named == \A c \in Caller : call[c].step \notin {"idle", "next"} => call[c].name \in Name

TypeInv == TypeOK /\ Named

---------------------------------------------------------------------------
(* Types. *)

\* What c is doing changes: the other callers go on with what they did.
LEMMA Became ==
  ASSUME TypeInv, NEW c \in Caller, NEW g \in Call, Become(c, g),
         g.step \notin {"idle", "next"} => g.name \in Name
  PROVE  call' \in [Caller -> Call] /\ Named'
<1>1. call' = [call EXCEPT ![c] = g]  BY DEF Become
<1>2. call \in [Caller -> Call]  BY DEF TypeInv, TypeOK
<1>3. call' \in [Caller -> Call]  BY <1>1, <1>2
<1>4. ASSUME NEW x \in Caller PROVE call'[x] = IF x = c THEN g ELSE call[x]
  BY <1>1, <1>2
<1>. QED  BY <1>3, <1>4 DEF TypeInv, Named

\* Between two questions a caller does nothing.
LEMMA NoCallTyped == NoCall \in Call /\ NoCall.step = "idle"
BY DEF NoCall, Call

\* The directories of a history are known.
LEMMA ListedTyped ==
  ASSUME NEW f \in Call, NEW ds \in SUBSET Dir
  PROVE  /\ [f EXCEPT !.step = "read", !.todo = ds] \in Call
         /\ [f EXCEPT !.step = "read", !.todo = ds].name = f.name
BY DEF Call

\* A history is read.
LEMMA LoadedTyped ==
  ASSUME NEW f \in Call, NEW days \in SUBSET Day, NEW step \in {"decide", "place"}
  PROVE  /\ [[f EXCEPT !.got = days, !.todo = {}] EXCEPT !.step = step] \in Call
         /\ [[f EXCEPT !.got = days, !.todo = {}] EXCEPT !.step = step].name = f.name
BY DEF Call

\* The refresh goes on with a history.
LEMMA RefreshingTyped ==
  ASSUME NEW f \in Call, NEW ds \in SUBSET Dir, NEW n \in Name
  PROVE  /\ [f EXCEPT !.left = ds, !.name = n] \in Call
         /\ [f EXCEPT !.left = ds, !.name = n].name = n
BY DEF Call

\* A step of one call that names what it is about is typed: getEODPrice and the others
\* that throw (pricedata.js 450-455, 529-545, 314-317).
LEMMA ThrowTyped ==
  ASSUME TypeInv, NEW c \in Caller, NEW f \in Call, f.name \in Name, NEW error,
         Throw(c, f, error)
  PROVE  /\ call' \in [Caller -> Call] /\ Named'
         /\ skip' \subseteq Name /\ refused' \subseteq Caller /\ unsigned' \subseteq Name
<1>1. skip' \subseteq Name /\ refused' \subseteq Caller /\ unsigned' \subseteq Name
  BY DEF Throw, GivenUp, Finish, Refuse, Goto, TypeInv, TypeOK
<1>2. CASE Become(c, NoCall)
  BY <1>1, <1>2, NoCallTyped, Became
<1>3. CASE Become(c, [f EXCEPT !.step = "next"])
  <2>1. [f EXCEPT !.step = "next"] \in Call /\ [f EXCEPT !.step = "next"].step = "next"
    BY DEF Call
  <2>. QED  BY <1>1, <1>3, <2>1, Became
<1>. QED  BY <1>2, <1>3 DEF Throw, Finish, Refuse, Goto

\* fetchHistoricalPricesFromArizGateway() begins, or throws at once.
LEMMA FetchTyped ==
  ASSUME TypeInv, NEW c \in Caller, NEW f \in Call, f.name \in Name, Fetch(c, f)
  PROVE  /\ call' \in [Caller -> Call] /\ Named'
         /\ skip' \subseteq Name /\ refused' \subseteq Caller /\ unsigned' \subseteq Name
         /\ latch' \in {"open", "needs-signature", "no-answer"}
<1>1. latch' \in {"open", "needs-signature", "no-answer"}
  BY DEF Fetch, Door, TypeInv, TypeOK
<1>2. CASE \E error \in {"unsigned", "unanswered"} : Throw(c, f, error)
  BY <1>1, <1>2, ThrowTyped
<1>3. CASE Goto(c, [f EXCEPT !.step = "fetch", !.got = {}]) /\ UNCHANGED <<skip, unsigned>>
  <2>1. [f EXCEPT !.step = "fetch", !.got = {}] \in Call
    BY DEF Call
  <2>2. [f EXCEPT !.step = "fetch", !.got = {}].name \in Name
    BY DEF Call
  <2>3. skip' \subseteq Name /\ refused' \subseteq Caller /\ unsigned' \subseteq Name
    BY <1>3 DEF Goto, TypeInv, TypeOK
  <2>. QED  BY <1>1, <1>3, <2>1, <2>2, <2>3, Became DEF Goto
<1>. QED  BY <1>2, <1>3 DEF Fetch

\* The types at the start of a page.
LEMMA TypeInit == Init => TypeInv
<1>. SUFFICES ASSUME Init PROVE TypeInv
  OBVIOUS
<1>1. call \in [Caller -> Call] /\ \A c \in Caller : call[c] = NoCall
  BY NoCallTyped DEF Init
<1>2. cache \in [Key -> {NoHistory} \cup SUBSET Day]
  BY DEF Init
<1>3. arrivals \in 0 .. MaxArrivals
  BY PriceAssumption DEF Init
<1>4. TypeOK
  BY <1>1, <1>2, <1>3 DEF Init, TypeOK
<1>. QED  BY <1>1, <1>4, NoCallTyped DEF TypeInv, Named

\* Every step keeps the types.
LEMMA TypeStep == TypeInv /\ [Next]_vars => TypeInv'
<1>. SUFFICES ASSUME TypeInv, [Next]_vars PROVE TypeInv'
  OBVIOUS
<1>. USE PriceAssumption
<1>call. ASSUME NEW c \in Caller PROVE call[c] \in Call
  BY DEF TypeInv, TypeOK
<1>named. ASSUME NEW c \in Caller, call[c].step \notin {"idle", "next"}
          PROVE  /\ call[c].name \in Name
                 /\ KeyOf[call[c].name] \in Key /\ DirOf[call[c].name] \in Dir
  BY <1>named DEF TypeInv, Named
<1>loaded. ASSUME NEW c \in Caller, call[c].step \notin {"idle", "next"},
                  NEW days \in SUBSET Day, Loaded(c, days)
           PROVE  /\ cache' \in [Key -> {NoHistory} \cup SUBSET Day]
                  /\ aside' \subseteq Key
                  /\ call' \in [Caller -> Call] /\ Named'
  <2>0. aside' \subseteq Key
    BY <1>loaded DEF Loaded, TypeInv, TypeOK
  <2>1. cache' \in [Key -> {NoHistory} \cup SUBSET Day]
    BY <1>loaded, <1>named DEF Loaded, TypeInv, TypeOK
  <2>2. ASSUME NEW step \in {"decide", "place"},
               Become(c, [[call[c] EXCEPT !.got = days, !.todo = {}] EXCEPT !.step = step])
        PROVE  call' \in [Caller -> Call] /\ Named'
    <3> DEFINE g == [[call[c] EXCEPT !.got = days, !.todo = {}] EXCEPT !.step = step]
    <3>1. g \in Call /\ g.name = call[c].name
      BY <1>call, LoadedTyped
    <3>. HIDE DEF g
    <3>2. Become(c, g) /\ g.name \in Name
      BY <1>named, <1>loaded, <2>2, <3>1 DEF g
    <3>. QED  BY <3>1, <3>2, Became
  <2>. QED  BY <1>loaded, <2>0, <2>1, <2>2 DEF Loaded
<1>ask. ASSUME NEW c \in Caller, NEW op \in {"lookup", "map"}, NEW n \in Name,
               NEW day \in {0} \cup Day, Ask(c, op, n, day)
        PROVE  TypeInv'
  <2> DEFINE f == [NoCall EXCEPT !.op = op, !.name = n, !.day = day]
  <2>1. f \in Call /\ f.name = n
    BY NoCallTyped DEF Call, NoCall
  <2>2. CASE cache[KeyOf[n]] # NoHistory /\ Become(c, [f EXCEPT !.step = "decide", !.got = cache[KeyOf[n]]])
    <3>1. cache[KeyOf[n]] \in SUBSET Day
      BY <2>2 DEF TypeInv, TypeOK
    <3>2. [f EXCEPT !.step = "decide", !.got = cache[KeyOf[n]]] \in Call
      BY <2>1, <3>1 DEF Call
    <3>3. [f EXCEPT !.step = "decide", !.got = cache[KeyOf[n]]].name = n
      BY <2>1 DEF Call
    <3>. HIDE DEF f
    <3>4. call' \in [Caller -> Call] /\ Named'
      BY <2>2, <3>2, <3>3, Became
    <3>. QED  BY <1>ask, <3>4 DEF Ask, TypeInv, TypeOK, storeVars, latches
  <2>3. CASE Become(c, [f EXCEPT !.step = "list"])
    <3>1. [f EXCEPT !.step = "list"] \in Call /\ [f EXCEPT !.step = "list"].name = n
      BY <2>1 DEF Call
    <3>. HIDE DEF f
    <3>2. call' \in [Caller -> Call] /\ Named'
      BY <2>3, <3>1, Became
    <3>. QED  BY <1>ask, <3>2 DEF Ask, TypeInv, TypeOK, storeVars, latches
  <2>. QED  BY <1>ask, <2>2, <2>3 DEF Ask
<1>price. ASSUME NEW c \in Caller, NEW n \in Name, NEW day \in Day, AskPrice(c, n, day)
          PROVE  TypeInv'
  BY <1>ask, <1>price DEF AskPrice
<1>pricemap. ASSUME NEW c \in Caller, NEW n \in Name, AskPriceMap(c, n) PROVE TypeInv'
  BY <1>ask, <1>pricemap DEF AskPriceMap
<1>list. ASSUME NEW c \in Caller, List(c) PROVE TypeInv'
  <2>1. call[c].step = "list"  BY <1>list DEF List, At
  <2> DEFINE ds == DirsOf(TokenFor(call[c].name))
  <2>2. ds \in SUBSET Dir  BY DEF DirsOf, TypeInv, TypeOK
  <2>3. CASE Loaded(c, {})
    BY <1>list, <1>loaded, <2>1, <2>3 DEF List, TypeInv, TypeOK, storeVars, latches, ghosts
  <2>4. CASE /\ Become(c, [call[c] EXCEPT !.step = "read", !.todo = ds])
             /\ UNCHANGED <<cache, aside>>
    <3>. HIDE DEF ds
    <3>1. [call[c] EXCEPT !.step = "read", !.todo = ds] \in Call
      BY <1>call, <2>2, ListedTyped
    <3>2. [call[c] EXCEPT !.step = "read", !.todo = ds].name = call[c].name
      BY <1>call, <2>2, ListedTyped, Zenon
    <3>3. call' \in [Caller -> Call] /\ Named'
      <4> DEFINE g == [call[c] EXCEPT !.step = "read", !.todo = ds]
      <4>1. g \in Call /\ g.name \in Name /\ Become(c, g)
        BY <1>named, <2>1, <2>4, <3>1, <3>2
      <4>. HIDE DEF g
      <4>. QED  BY <4>1, Became
    <3>. QED  BY <1>list, <2>4, <3>3 DEF List, TypeInv, TypeOK, storeVars, latches, ghosts
  <2>. QED  BY <1>list, <2>3, <2>4 DEF List
<1>readdir. ASSUME NEW c \in Caller, NEW d \in Dir, ReadDir(c, d) PROVE TypeInv'
  <2>1. call[c].step = "read"  BY <1>readdir DEF ReadDir, At
  <2>2. file[d] \in SUBSET Day /\ call[c].got \in SUBSET Day
    BY <1>call DEF TypeInv, TypeOK, Call
  <2>3. CASE Loaded(c, call[c].got \cup file[d])
    <3>1. call[c].got \cup file[d] \in SUBSET Day  BY <2>2
    <3>. QED  BY <1>readdir, <1>loaded, <2>1, <2>3, <3>1
              DEF ReadDir, TypeInv, TypeOK, storeVars, latches, ghosts
  <2>4. CASE /\ Become(c, [call[c] EXCEPT !.todo = @ \ {d}, !.got = @ \cup file[d]])
             /\ UNCHANGED <<cache, aside>>
    <3> DEFINE ds == call[c].todo \ {d}
    <3> DEFINE days == call[c].got \cup file[d]
    <3>1. ds \in SUBSET Dir /\ days \in SUBSET Day
      BY <1>call, <2>2 DEF Call
    <3>2. Become(c, [call[c] EXCEPT !.todo = ds, !.got = days])
      BY <2>4
    <3>. HIDE DEF ds, days
    <3>3. call' \in [Caller -> Call] /\ Named'
      <4> DEFINE g == [call[c] EXCEPT !.todo = ds, !.got = days]
      <4>1. g \in Call /\ g.name = call[c].name
        <5>1. call[c] \in Call  BY <1>call
        <5>2. [call[c] EXCEPT !.todo = ds, !.got = days] \in Call
          BY <3>1, <5>1 DEF Call
        <5>3. [call[c] EXCEPT !.todo = ds, !.got = days].name = call[c].name
          BY <5>1 DEF Call
        <5>. QED  BY <5>2, <5>3
      <4>. HIDE DEF g
      <4>2. Become(c, g)  BY <3>2 DEF g
      <4>. QED  BY <1>named, <2>1, <4>1, <4>2, Became
    <3>. QED  BY <1>readdir, <2>4, <3>3 DEF ReadDir, TypeInv, TypeOK, storeVars, latches, ghosts
  <2>. QED  BY <1>readdir, <2>3, <2>4 DEF ReadDir
<1>answer. ASSUME NEW c \in Caller, Answer(c) PROVE TypeInv'
  <2>1. call[c].step = "fetch" /\ call[c] \in Call /\ call[c].name \in Name
    BY <1>answer, <1>call, <1>named DEF Answer, At
  <2>2. CASE \E days \in Offers :
               Goto(c, [call[c] EXCEPT !.step = "list", !.why = "existing", !.brought = days])
    <3>1. PICK days \in Offers :
            Goto(c, [call[c] EXCEPT !.step = "list", !.why = "existing", !.brought = days])
      BY <2>2
    <3>2. [call[c] EXCEPT !.step = "list", !.why = "existing", !.brought = days] \in Call
      BY <2>1 DEF Call
    <3>3. [call[c] EXCEPT !.step = "list", !.why = "existing", !.brought = days].name \in Name
      BY <2>1 DEF Call
    <3>4. call' \in [Caller -> Call] /\ Named' /\ refused' = refused
      BY <3>1, <3>2, <3>3, Became DEF Goto
    <3>5. /\ skip' \subseteq Name /\ unsigned' \subseteq Name
          /\ latch' \in {"open", "needs-signature", "no-answer"}
          /\ fresh' \in BOOLEAN /\ late' \subseteq Caller
      BY <1>answer, ThrowTyped, <2>1 DEF Answer, latches, TypeInv, TypeOK
    <3>. QED  BY <1>answer, <3>4, <3>5 DEF Answer, TypeInv, TypeOK, storeVars
  <2>3. CASE \E error \in {"unsigned", "failed", "unanswered"} : Throw(c, call[c], error)
    <3>1. /\ call' \in [Caller -> Call] /\ Named'
          /\ skip' \subseteq Name /\ refused' \subseteq Caller /\ unsigned' \subseteq Name
      BY <2>1, <2>3, ThrowTyped
    <3>2. /\ latch' \in {"open", "needs-signature", "no-answer"}
          /\ fresh' \in BOOLEAN /\ late' \subseteq Caller
      BY <1>answer DEF Answer, latches, TypeInv, TypeOK
    <3>. QED  BY <1>answer, <3>1, <3>2 DEF Answer, TypeInv, TypeOK, storeVars
  <2>. QED  BY <1>answer, <2>2, <2>3 DEF Answer
<1>place. ASSUME NEW c \in Caller, Place(c) PROVE TypeInv'
  <2>1. call[c] \in Call /\ call[c].name \in Name /\ DirOf[call[c].name] \in Dir
    BY <1>place, <1>call, <1>named DEF Place, At
  <2>2. PICK d \in Dir : Become(c, [call[c] EXCEPT !.step = "write", !.into = {d}])
    BY <1>place, <2>1 DEF Place, DirsOf, TypeInv, TypeOK
  <2>3. [call[c] EXCEPT !.step = "write", !.into = {d}] \in Call
    BY <2>1 DEF Call
  <2>4. [call[c] EXCEPT !.step = "write", !.into = {d}].name \in Name
    BY <2>1 DEF Call
  <2>5. call' \in [Caller -> Call] /\ Named'
    BY <2>2, <2>3, <2>4, Became
  <2>. QED  BY <1>place, <2>5 DEF Place, TypeInv, TypeOK, storeVars, latches, ghosts
<1>write. ASSUME NEW c \in Caller, Write(c) PROVE TypeInv'
  <2>1. call[c] \in Call /\ call[c].name \in Name /\ KeyOf[call[c].name] \in Key
    BY <1>write, <1>call, <1>named DEF Write, At
  <2>2. dirs' \subseteq Dir /\ late' \subseteq Caller
    BY <1>write, <2>1 DEF Write, Call, Merging, TypeInv, TypeOK
  <2>aside. aside' \subseteq Key
    BY <1>write, <2>1 DEF Write, LeftCached, TypeInv, TypeOK
  <2>3. MergedHistory(call[c]) \in SUBSET Day
    BY <2>1 DEF MergedHistory, Call
  <2>4. file' \in [Dir -> SUBSET Day]
    BY <1>write, <2>3 DEF Write, TypeInv, TypeOK
  <2>5. cache' \in [Key -> {NoHistory} \cup SUBSET Day]
    BY <1>write DEF Write, OtherHistories, TypeInv, TypeOK
  <2> DEFINE done == [call[c] EXCEPT !.got = {}, !.brought = {}, !.into = {}]
  <2>6. done \in Call /\ done.name = call[c].name
    BY <2>1 DEF Call
  <2>7. PICK step \in {"next", "list"}, why \in {"first", "again"} :
          Become(c, [done EXCEPT !.step = step, !.why = why])
    BY <1>write DEF Write
  <2>8. [done EXCEPT !.step = step, !.why = why] \in Call
    BY <2>6 DEF Call
  <2>9. [done EXCEPT !.step = step, !.why = why].name \in Name
    BY <2>1, <2>6 DEF Call
  <2>. HIDE DEF done
  <2>10. call' \in [Caller -> Call] /\ Named'
    BY <2>7, <2>8, <2>9, Became
  <2>. QED  BY <1>write, <2>2, <2>aside, <2>4, <2>5, <2>10 DEF Write, TypeInv, TypeOK, latches
<1>decide. ASSUME NEW c \in Caller, Decide(c) PROVE TypeInv'
  <2>1. call[c] \in Call /\ call[c].name \in Name
    BY <1>decide, <1>call, <1>named DEF Decide, At
  <2>2. CASE (Finish(c) \/ Refuse(c)) /\ UNCHANGED <<latch, unsigned>>
    <3>1. call' \in [Caller -> Call] /\ Named' /\ refused' \subseteq Caller
      BY <2>2, NoCallTyped, Became DEF Finish, Refuse, TypeInv, TypeOK
    <3>2. skip' \subseteq Name
      BY <1>decide, <2>1, FetchTyped DEF Decide, GivenUp, latches, TypeInv, TypeOK
    <3>. QED  BY <1>decide, <2>2, <3>1, <3>2 DEF Decide, TypeInv, TypeOK, storeVars
  <2>3. CASE Fetch(c, call[c])
    <3>1. /\ call' \in [Caller -> Call] /\ Named'
          /\ skip' \subseteq Name /\ refused' \subseteq Caller /\ unsigned' \subseteq Name
          /\ latch' \in {"open", "needs-signature", "no-answer"}
      BY <2>1, <2>3, FetchTyped
    <3>. QED  BY <1>decide, <3>1 DEF Decide, TypeInv, TypeOK, storeVars
  <2>. QED  BY <1>decide, <2>2, <2>3 DEF Decide, latches
<1>conclude. ASSUME NEW c \in Caller, Conclude(c) PROVE TypeInv'
  <2>1. call[c].name \in Name
    BY <1>conclude, <1>named DEF Conclude, At
  <2>2. call' \in [Caller -> Call] /\ Named' /\ refused' \subseteq Caller
    BY <1>conclude, NoCallTyped, Became DEF Conclude, Finish, TypeInv, TypeOK
  <2>3. skip' \subseteq Name
    BY <1>conclude, <2>1 DEF Conclude, GivenUp, TypeInv, TypeOK
  <2>. QED  BY <1>conclude, <2>2, <2>3 DEF Conclude, TypeInv, TypeOK, storeVars
<1>refresh. ASSUME NEW c \in Caller, Refresh(c) PROVE TypeInv'
  <2>1. PICK ds \in SUBSET dirs :
          Become(c, [NoCall EXCEPT !.op = "refresh", !.step = "next", !.left = ds])
    BY <1>refresh DEF Refresh
  <2>2. [NoCall EXCEPT !.op = "refresh", !.step = "next", !.left = ds] \in Call
    BY NoCallTyped DEF Call, TypeInv, TypeOK
  <2>3. [NoCall EXCEPT !.op = "refresh", !.step = "next", !.left = ds].step = "next"
    BY NoCallTyped DEF Call
  <2>4. call' \in [Caller -> Call] /\ Named' /\ refused' \subseteq Caller
    BY <1>refresh, <2>1, <2>2, <2>3, Became DEF Refresh, TypeInv, TypeOK
  <2>. QED  BY <1>refresh, <2>4 DEF Refresh, TypeInv, TypeOK, storeVars, latches, ghosts
<1>next. ASSUME NEW c \in Caller, RefreshNext(c) PROVE TypeInv'
  <2>1. CASE Finish(c) /\ UNCHANGED <<latches, unsigned>>
    <3>1. call' \in [Caller -> Call] /\ Named' /\ refused' \subseteq Caller
      BY <2>1, NoCallTyped, Became DEF Finish, TypeInv, TypeOK
    <3>. QED  BY <1>next, <2>1, <3>1 DEF RefreshNext, TypeInv, TypeOK, storeVars, latches
  <2>2. ASSUME NEW d \in call[c].left,
               \/ /\ Goto(c, [call[c] EXCEPT !.left = @ \ {d}, !.name = Listed[d]])
                  /\ UNCHANGED <<latches, unsigned>>
               \/ Fetch(c, [call[c] EXCEPT !.left = @ \ {d}, !.name = Listed[d]])
        PROVE  TypeInv'
    <3> DEFINE g == [call[c] EXCEPT !.left = @ \ {d}, !.name = Listed[d]]
    <3>1. Listed[d] \in Name /\ call[c].left \ {d} \in SUBSET Dir
      BY <1>call DEF Call
    <3>2. g \in Call /\ g.name = Listed[d]
      <4> DEFINE ds == call[c].left \ {d}
      <4> DEFINE n == Listed[d]
      <4>1. ds \in SUBSET Dir /\ n \in Name  BY <3>1
      <4>. HIDE DEF ds, n
      <4>2. [call[c] EXCEPT !.left = ds, !.name = n] \in Call
        BY <1>call, <4>1, RefreshingTyped
      <4>3. [call[c] EXCEPT !.left = ds, !.name = n].name = n
        BY <1>call DEF Call
      <4>. QED  BY <4>2, <4>3 DEF ds, n
    <3>. HIDE DEF g
    <3>3. CASE Goto(c, g) /\ UNCHANGED <<latches, unsigned>>
      <4>1. call' \in [Caller -> Call] /\ Named' /\ refused' \subseteq Caller
        BY <3>1, <3>2, <3>3, Became DEF Goto, TypeInv, TypeOK
      <4>. QED  BY <1>next, <3>3, <4>1 DEF RefreshNext, TypeInv, TypeOK, storeVars, latches
    <3>4. CASE Fetch(c, g)
      <4>1. /\ call' \in [Caller -> Call] /\ Named'
            /\ skip' \subseteq Name /\ refused' \subseteq Caller /\ unsigned' \subseteq Name
            /\ latch' \in {"open", "needs-signature", "no-answer"}
        BY <3>1, <3>2, <3>4, FetchTyped
      <4>. QED  BY <1>next, <4>1 DEF RefreshNext, TypeInv, TypeOK, storeVars
    <3>. QED  BY <2>2, <3>3, <3>4 DEF g
  <2>. QED  BY <1>next, <2>1, <2>2 DEF RefreshNext
<1>session. CASE SignIn \/ Lapse \/ ResetPriceService \/ SyncClears
  BY <1>session DEF SignIn, Lapse, ResetPriceService, SyncClears, NothingCached, TypeInv,
     TypeOK, Named, storeVars, latches, ghosts
<1>sync. ASSUME NEW d \in Dir, SyncLands(d) \/ SyncBypasses(d) PROVE TypeInv'
  <2>1. PICK days \in Offers : file' = [file EXCEPT ![d] = @ \cup days]
    BY <1>sync DEF SyncLands, SyncBypasses, Arrive
  <2>2. file' \in [Dir -> SUBSET Day]
    BY <2>1 DEF TypeInv, TypeOK
  <2>3. arrivals' \in 0 .. MaxArrivals
    BY <1>sync DEF SyncLands, SyncBypasses, Arrive, TypeInv, TypeOK
  <2>4. dirs' \subseteq Dir /\ late' \subseteq Caller
    BY <1>sync DEF SyncLands, SyncBypasses, Arrive, Merging, TypeInv, TypeOK
  <2>5. behind' \subseteq Token
    BY <1>sync DEF SyncLands, SyncBypasses, TypeInv, TypeOK
  <2>6. syncing' \in BOOLEAN
    BY <1>sync, Zenon DEF SyncLands, SyncBypasses, TypeInv, TypeOK
  <2>. QED  BY <1>sync, <2>2, <2>3, <2>4, <2>5, <2>6
            DEF SyncLands, SyncBypasses, TypeInv, TypeOK, Named, latches
<1>stutter. CASE UNCHANGED vars
  BY <1>stutter DEF vars, storeVars, latches, ghosts, TypeInv, TypeOK, Named
<1>. QED
  BY <1>price, <1>pricemap, <1>list, <1>readdir, <1>answer, <1>place, <1>write, <1>decide,
     <1>conclude, <1>refresh, <1>next, <1>session, <1>sync, <1>stutter DEF Next

\* TypeOK of every behaviour: no caller ends up with a token, a day or a directory that
\* there is not, and no name is given up under a key that is not the name's
\* (pricedata.js 7-35, 436-463).
THEOREM PricesTyped == Spec => []TypeOK
<1>. QED  BY TypeInit, TypeStep, PTL DEF Spec, TypeInv

---------------------------------------------------------------------------
(* What a caller that reads or merges a history has seen of it. *)

TokenAt(c) == TokenFor(call[c].name)

\* Nothing is read yet, or some of the directories are; more than one are there if not
\* all were read at once.
ReadingOK(c) ==
  LET f == call[c] IN
  /\ f.step \in {"fetch", "list"} => f.got = {}
  /\ f.step = "read" => /\ f.todo \subseteq DirsOf(TokenAt(c))
                        /\ f.todo # {}
                        /\ f.got # {} => TwoSpellings(TokenAt(c))

\* Who merges a history is between the answer of the gateway and the write, and has read
\* every day of it unless somebody has changed it since.
MergingOK(c) ==
  LET f == call[c] IN
  /\ f.why = "existing" => f.step \in {"list", "read", "place", "write"}
  /\ f.step \in {"place", "write"} => f.why = "existing"
  /\ f.step = "write" => \A d \in f.into : TokenOf[d] = TokenAt(c)
  /\ f.why = "existing" /\ c \notin late =>
       /\ f.step = "read" => \A d \in DirsOf(TokenAt(c)) \ f.todo : file[d] \subseteq f.got
       /\ f.step \in {"place", "write"} => Stored(TokenAt(c)) \subseteq f.got

CallsOK == \A c \in Caller : ReadingOK(c) /\ MergingOK(c)

\* The inductive invariant.
PriceInv == TypeInv /\ CallsOK

\* Nobody else is touched by a step that leaves the store alone.
LEMMA StoreKept ==
  ASSUME NEW x \in Caller, ReadingOK(x), MergingOK(x), call'[x] = call[x],
         UNCHANGED <<dirs, file>>, x \notin late' => x \notin late
  PROVE  ReadingOK(x)' /\ MergingOK(x)'
BY DEF ReadingOK, MergingOK, TokenAt, DirsOf, Stored, TwoSpellings

\* A history changes: who was merging it is late, and the others merge other histories.
LEMMA StoreChanges ==
  ASSUME TypeInv, NEW x \in Caller, ReadingOK(x), MergingOK(x), call'[x] = call[x],
         NEW d \in Dir, dirs' = dirs \cup {d},
         \A e \in Dir \ {d} : file'[e] = file[e],
         x \notin late' => x \notin late /\ x \notin Merging(TokenOf[d])
  PROVE  ReadingOK(x)' /\ MergingOK(x)'
<1>1. ReadingOK(x)'
  BY DEF ReadingOK, TokenAt, DirsOf, TwoSpellings
<1>2. ASSUME call[x].why = "existing", x \notin late'
      PROVE  TokenAt(x) # TokenOf[d] /\ x \notin late
  BY <1>2 DEF Merging, TokenAt
<1>3. ASSUME TokenAt(x) # TokenOf[d]
      PROVE  /\ DirsOf(TokenAt(x))' = DirsOf(TokenAt(x))
             /\ \A e \in DirsOf(TokenAt(x)) : file'[e] = file[e]
             /\ Stored(TokenAt(x))' = Stored(TokenAt(x))
  <2>1. DirsOf(TokenAt(x))' = DirsOf(TokenAt(x))
    BY <1>3 DEF DirsOf, TokenAt
  <2>2. \A e \in DirsOf(TokenAt(x)) : file'[e] = file[e]
    BY <1>3 DEF DirsOf, TypeInv, TypeOK
  <2>3. Stored(TokenAt(x))' = Stored(TokenAt(x))
    BY <2>1, <2>2 DEF Stored
  <2>. QED  BY <2>1, <2>2, <2>3
<1>4. TokenAt(x)' = TokenAt(x)
  BY DEF TokenAt
<1>5. MergingOK(x)'
  BY <1>2, <1>3, <1>4 DEF MergingOK
<1>. QED  BY <1>1, <1>5

\* Between two questions, and between two histories of a refresh, nothing is read.
LEMMA AtRest ==
  ASSUME NEW c \in Caller, call'[c].step \in {"idle", "next"}, call'[c].why # "existing"
  PROVE  ReadingOK(c)' /\ MergingOK(c)'
BY DEF ReadingOK, MergingOK

\* A request begins, or throws.
LEMMA Throwing ==
  ASSUME TypeInv, NEW c \in Caller, NEW f \in Call, f.why # "existing", NEW error,
         Throw(c, f, error)
  PROVE  ReadingOK(c)' /\ MergingOK(c)'
<1>1. call \in [Caller -> Call]  BY DEF TypeInv, TypeOK
<1>2. call'[c] = NoCall \/ call'[c] = [f EXCEPT !.step = "next"]
  BY <1>1 DEF Throw, Finish, Refuse, Goto, Become
<1>3. call'[c].step \in {"idle", "next"} /\ call'[c].why # "existing"
  BY <1>2 DEF NoCall, Call
<1>. QED  BY <1>3, AtRest

\* fetchHistoricalPricesFromArizGateway() begins.
LEMMA Fetching ==
  ASSUME TypeInv, NEW c \in Caller, NEW f \in Call, f.why # "existing", Fetch(c, f)
  PROVE  ReadingOK(c)' /\ MergingOK(c)'
<1>1. CASE \E error \in {"unsigned", "unanswered"} : Throw(c, f, error)
  BY <1>1, Throwing
<1>2. CASE Goto(c, [f EXCEPT !.step = "fetch", !.got = {}])
  <2>1. call'[c] = [f EXCEPT !.step = "fetch", !.got = {}]
    BY <1>2 DEF Goto, Become, TypeInv, TypeOK
  <2>2. call'[c].step = "fetch" /\ call'[c].got = {} /\ call'[c].why # "existing"
    BY <2>1 DEF Call
  <2>. QED  BY <2>2 DEF ReadingOK, MergingOK
<1>. QED  BY <1>1, <1>2 DEF Fetch

\* Nobody is asking when a page is opened.
LEMMA CallsInit == Init => CallsOK
<1>. SUFFICES ASSUME Init, NEW c \in Caller PROVE ReadingOK(c) /\ MergingOK(c)
  BY DEF CallsOK
<1>1. call[c] = NoCall  BY DEF Init
<1>. QED  BY <1>1 DEF NoCall, ReadingOK, MergingOK

\* Every step keeps what the callers know of the store.
LEMMA CallsStep == PriceInv /\ [Next]_vars => CallsOK'
<1>. SUFFICES ASSUME PriceInv, [Next]_vars PROVE CallsOK'
  OBVIOUS
<1>. USE PriceAssumption
<1>inv. TypeInv /\ CallsOK  BY DEF PriceInv
<1>call. ASSUME NEW c \in Caller PROVE call[c] \in Call
  BY <1>inv DEF TypeInv, TypeOK
<1>ok. ASSUME NEW c \in Caller PROVE ReadingOK(c) /\ MergingOK(c)
  BY <1>inv DEF CallsOK
<1>become. ASSUME NEW c \in Caller, NEW g, Become(c, g)
           PROVE  call'[c] = g /\ \A x \in Caller \ {c} : call'[x] = call[x]
  BY <1>become, <1>inv DEF Become, TypeInv, TypeOK
\* A step of c that leaves the store alone: only c matters.
<1>one. ASSUME NEW c \in Caller, \A x \in Caller \ {c} : call'[x] = call[x],
               UNCHANGED <<dirs, file>>, \A x \in Caller \ {c} : x \notin late' => x \notin late,
               ReadingOK(c)' /\ MergingOK(c)'
        PROVE  CallsOK'
  <2>. SUFFICES ASSUME NEW x \in Caller PROVE ReadingOK(x)' /\ MergingOK(x)'
    BY DEF CallsOK
  <2>1. CASE x = c  BY <1>one, <2>1
  <2>2. CASE x # c  BY <1>one, <1>ok, <2>2, StoreKept
  <2>. QED  BY <2>1, <2>2
<1>throw. ASSUME NEW c \in Caller, NEW f, NEW error, Throw(c, f, error)
          PROVE  \A x \in Caller \ {c} : call'[x] = call[x]
  BY <1>throw, <1>become DEF Throw, Finish, Refuse, Goto
<1>fetch. ASSUME NEW c \in Caller, NEW f, Fetch(c, f)
          PROVE  \A x \in Caller \ {c} : call'[x] = call[x]
  BY <1>fetch, <1>throw, <1>become DEF Fetch, Goto
<1>rest. ASSUME NEW c \in Caller, Finish(c) \/ Refuse(c)
         PROVE  /\ \A x \in Caller \ {c} : call'[x] = call[x]
                /\ ReadingOK(c)' /\ MergingOK(c)'
  <2>1. call'[c] = NoCall /\ \A x \in Caller \ {c} : call'[x] = call[x]
    BY <1>rest, <1>become DEF Finish, Refuse
  <2>. QED  BY <2>1, AtRest DEF NoCall
<1>ask. ASSUME NEW c \in Caller, NEW op \in {"lookup", "map"}, NEW n \in Name,
               NEW day \in {0} \cup Day, Ask(c, op, n, day)
        PROVE  CallsOK'
  <2> DEFINE f == [NoCall EXCEPT !.op = op, !.name = n, !.day = day]
  <2>1. UNCHANGED <<dirs, file, late>>
    BY <1>ask DEF Ask, storeVars, ghosts
  <2>2. CASE Become(c, [f EXCEPT !.step = "decide", !.got = cache[KeyOf[n]]])
    <3>1. /\ call'[c] = [f EXCEPT !.step = "decide", !.got = cache[KeyOf[n]]]
          /\ \A x \in Caller \ {c} : call'[x] = call[x]
      BY <2>2, <1>become
    <3>2. call'[c].step = "decide" /\ call'[c].why = "first"
      BY <3>1 DEF NoCall
    <3>3. ReadingOK(c)' /\ MergingOK(c)'
      BY <3>2 DEF ReadingOK, MergingOK
    <3>. QED  BY <3>1, <3>3, <2>1, <1>one
  <2>3. CASE Become(c, [f EXCEPT !.step = "list"])
    <3>1. /\ call'[c] = [f EXCEPT !.step = "list"]
          /\ \A x \in Caller \ {c} : call'[x] = call[x]
      BY <2>3, <1>become
    <3>2. call'[c].step = "list" /\ call'[c].why = "first" /\ call'[c].got = {}
      BY <3>1 DEF NoCall
    <3>3. ReadingOK(c)' /\ MergingOK(c)'
      BY <3>2 DEF ReadingOK, MergingOK
    <3>. QED  BY <3>1, <3>3, <2>1, <1>one
  <2>. QED  BY <1>ask, <2>2, <2>3 DEF Ask
<1>price. ASSUME NEW c \in Caller, NEW n \in Name, NEW day \in Day, AskPrice(c, n, day)
          PROVE  CallsOK'
  BY <1>ask, <1>price DEF AskPrice
<1>pricemap. ASSUME NEW c \in Caller, NEW n \in Name, AskPriceMap(c, n) PROVE CallsOK'
  BY <1>ask, <1>pricemap DEF AskPriceMap
<1>list. ASSUME NEW c \in Caller, List(c) PROVE CallsOK'
  <2> DEFINE f == call[c]
  <2> DEFINE t == TokenAt(c)
  <2>1. f.step = "list" /\ f.got = {} /\ f \in Call
    BY <1>list, <1>ok, <1>call DEF List, At, ReadingOK
  <2>2. UNCHANGED <<dirs, file, late>>
    BY <1>list DEF List, storeVars, ghosts
  <2>3. CASE DirsOf(t) = {} /\ Loaded(c, {})
    <3>1. PICK step \in {"decide", "place"} :
            /\ Become(c, [[f EXCEPT !.got = {}, !.todo = {}] EXCEPT !.step = step])
            /\ step = "place" <=> f.why = "existing"
      BY <2>3, <2>1 DEF Loaded, Call
    <3>2. /\ call'[c] = [[f EXCEPT !.got = {}, !.todo = {}] EXCEPT !.step = step]
          /\ \A x \in Caller \ {c} : call'[x] = call[x]
      BY <3>1, <1>become
    <3>3. /\ call'[c].step = step /\ call'[c].got = {} /\ call'[c].why = f.why
          /\ call'[c].name = f.name
      BY <3>2, <2>1 DEF Call
    <3>4. Stored(TokenAt(c))' = {}
      BY <3>3, <2>2, <2>3 DEF Stored, DirsOf, TokenAt
    <3>5. ReadingOK(c)' /\ MergingOK(c)'
      BY <3>1, <3>3, <3>4 DEF ReadingOK, MergingOK
    <3>. QED  BY <3>2, <3>5, <2>2, <1>one
  <2>4. CASE DirsOf(t) # {} /\ Become(c, [f EXCEPT !.step = "read", !.todo = DirsOf(t)])
    <3>1. /\ call'[c] = [f EXCEPT !.step = "read", !.todo = DirsOf(t)]
          /\ \A x \in Caller \ {c} : call'[x] = call[x]
      BY <2>4, <1>become
    <3>2. /\ call'[c].step = "read" /\ call'[c].got = {} /\ call'[c].why = f.why
          /\ call'[c].name = f.name /\ call'[c].todo = DirsOf(t)
      BY <3>1, <2>1 DEF Call
    <3>3. DirsOf(TokenAt(c))' = DirsOf(t)
      BY <3>2, <2>2 DEF DirsOf, TokenAt
    <3>4. ReadingOK(c)' /\ MergingOK(c)'
      BY <3>2, <3>3, <2>4 DEF ReadingOK, MergingOK
    <3>. QED  BY <3>1, <3>4, <2>2, <1>one
  <2>. QED  BY <1>list, <2>3, <2>4 DEF List, TokenAt
<1>readdir. ASSUME NEW c \in Caller, NEW d \in Dir, ReadDir(c, d) PROVE CallsOK'
  <2> DEFINE f == call[c]
  <2> DEFINE t == TokenAt(c)
  <2>1. f.step = "read" /\ d \in f.todo /\ f.todo \subseteq DirsOf(t) /\ f \in Call
    BY <1>readdir, <1>ok, <1>call DEF ReadDir, At, ReadingOK
  <2>2. UNCHANGED <<dirs, file, late>>
    BY <1>readdir DEF ReadDir, storeVars, ghosts
  <2>5. f.why = "existing" /\ c \notin late =>
          \A e \in DirsOf(t) \ f.todo : file[e] \subseteq f.got
    BY <2>1, <1>ok DEF MergingOK
  <2>3. CASE f.todo = {d} /\ Loaded(c, f.got \cup file[d])
    <3> DEFINE days == f.got \cup file[d]
    <3>1. PICK step \in {"decide", "place"} :
            /\ Become(c, [[f EXCEPT !.got = days, !.todo = {}] EXCEPT !.step = step])
            /\ step = "place" <=> f.why = "existing"
      BY <2>3, <2>1 DEF Loaded, Call
    <3>2. /\ call'[c] = [[f EXCEPT !.got = days, !.todo = {}] EXCEPT !.step = step]
          /\ \A x \in Caller \ {c} : call'[x] = call[x]
      BY <3>1, <1>become
    <3>3. /\ call'[c].step = step /\ call'[c].got = days /\ call'[c].why = f.why
          /\ call'[c].name = f.name
      BY <3>2, <2>1 DEF Call
    <3>4. Stored(TokenAt(c))' = Stored(t)
      BY <3>3, <2>2 DEF Stored, DirsOf, TokenAt
    <3>5. f.why = "existing" /\ c \notin late => Stored(t) \subseteq days
      BY <2>3, <2>5 DEF Stored
    <3>6. ReadingOK(c)' /\ MergingOK(c)'
      BY <3>1, <3>3, <3>4, <3>5, <2>2 DEF ReadingOK, MergingOK
    <3>. QED  BY <3>2, <3>6, <2>2, <1>one
  <2>4. CASE f.todo # {d} /\ Become(c, [f EXCEPT !.todo = @ \ {d}, !.got = @ \cup file[d]])
    <3>1. /\ call'[c] = [f EXCEPT !.todo = f.todo \ {d}, !.got = f.got \cup file[d]]
          /\ \A x \in Caller \ {c} : call'[x] = call[x]
      BY <2>4, <1>become
    <3>2. /\ call'[c].step = "read" /\ call'[c].got = f.got \cup file[d]
          /\ call'[c].why = f.why /\ call'[c].name = f.name /\ call'[c].todo = f.todo \ {d}
      BY <3>1, <2>1 DEF Call
    <3>3. DirsOf(TokenAt(c))' = DirsOf(t) /\ (TwoSpellings(TokenAt(c))' <=> TwoSpellings(t))
      BY <3>2, <2>2 DEF DirsOf, TokenAt, TwoSpellings
    <3>4. TwoSpellings(t) /\ f.todo \ {d} # {}
      BY <2>1, <2>4 DEF TwoSpellings
    <3>5. f.why = "existing" /\ c \notin late =>
            \A e \in DirsOf(t) \ (f.todo \ {d}) : file[e] \subseteq f.got \cup file[d]
      BY <2>5
    <3>6. ReadingOK(c)'
      BY <3>2, <3>3, <3>4, <2>1 DEF ReadingOK
    <3>7. MergingOK(c)'
      BY <3>2, <3>3, <3>5, <2>2 DEF MergingOK
    <3>. QED  BY <3>1, <3>6, <3>7, <2>2, <1>one
  <2>. QED  BY <1>readdir, <2>3, <2>4 DEF ReadDir
<1>answer. ASSUME NEW c \in Caller, Answer(c) PROVE CallsOK'
  <2>1. call[c].step = "fetch" /\ call[c].got = {} /\ call[c] \in Call
    BY <1>answer, <1>ok, <1>call DEF Answer, At, ReadingOK
  <2>2. UNCHANGED <<dirs, file>> /\ \A x \in Caller \ {c} : x \notin late' => x \notin late
    BY <1>answer DEF Answer, storeVars
  <2>3. CASE \E days \in Offers :
               Goto(c, [call[c] EXCEPT !.step = "list", !.why = "existing", !.brought = days])
    <3>1. PICK days \in Offers :
            Become(c, [call[c] EXCEPT !.step = "list", !.why = "existing", !.brought = days])
      BY <2>3 DEF Goto
    <3>2. /\ call'[c] = [call[c] EXCEPT !.step = "list", !.why = "existing", !.brought = days]
          /\ \A x \in Caller \ {c} : call'[x] = call[x]
      BY <3>1, <1>become
    <3>3. call'[c].step = "list" /\ call'[c].got = {}
      BY <3>2, <2>1 DEF Call
    <3>4. ReadingOK(c)' /\ MergingOK(c)'
      BY <3>3 DEF ReadingOK, MergingOK
    <3>. QED  BY <3>2, <3>4, <2>2, <1>one
  <2>4. CASE \E error \in {"unsigned", "failed", "unanswered"} : Throw(c, call[c], error)
    <3>1. PICK error \in {"unsigned", "failed", "unanswered"} : Throw(c, call[c], error)
      BY <2>4
    <3>2. call[c].why # "existing"
      BY <2>1, <1>ok DEF MergingOK
    <3>. QED  BY <3>1, <3>2, <2>1, <2>2, <1>inv, <1>throw, <1>one, Throwing
  <2>. QED  BY <1>answer, <2>3, <2>4 DEF Answer
<1>place. ASSUME NEW c \in Caller, Place(c) PROVE CallsOK'
  <2> DEFINE t == TokenAt(c)
  <2>1. call[c].step = "place" /\ call[c] \in Call /\ call[c].name \in Name
    BY <1>place, <1>inv, <1>call DEF Place, At, TypeInv, Named
  <2>2. PICK d : /\ TokenOf[d] = t
                 /\ Become(c, [call[c] EXCEPT !.step = "write", !.into = {d}])
    BY <1>place, <2>1 DEF Place, DirsOf, TokenAt, TokenFor
  <2>3. /\ call'[c] = [call[c] EXCEPT !.step = "write", !.into = {d}]
        /\ \A x \in Caller \ {c} : call'[x] = call[x]
    BY <2>2, <1>become
  <2>4. /\ call'[c].step = "write" /\ call'[c].into = {d} /\ call'[c].why = call[c].why
        /\ call'[c].name = call[c].name /\ call'[c].got = call[c].got
    BY <2>3, <2>1 DEF Call
  <2>5. UNCHANGED <<dirs, file, late>>
    BY <1>place DEF Place, storeVars, ghosts
  <2>6. TokenAt(c)' = t /\ Stored(TokenAt(c))' = Stored(t)
    BY <2>4, <2>5 DEF TokenAt, Stored, DirsOf
  <2>7. ReadingOK(c)' /\ MergingOK(c)'
    BY <2>1, <2>2, <2>4, <2>5, <2>6, <1>ok DEF ReadingOK, MergingOK
  <2>. QED  BY <2>3, <2>5, <2>7, <1>one
<1>write. ASSUME NEW c \in Caller, Write(c) PROVE CallsOK'
  <2> DEFINE done == [call[c] EXCEPT !.got = {}, !.brought = {}, !.into = {}]
  <2>1. call[c] \in Call  BY <1>call
  <2>2. PICK d \in call[c].into :
          /\ dirs' = dirs \cup {d}
          /\ file' = [file EXCEPT ![d] = MergedHistory(call[c])]
          /\ late' = (late \cup Merging(TokenOf[d])) \ {c}
    BY <1>write DEF Write
  <2>3. d \in Dir /\ \A e \in Dir \ {d} : file'[e] = file[e]
    BY <2>1, <2>2, <1>inv DEF Call, TypeInv, TypeOK
  <2>4. PICK step \in {"next", "list"}, why \in {"first", "again"} :
          Become(c, [done EXCEPT !.step = step, !.why = why])
    BY <1>write DEF Write
  <2>5. /\ call'[c] = [done EXCEPT !.step = step, !.why = why]
        /\ \A x \in Caller \ {c} : call'[x] = call[x]
    BY <2>4, <1>become
  <2>6. call'[c].step = step /\ call'[c].why = why /\ call'[c].got = {}
    BY <2>5, <2>1 DEF Call
  <2>7. ReadingOK(c)' /\ MergingOK(c)'
    BY <2>6 DEF ReadingOK, MergingOK
  <2>8. ASSUME NEW x \in Caller, x # c PROVE ReadingOK(x)' /\ MergingOK(x)'
    BY <2>2, <2>3, <2>5, <2>8, <1>inv, <1>ok, StoreChanges
  <2>. QED  BY <2>7, <2>8 DEF CallsOK
<1>decide. ASSUME NEW c \in Caller, Decide(c) PROVE CallsOK'
  <2>1. UNCHANGED <<dirs, file, late>> /\ call[c].why = "first" /\ call[c] \in Call
    BY <1>decide, <1>call DEF Decide, storeVars
  <2>2. CASE Finish(c) \/ Refuse(c)
    BY <2>1, <2>2, <1>rest, <1>one
  <2>3. CASE Fetch(c, call[c])
    BY <2>1, <2>3, <1>inv, <1>fetch, <1>one, Fetching
  <2>. QED  BY <1>decide, <2>2, <2>3 DEF Decide
<1>conclude. ASSUME NEW c \in Caller, Conclude(c) PROVE CallsOK'
  BY <1>conclude, <1>rest, <1>one DEF Conclude, storeVars
<1>refresh. ASSUME NEW c \in Caller, Refresh(c) PROVE CallsOK'
  <2>1. PICK ds : Become(c, [NoCall EXCEPT !.op = "refresh", !.step = "next", !.left = ds])
    BY <1>refresh DEF Refresh
  <2>2. /\ call'[c] = [NoCall EXCEPT !.op = "refresh", !.step = "next", !.left = ds]
        /\ \A x \in Caller \ {c} : call'[x] = call[x]
    BY <2>1, <1>become
  <2>3. call'[c].step = "next" /\ call'[c].why = "first"
    BY <2>2 DEF NoCall
  <2>4. UNCHANGED <<dirs, file, late>>
    BY <1>refresh DEF Refresh, storeVars, ghosts
  <2>. QED  BY <2>2, <2>3, <2>4, AtRest, <1>one
<1>next. ASSUME NEW c \in Caller, RefreshNext(c) PROVE CallsOK'
  <2>1. /\ UNCHANGED <<dirs, file, late>>
        /\ call[c].step = "next" /\ call[c].why # "existing" /\ call[c] \in Call
    BY <1>next, <1>ok, <1>call DEF RefreshNext, At, MergingOK, storeVars
  <2>2. CASE Finish(c)
    BY <2>1, <2>2, <1>rest, <1>one
  <2>3. ASSUME NEW d \in call[c].left,
               \/ Goto(c, [call[c] EXCEPT !.left = @ \ {d}, !.name = Listed[d]])
               \/ Fetch(c, [call[c] EXCEPT !.left = @ \ {d}, !.name = Listed[d]])
        PROVE  CallsOK'
    <3> DEFINE g == [call[c] EXCEPT !.left = @ \ {d}, !.name = Listed[d]]
    <3>1. Listed[d] \in Name /\ call[c].left \ {d} \in SUBSET Dir
      BY <2>1 DEF Call
    <3>2. g \in Call /\ g.step = "next" /\ g.why # "existing"
      <4> DEFINE ds == call[c].left \ {d}
      <4> DEFINE n == Listed[d]
      <4>1. ds \in SUBSET Dir /\ n \in Name  BY <3>1
      <4>. HIDE DEF ds, n
      <4>2. [call[c] EXCEPT !.left = ds, !.name = n] \in Call
        BY <2>1, <4>1, RefreshingTyped
      <4>3. /\ [call[c] EXCEPT !.left = ds, !.name = n].step = "next"
            /\ [call[c] EXCEPT !.left = ds, !.name = n].why # "existing"
        BY <2>1 DEF Call
      <4>. QED  BY <4>2, <4>3 DEF ds, n
    <3>. HIDE DEF g
    <3>3. CASE Goto(c, g)
      <4>1. call'[c] = g /\ \A x \in Caller \ {c} : call'[x] = call[x]
        BY <3>3, <1>become DEF Goto
      <4>. QED  BY <4>1, <3>2, <2>1, AtRest, <1>one
    <3>4. CASE Fetch(c, g)
      BY <3>4, <3>2, <2>1, <1>inv, <1>fetch, <1>one, Fetching
    <3>. QED  BY <2>3, <3>3, <3>4 DEF g
  <2>. QED  BY <1>next, <2>2, <2>3 DEF RefreshNext
<1>session. CASE SignIn \/ Lapse \/ ResetPriceService \/ SyncClears \/ UNCHANGED vars
  <2>1. UNCHANGED <<dirs, file, call, late>>
    BY <1>session DEF SignIn, Lapse, ResetPriceService, SyncClears, vars, storeVars, ghosts
  <2>. QED  BY <2>1, <1>ok, StoreKept DEF CallsOK
<1>sync. ASSUME NEW d \in Dir, SyncLands(d) \/ SyncBypasses(d) PROVE CallsOK'
  <2>1. /\ dirs' = dirs \cup {d} /\ late' = late \cup Merging(TokenOf[d])
        /\ UNCHANGED call
    BY <1>sync DEF SyncLands, SyncBypasses, Arrive
  <2>2. PICK days : file' = [file EXCEPT ![d] = @ \cup days]
    BY <1>sync DEF SyncLands, SyncBypasses, Arrive
  <2>3. \A e \in Dir \ {d} : file'[e] = file[e]
    BY <2>2, <1>inv DEF TypeInv, TypeOK
  <2>4. ASSUME NEW x \in Caller PROVE ReadingOK(x)' /\ MergingOK(x)'
    BY <2>1, <2>3, <1>inv, <1>ok, StoreChanges
  <2>. QED  BY <2>4 DEF CallsOK
<1>. QED
  BY <1>price, <1>pricemap, <1>list, <1>readdir, <1>answer, <1>place, <1>write, <1>decide,
     <1>conclude, <1>refresh, <1>next, <1>session, <1>sync DEF Next

\* The inductive invariant of every behaviour.
THEOREM PriceInvariant == Spec => []PriceInv
<1>1. Init => PriceInv  BY TypeInit, CallsInit DEF PriceInv
<1>2. PriceInv /\ [Next]_vars => PriceInv'  BY TypeStep, CallsStep DEF PriceInv
<1>. QED  BY <1>1, <1>2, PTL DEF Spec

---------------------------------------------------------------------------
(* The properties. *)

\* A step of a fetch that changes the store has read it whole, or was late.
LEMMA LossStep ==
  ASSUME PriceInv, [Next]_vars, NEW t \in Token, ~(Stored(t) \subseteq Stored(t)')
  PROVE  \E c \in late : Write(c)
<1>inv. TypeInv /\ CallsOK  BY DEF PriceInv
<1>1. ASSUME UNCHANGED <<dirs, file>> PROVE FALSE
  BY <1>1 DEF Stored, DirsOf
<1>2. ASSUME NEW c \in Caller, Write(c), c \notin late PROVE FALSE
  <2>1. call[c] \in Call /\ call[c].step = "write" /\ call[c].why = "existing"
    BY <1>2, <1>inv DEF Write, At, TypeInv, TypeOK, CallsOK, MergingOK
  <2>2. Stored(TokenAt(c)) \subseteq call[c].got
    BY <1>2, <1>inv, <2>1 DEF CallsOK, MergingOK
  <2>3. PICK d \in call[c].into :
          /\ dirs' = dirs \cup {d}
          /\ file' = [file EXCEPT ![d] = MergedHistory(call[c])]
    BY <1>2 DEF Write
  <2>4. d \in Dir /\ TokenOf[d] = TokenAt(c)
    BY <2>1, <2>3, <1>inv DEF Call, CallsOK, MergingOK
  <2>5. file'[d] = call[c].brought \cup call[c].got /\ \A e \in Dir \ {d} : file'[e] = file[e]
    BY <2>3, <2>4, <1>inv DEF MergedHistory, TypeInv, TypeOK
  <2>6. DirsOf(t) \subseteq DirsOf(t)' /\ DirsOf(t) \subseteq Dir
    BY <2>3, <1>inv DEF DirsOf, TypeInv, TypeOK
  <2>7. CASE t = TokenAt(c)
    <3>1. d \in DirsOf(t)'
      BY <2>3, <2>4, <2>7 DEF DirsOf
    <3>2. file'[d] \subseteq Stored(t)'
      BY <3>1 DEF Stored
    <3>. QED  BY <2>2, <2>5, <2>7, <3>2
  <2>8. CASE t # TokenAt(c)
    <3>1. \A e \in DirsOf(t) : e \in DirsOf(t)' /\ file'[e] = file[e]
      BY <2>4, <2>5, <2>6, <2>8 DEF DirsOf
    <3>. QED  BY <3>1 DEF Stored
  <2>. QED  BY <2>7, <2>8
<1>3. ASSUME NEW d \in Dir, Arrive(d) PROVE FALSE
  <2>1. PICK days : file' = [file EXCEPT ![d] = @ \cup days]
    BY <1>3 DEF Arrive
  <2>2. \A e \in Dir : file[e] \subseteq file'[e]
    BY <2>1, <1>inv DEF TypeInv, TypeOK
  <2>3. DirsOf(t) \subseteq DirsOf(t)' /\ DirsOf(t) \subseteq Dir
    BY <1>3, <1>inv DEF Arrive, DirsOf, TypeInv, TypeOK
  <2>. QED  BY <2>2, <2>3 DEF Stored
<1>4. ASSUME NEW c \in Caller,
             \/ List(c) \/ Answer(c) \/ Place(c) \/ Decide(c) \/ Conclude(c)
             \/ Refresh(c) \/ RefreshNext(c) \/ (\E d \in Dir : ReadDir(c, d))
             \/ (\E n \in Name, day \in Day : AskPrice(c, n, day))
             \/ (\E n \in Name : AskPriceMap(c, n))
      PROVE  FALSE
  BY <1>1, <1>4 DEF List, Answer, Place, Decide, Conclude, Refresh, RefreshNext, ReadDir,
     AskPrice, AskPriceMap, Ask, storeVars
<1>5. ASSUME SignIn \/ Lapse \/ ResetPriceService \/ SyncClears \/ UNCHANGED vars PROVE FALSE
  BY <1>1, <1>5 DEF SignIn, Lapse, ResetPriceService, SyncClears, vars, storeVars
<1>6. \E c \in Caller : Write(c)
  BY <1>3, <1>4, <1>5 DEF Next, SyncLands, SyncBypasses
<1>. QED  BY <1>2, <1>6

\* LossNeedsOverlap: whatever the gateway answers, a fetch takes no day out of a history
\* that nobody else changed while it ran (pricedata.js 268-283).
THEOREM NothingIsLostAlone == Spec => LossNeedsOverlap
<1>1. PriceInv /\ [Next]_vars =>
        [\A t \in Token : Stored(t) \subseteq Stored(t)' \/ \E c \in late : Write(c)]_vars
  BY LossStep
<1>. QED  BY <1>1, PriceInvariant, PTL DEF Spec, LossNeedsOverlap

\* A refusal for want of a signature is thrown by a call that finds none, or it is a
\* lookup of a name that such a call gave up.
LEMMA RefusalStep ==
  ASSUME PriceInv, [Next]_vars, NEW c \in Caller, c \in refused', c \notin refused
  PROVE  ~fresh' \/ GivenUpUnsigned(c)
<1>1. ASSUME NEW x \in Caller, NEW f, NEW error, Throw(x, f, error) PROVE error = "unsigned"
  BY <1>1 DEF Throw, Finish, Refuse, Goto
<1>2. ASSUME NEW x \in Caller, NEW f, Fetch(x, f), fresh' = fresh PROVE ~fresh'
  BY <1>1, <1>2 DEF Fetch, Door, Goto
<1>3. ASSUME NEW x \in Caller, Answer(x) PROVE ~fresh'
  BY <1>1, <1>3 DEF Answer, Goto
<1>4. ASSUME NEW x \in Caller, Decide(x) PROVE ~fresh' \/ GivenUpUnsigned(c)
  <2>1. CASE Fetch(x, call[x])
    BY <1>2, <1>4, <2>1 DEF Decide
  <2>2. CASE Finish(x)
    BY <2>2 DEF Finish
  <2>3. CASE Refuse(x) /\ call[x].op = "lookup" /\ call[x].name \in unsigned
    BY <2>3 DEF Refuse, GivenUpUnsigned
  <2>. QED  BY <1>4, <2>1, <2>2, <2>3 DEF Decide
<1>next. ASSUME NEW x \in Caller, RefreshNext(x) PROVE ~fresh'
  BY <1>2, <1>next DEF RefreshNext, Finish, Goto
<1>5. ASSUME NEW x \in Caller,
             \/ List(x) \/ Place(x) \/ Write(x) \/ Conclude(x)
             \/ Refresh(x) \/ (\E d \in Dir : ReadDir(x, d))
             \/ (\E n \in Name, day \in Day : AskPrice(x, n, day))
             \/ (\E n \in Name : AskPriceMap(x, n))
      PROVE  FALSE
  BY <1>5 DEF List, Place, Write, Conclude, Finish, Refresh, ReadDir, AskPrice,
     AskPriceMap, Ask, ghosts
<1>6. ASSUME \/ SignIn \/ Lapse \/ ResetPriceService \/ SyncClears \/ UNCHANGED vars
             \/ \E d \in Dir : SyncLands(d) \/ SyncBypasses(d)
      PROVE  FALSE
  BY <1>6 DEF SignIn, Lapse, ResetPriceService, SyncClears, SyncLands, SyncBypasses, vars, ghosts
<1>. QED  BY <1>3, <1>4, <1>next, <1>5, <1>6 DEF Next

\* RefusedForAReason: the latch that other requests left does not outlive its reason
\* (pricedata.js 233-245), for whoever was refused before; only a lookup of a name that an
\* unsigned lookup gave up is refused without one (pricedata.js 438, 461-463).
THEOREM RefusalsHaveAReason == Spec => RefusedForAReason
<1>1. PriceInv /\ [Next]_vars
      => [\A c \in Caller : c \in refused' \ refused => ~fresh' \/ GivenUpUnsigned(c)]_vars
  BY RefusalStep
<1>. QED  BY <1>1, PriceInvariant, PTL DEF Spec, RefusedForAReason

---------------------------------------------------------------------------
(* What is cached, under as many keys as the spellings of a currency make. *)

\* A step that leaves the store alone and caches nothing of n, or what is stored of it.
LEMMA CacheKept ==
  ASSUME NEW n \in Name, Agrees(n), UNCHANGED <<dirs, file>>,
         \/ /\ cache'[KeyOf[n]] = cache[KeyOf[n]] /\ syncing' = syncing /\ behind' = behind
            /\ KeyOf[n] \in aside => KeyOf[n] \in aside'
         \/ cache'[KeyOf[n]] = Stored(TokenFor(n))
         \/ TwoSpellings(TokenFor(n))
         \/ cache'[KeyOf[n]] = NoHistory
  PROVE  Agrees(n)'
BY DEF Agrees, TwoSpellings, DirsOf, Stored, TokenFor

\* A history that nobody changes stays as it is.
LEMMA OtherStore ==
  ASSUME TypeInv, NEW d \in Dir, NEW t, TokenOf[d] # t, dirs' = dirs \cup {d},
         \A e \in Dir \ {d} : file'[e] = file[e]
  PROVE  Stored(t)' = Stored(t) /\ (TwoSpellings(t) => TwoSpellings(t)')
<1>1. DirsOf(t)' = DirsOf(t)  BY DEF DirsOf
<1>2. \A e \in DirsOf(t) : file'[e] = file[e]  BY DEF DirsOf, TypeInv, TypeOK
<1>. QED  BY <1>1, <1>2 DEF Stored, TwoSpellings

\* What is read for the session is what is stored, unless there are two directories.
LEMMA LoadedAgrees ==
  ASSUME PriceInv, NEW c \in Caller, call[c].name \in Name, NEW days,
         Loaded(c, days), UNCHANGED <<dirs, file, syncing, behind>>,
         days = Stored(TokenAt(c)) \/ TwoSpellings(TokenAt(c)), CacheAgrees
  PROVE  CacheAgrees'
<1>. USE PriceAssumption
<1>. SUFFICES ASSUME NEW n \in Name PROVE Agrees(n)'
  BY DEF CacheAgrees
<1>1. Agrees(n)  BY DEF CacheAgrees
<1>2. CASE UNCHANGED <<cache, aside>>
  BY <1>1, <1>2, CacheKept
<1>3. CASE /\ cache' = [cache EXCEPT ![KeyOf[call[c].name]] = days]
           /\ aside' = aside \ {KeyOf[call[c].name]}
  <2>1. CASE KeyOf[n] = KeyOf[call[c].name]
    <3>1. TokenFor(n) = TokenAt(c) /\ KeyOf[n] \in Key
      BY <2>1 DEF TokenAt, TokenFor
    <3>2. cache'[KeyOf[n]] = days
      BY <1>3, <2>1, <3>1 DEF PriceInv, TypeInv, TypeOK
    <3>. QED  BY <1>1, <3>1, <3>2, CacheKept
  <2>2. CASE KeyOf[n] # KeyOf[call[c].name]
    <3>1. KeyOf[n] \in Key
      OBVIOUS
    <3>2. cache'[KeyOf[n]] = cache[KeyOf[n]]
      BY <1>3, <2>2, <3>1 DEF PriceInv, TypeInv, TypeOK
    <3>3. KeyOf[n] \in aside => KeyOf[n] \in aside'
      BY <1>3, <2>2
    <3>. QED  BY <1>1, <3>2, <3>3, CacheKept
  <2>. QED  BY <2>1, <2>2
<1>. QED  BY <1>2, <1>3 DEF Loaded

\* Every step keeps what is cached in agreement with the store.
LEMMA CacheStep ==
  ASSUME PriceInv, [Next]_vars, CacheAgrees
  PROVE  CacheAgrees'
<1>. USE PriceAssumption
<1>inv. TypeInv /\ CallsOK  BY DEF PriceInv
<1>agrees. ASSUME \A n \in Name : Agrees(n)' PROVE CacheAgrees'
  BY <1>agrees DEF CacheAgrees
<1>was. ASSUME NEW n \in Name PROVE Agrees(n)
  BY DEF CacheAgrees
<1>same. ASSUME UNCHANGED <<dirs, file, cache, syncing, aside, behind>> PROVE CacheAgrees'
  BY <1>same, <1>was, <1>agrees, CacheKept
<1>named. ASSUME NEW c \in Caller, call[c].step \in {"list", "read", "write"}
          PROVE  call[c].name \in Name
  BY <1>named, <1>inv DEF TypeInv, Named
<1>list. ASSUME NEW c \in Caller, List(c) PROVE CacheAgrees'
  <2>1. UNCHANGED <<dirs, file, syncing, behind>> /\ call[c].step = "list"
    BY <1>list DEF List, At, storeVars, ghosts
  <2>2. CASE UNCHANGED <<cache, aside>>  BY <2>1, <2>2, <1>same
  <2>3. CASE DirsOf(TokenAt(c)) = {} /\ Loaded(c, {})
    <3>1. Stored(TokenAt(c)) = {}  BY <2>3 DEF Stored
    <3>. QED  BY <2>1, <2>3, <3>1, <1>named, LoadedAgrees
  <2>. QED  BY <1>list, <2>2, <2>3 DEF List, TokenAt
<1>readdir. ASSUME NEW c \in Caller, NEW d \in Dir, ReadDir(c, d) PROVE CacheAgrees'
  <2>1. UNCHANGED <<dirs, file, syncing, behind>> /\ call[c].step = "read"
    BY <1>readdir DEF ReadDir, At, storeVars, ghosts
  <2>2. CASE UNCHANGED <<cache, aside>>  BY <2>1, <2>2, <1>same
  <2>3. CASE call[c].todo = {d} /\ Loaded(c, call[c].got \cup file[d])
    <3>1. /\ call[c].todo \subseteq DirsOf(TokenAt(c))
          /\ call[c].got # {} => TwoSpellings(TokenAt(c))
      BY <2>1, <1>inv DEF CallsOK, ReadingOK
    <3>2. CASE ~TwoSpellings(TokenAt(c))
      <4>1. DirsOf(TokenAt(c)) = {d} /\ call[c].got = {}
        BY <2>3, <3>1, <3>2 DEF TwoSpellings
      <4>2. Stored(TokenAt(c)) = call[c].got \cup file[d]
        BY <4>1 DEF Stored
      <4>. QED  BY <2>1, <2>3, <4>2, <1>named, LoadedAgrees
    <3>3. CASE TwoSpellings(TokenAt(c))
      BY <2>1, <2>3, <3>3, <1>named, LoadedAgrees
    <3>. QED  BY <3>2, <3>3
  <2>. QED  BY <1>readdir, <2>2, <2>3 DEF ReadDir
<1>write. ASSUME NEW c \in Caller, Write(c) PROVE CacheAgrees'
  <2>1. call[c].step = "write" /\ call[c] \in Call /\ call[c].name \in Name
    BY <1>write, <1>inv, <1>named DEF Write, At, TypeInv, TypeOK
  <2>2. PICK d \in call[c].into :
          /\ dirs' = dirs \cup {d}
          /\ file' = [file EXCEPT ![d] = MergedHistory(call[c])]
    BY <1>write DEF Write
  <2>3. /\ d \in Dir /\ TokenOf[d] = TokenAt(c)
        /\ \A e \in Dir \ {d} : file'[e] = file[e]
    BY <2>1, <2>2, <1>inv DEF Call, CallsOK, MergingOK, TypeInv, TypeOK
  <2>4. ASSUME NEW n \in Name PROVE Agrees(n)'
    <3>1. KeyOf[n] \in Key /\ KeyOf[call[c].name] \in Key
      BY <2>1
    <3>2. CASE KeyOf[n] = KeyOf[call[c].name]
      <4>1. cache'[KeyOf[n]] = NoHistory
        BY <1>write, <1>inv, <2>1, <3>1, <3>2
           DEF Write, OtherHistories, TypeInv, TypeOK
      <4>. QED  BY <4>1 DEF Agrees
    <3>3. ASSUME KeyOf[n] # KeyOf[call[c].name]
          PROVE  /\ cache'[KeyOf[n]] = cache[KeyOf[n]]
                 /\ KeyOf[n] \in aside => KeyOf[n] \in aside'
      BY <1>write, <1>inv, <2>1, <3>1, <3>3
         DEF Write, OtherHistories, TypeInv, TypeOK
    <3>4. CASE KeyOf[n] # KeyOf[call[c].name] /\ TokenFor(n) = TokenAt(c)
      <4>1. CASE cache[KeyOf[n]] = NoHistory
        BY <3>3, <3>4, <4>1 DEF Agrees
      <4>2. CASE cache[KeyOf[n]] # NoHistory
        <5>1. KeyOf[n] \in LeftCached(call[c])
          BY <3>4, <4>2 DEF LeftCached, TokenAt
        <5>2. KeyOf[n] \in aside'
          BY <1>write, <3>4, <5>1 DEF Write
        <5>. QED  BY <5>2 DEF Agrees
      <4>. QED  BY <4>1, <4>2
    <3>5. CASE KeyOf[n] # KeyOf[call[c].name] /\ TokenFor(n) # TokenAt(c)
      <4>2. syncing' = syncing /\ behind' = behind
        BY <1>write DEF Write
      <4>3. /\ Stored(TokenFor(n))' = Stored(TokenFor(n))
            /\ TwoSpellings(TokenFor(n)) => TwoSpellings(TokenFor(n))'
        <5> DEFINE t == TokenFor(n)
        <5>1. TokenOf[d] # t  BY <2>3, <3>5
        <5>2. t' = t  BY DEF TokenFor
        <5>. QED  BY <2>2, <2>3, <5>1, <1>inv, OtherStore DEF TokenFor
      <4>. QED  BY <1>was, <3>3, <3>5, <4>2, <4>3 DEF Agrees, TokenFor
    <3>. QED  BY <3>2, <3>4, <3>5
  <2>. QED  BY <2>4, <1>agrees
<1>lands. ASSUME NEW d \in Dir, SyncLands(d) PROVE CacheAgrees'
  BY <1>lands DEF SyncLands, CacheAgrees, Agrees
<1>bypasses. ASSUME NEW d \in Dir, SyncBypasses(d) PROVE CacheAgrees'
  <2>1. /\ dirs' = dirs \cup {d} /\ behind' = behind \cup {TokenOf[d]}
        /\ UNCHANGED <<cache, syncing, aside>>
    BY <1>bypasses DEF SyncBypasses, Arrive
  <2>2. PICK days : file' = [file EXCEPT ![d] = @ \cup days]
    BY <1>bypasses DEF SyncBypasses, Arrive
  <2>3. \A e \in Dir \ {d} : file'[e] = file[e]
    BY <2>2, <1>inv DEF TypeInv, TypeOK
  <2>4. ASSUME NEW n \in Name PROVE Agrees(n)'
    <3>1. CASE TokenFor(n) = TokenOf[d]
      BY <2>1, <3>1 DEF Agrees, TokenFor
    <3>2. CASE TokenFor(n) # TokenOf[d]
      <4>1. /\ Stored(TokenFor(n))' = Stored(TokenFor(n))
            /\ TwoSpellings(TokenFor(n)) => TwoSpellings(TokenFor(n))'
        BY <2>1, <2>3, <3>2, <1>inv, OtherStore DEF TokenFor
      <4>. QED  BY <1>was, <2>1, <4>1 DEF Agrees, TokenFor
    <3>. QED  BY <3>1, <3>2
  <2>. QED  BY <2>4, <1>agrees
<1>clears. CASE SyncClears
  BY <1>clears DEF SyncClears, NothingCached, CacheAgrees, Agrees
<1>others. ASSUME NEW c \in Caller,
                  \/ Answer(c) \/ Place(c) \/ Decide(c) \/ Conclude(c)
                  \/ Refresh(c) \/ RefreshNext(c)
                  \/ (\E n \in Name, day \in Day : AskPrice(c, n, day))
                  \/ (\E n \in Name : AskPriceMap(c, n))
           PROVE  CacheAgrees'
  BY <1>others, <1>same DEF Answer, Place, Decide, Conclude, Refresh, RefreshNext,
     AskPrice, AskPriceMap, Ask, storeVars, ghosts
<1>session. CASE SignIn \/ Lapse \/ ResetPriceService \/ UNCHANGED vars
  BY <1>session, <1>same DEF SignIn, Lapse, ResetPriceService, vars, storeVars, ghosts
<1>. QED
  BY <1>list, <1>readdir, <1>write, <1>lands, <1>bypasses, <1>clears, <1>others, <1>session
     DEF Next

\* CacheAgrees: with any number of callers, spellings of a token and of a currency, fetches
\* and synchronizations a cached history is the stored one (pricedata.js 9-35, 268-283,
\* domainobjectstore.js 398-433), unless it was written under another key since, or is one
\* of the other exceptions that Agrees names.
THEOREM CacheFollowsStore == Spec => []CacheAgrees
<1>1. Init => CacheAgrees
  BY PriceAssumption DEF Init, CacheAgrees, Agrees
<1>2. PriceInv /\ CacheAgrees /\ [Next]_vars => CacheAgrees'
  BY CacheStep
<1>. QED  BY <1>1, <1>2, PriceInvariant, PTL DEF Spec

=============================================================================
