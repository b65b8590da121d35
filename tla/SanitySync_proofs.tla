-------------------------- MODULE SanitySync_proofs --------------------------
(* Proofs about programs that share the administrator's key, for any number  *)
(* of them and any listing: what the nonces and batches promise holds for    *)
(* them too, a synchroniser that reports success left no document without a  *)
(* market, and one that works alone keeps ids and documents together.        *)
EXTENDS SanitySync, Client_proofs

\* What the theorems need of the listings.  Times do not wrap while the clock
\* runs.  And documents are told apart by their times, which is all that
\* compareMarketData looks at, whatever counter one of them was created at.
TimesFit ==
    /\ MaxCounter < U64
    /\ \A listing \in Listings : \A i \in DOMAIN listing :
            LET offer == listing[i].offer
            IN  /\ offer.start_time + MaxCounter < U64
                /\ offer.end_time + MaxCounter < U64
                /\ offer.resolution_time + MaxCounter < U64

SameTimes(offer, other, now) ==
    /\ offer.start_time = other.start_time + now
    /\ offer.end_time = other.end_time + now
    /\ offer.resolution_time = other.resolution_time + now

TimesTell ==
    \A listing \in Listings : \A i, j \in DOMAIN listing, now \in 0 .. MaxCounter :
        SameTimes(listing[i].offer, listing[j].offer, now) =>
            /\ listing[i].offer.liquidity = listing[j].offer.liquidity
            /\ listing[i].offer.b = listing[j].offer.b

-----------------------------------------------------------------------------
(* The state of a program. *)

Held(at, known, todo, call) ==
    [at |-> at, known |-> known, todo |-> todo, call |-> call]

Shaped(r) == \E at, known, todo, call : r = Held(at, known, todo, call)

\* The updates that the steps of a program make.
LEMMA Updates ==
    ASSUME NEW r, Shaped(r), NEW at, NEW known
    PROVE  /\ [r EXCEPT !.at = at] = Held(at, r.known, r.todo, r.call)
           /\ [r EXCEPT !.known = known, !.at = at] = Held(at, known, r.todo, r.call)
           /\ [r EXCEPT !.todo = @ + 1] = Held(r.at, r.known, r.todo + 1, r.call)
           /\ [r EXCEPT !.at = at, !.todo = @ + 1]
                = Held(at, r.known, r.todo + 1, r.call)
<1>1. PICK a, k, t, c : r = Held(a, k, t, c)
    BY DEF Shaped
<1>2. r = [at |-> a, known |-> k, todo |-> t, call |-> c]
    BY <1>1 DEF Held
<1>3. r.at = a /\ r.known = k /\ r.todo = t /\ r.call = c
    BY <1>2
<1>4. [r EXCEPT !.at = at] = Held(at, k, t, c)
    BY <1>2 DEF Held
<1>6. [r EXCEPT !.known = known, !.at = at] = Held(at, known, t, c)
  <2>1. PICK one : one = [r EXCEPT !.known = known]
    OBVIOUS
  <2>2. one = [at |-> a, known |-> known, todo |-> t, call |-> c]
    BY <1>2, <2>1
  <2>3. [r EXCEPT !.known = known, !.at = at] = [one EXCEPT !.at = at]
    BY <2>1
  <2>4. [one EXCEPT !.at = at] = Held(at, known, t, c)
    BY <2>2 DEF Held
  <2> QED BY <2>3, <2>4
<1>7. [r EXCEPT !.todo = r.todo + 1] = Held(a, k, r.todo + 1, c)
    BY <1>2 DEF Held
<1>8. [r EXCEPT !.at = at, !.todo = r.todo + 1] = Held(at, k, r.todo + 1, c)
  <2>1. PICK one : one = [r EXCEPT !.at = at]
    OBVIOUS
  <2>2. one = [at |-> at, known |-> k, todo |-> t, call |-> c]
    BY <1>4, <2>1 DEF Held
  <2>3. [r EXCEPT !.at = at, !.todo = r.todo + 1] = [one EXCEPT !.todo = r.todo + 1]
    BY <2>1
  <2>4. [one EXCEPT !.todo = r.todo + 1] = Held(at, k, r.todo + 1, c)
    BY <2>2 DEF Held
  <2> QED BY <2>3, <2>4
<1> QED BY <1>3, <1>4, <1>6, <1>7, <1>8

LEMMA CallUpdated ==
    ASSUME NEW r, Shaped(r), NEW place, NEW posted
    PROVE  [r EXCEPT !.at = place, !.call = posted]
                = Held(place, r.known, r.todo, posted)
<1>1. PICK a, k, t, c : r = [at |-> a, known |-> k, todo |-> t, call |-> c]
    BY DEF Shaped, Held
<1>2. PICK one : one = [r EXCEPT !.at = place]
    OBVIOUS
<1>3. one = [at |-> place, known |-> k, todo |-> t, call |-> c]
    BY <1>1, <1>2
<1>4. [one EXCEPT !.call = posted] = Held(place, k, t, posted)
    BY <1>3 DEF Held
<1>5. [r EXCEPT !.at = place, !.call = posted] = [one EXCEPT !.call = posted]
    BY <1>2
<1> QED BY <1>1, <1>4, <1>5

LEMMA Fields ==
    ASSUME NEW at, NEW known, NEW todo, NEW call
    PROVE  /\ Shaped(Held(at, known, todo, call))
           /\ Held(at, known, todo, call).at = at
           /\ Held(at, known, todo, call).known = known
           /\ Held(at, known, todo, call).todo = todo
           /\ Held(at, known, todo, call).call = call
BY DEF Shaped, Held

-----------------------------------------------------------------------------
(* The invariant. *)

\* The call is the creation of the market of a document.
Creates(call, i) ==
    /\ i \in DOMAIN cms
    /\ \E nonce \in Nat : call = AdminCall(createMarket(nonce, cms[i].offer))

Credits(call) ==
    \E nonce \in Nat : call = AdminCall(depositFunds(nonce, Amount, Target))

\* What the programs and the player they credit post.
Known(call) ==
    \/ call.words = installPlayer
    \/ Credits(call)
    \/ \E i \in DOMAIN cms : Creates(call, i)

HasMarket(i) == \E id \in DOMAIN markets : MadeFrom(markets[id], cms[i])

\* A program that goes beyond its installation is installed; one that waits
\* for an answer posted what it waits for; a synchroniser has seen to every
\* document before the one it is at, if it can tell which market is whose.
PlaceOK(p, at, known, todo, call) ==
    /\ todo \in Nat /\ todo > 0
    /\ known \subseteq DOMAIN markets
    /\ at = "installing" => call = AdminCall(installPlayer)
    /\ at \in {"fetching", "processing", "depositing"} => Admin \in DOMAIN players
    /\ p \in Deposits /\ at = "awaiting" => Credits(call)
    /\ p \in Syncs =>
         /\ at \in {"idle", "installing", "fetching"} => todo = 1
         /\ at = "awaiting" => Admin \in DOMAIN players /\ Creates(call, todo)
         /\ at = "done" => todo \notin DOMAIN cms
         /\ TimesTell => \A i \in DOMAIN cms : i < todo => HasMarket(i)
         /\ \A i \in Nat : 0 < i /\ i < todo => i \in DOMAIN markets

ProgramOK(p) ==
    /\ Shaped(program[p])
    /\ PlaceOK(p, program[p].at, program[p].known, program[p].todo, program[p].call)

SyncOK ==
    /\ cms \in Listings
    /\ counter \in 0 .. MaxCounter
    /\ shown \subseteq DOMAIN markets
    /\ \A call \in DOMAIN calls : Known(call)
    /\ \A id \in DOMAIN markets : \E i \in DOMAIN cms : MadeFrom(markets[id], cms[i])
    /\ DOMAIN program = Programs
    /\ \A p \in Programs : ProgramOK(p)

-----------------------------------------------------------------------------
(* Calls. *)

\* The offers of the listing are offers, its ids the positions.
LEMMA Listed ==
    ASSUME cms \in Listings, NEW i \in DOMAIN cms
    PROVE  /\ cms \in Seq(Documents) /\ i \in 1 .. Len(cms) /\ i \in Nat
           /\ cms[i].id = i /\ cms[i].offer \in Offers
<1>1. cms \in Seq(Documents) /\ i \in 1 .. Len(cms)
    BY SyncAssumption
<1>2. cms[i] \in Documents
    BY <1>1, ElementOfSeq
<1> QED BY <1>1, <1>2, SyncAssumption DEF Documents

\* What each call is read as.
LEMMA CreatesRead ==
    ASSUME cms \in Listings, NEW i, NEW call, Creates(call, i)
    PROVE  /\ call.pid = Admin
           /\ CommandOf(call.words) = CREATE_MARKET
           /\ OfferOf(call.words) = cms[i].offer
           /\ \E nonce \in Nat : call.words \in Requests(Admin, nonce)
<1>1. PICK nonce \in Nat : call = AdminCall(createMarket(nonce, cms[i].offer))
    BY DEF Creates
<1>2. call.words = createMarket(nonce, cms[i].offer) /\ call.pid = Admin
    BY <1>1 DEF AdminCall
<1>3. cms[i].offer \in Offers
    BY Listed DEF Creates
<1>4. CommandOf(call.words) = CREATE_MARKET /\ OfferOf(call.words) = cms[i].offer
    BY <1>2, <1>3, CreationRead
<1>5. call.words \in Requests(Admin, nonce)
    BY <1>2, <1>3 DEF Requests
<1> QED BY <1>2, <1>4, <1>5

LEMMA CreditsRead ==
    ASSUME NEW call, Credits(call)
    PROVE  /\ call.pid = Admin
           /\ CommandOf(call.words) = DEPOSIT
           /\ \E nonce \in Nat : call.words \in Requests(Admin, nonce)
<1>1. PICK nonce \in Nat : call = AdminCall(depositFunds(nonce, Amount, Target))
    BY DEF Credits
<1>2. call.words = depositFunds(nonce, Amount, Target) /\ call.pid = Admin
    BY <1>1 DEF AdminCall
<1>3. CommandOf(call.words) = DEPOSIT
    BY <1>2, SyncAssumption, DepositRead
<1>4. call.words \in Requests(Admin, nonce)
    BY <1>2, SyncAssumption DEF Requests
<1> QED BY <1>2, <1>3, <1>4

LEMMA CommandsDiffer ==
    /\ INSTALL_PLAYER # CREATE_MARKET /\ INSTALL_PLAYER # DEPOSIT
    /\ DEPOSIT # CREATE_MARKET
BY DEF INSTALL_PLAYER, DEPOSIT, CREATE_MARKET

LEMMA InstallCall ==
    /\ AdminCall(installPlayer).pid = Admin
    /\ CommandOf(AdminCall(installPlayer).words) = INSTALL_PLAYER
    /\ Callable(AdminCall(installPlayer))
BY InstallRead, PidsAssumption DEF AdminCall, Callable

\* The three kinds of calls differ.
LEMMA CallsApart ==
    ASSUME cms \in Listings, NEW call
    PROVE  /\ \A i : Creates(call, i) => ~Credits(call)
           /\ \A i : Creates(call, i) => call # AdminCall(installPlayer)
           /\ \A i : Creates(call, i) => CommandOf(call.words) = CREATE_MARKET
           /\ Credits(call) => call # AdminCall(installPlayer)
<1>1. ASSUME NEW i, Creates(call, i)
      PROVE  CommandOf(call.words) = CREATE_MARKET
    BY <1>1, CreatesRead
<1>2. Credits(call) => CommandOf(call.words) = DEPOSIT
    BY CreditsRead
<1>3. call = AdminCall(installPlayer) => CommandOf(call.words) = INSTALL_PLAYER
    BY InstallCall
<1> QED BY <1>1, <1>2, <1>3, CommandsDiffer

-----------------------------------------------------------------------------
(* What happens to the markets. *)

MadeAt(id, i) == MadeFrom(markets[id], cms[i])

\* Markets stay as they were created, and the clock goes on.
Grown ==
    /\ cms' = cms
    /\ counter' \in Int /\ counter <= counter'
    /\ \A id \in DOMAIN markets : id \in DOMAIN markets' /\ markets'[id] = markets[id]

LEMMA MadeStays ==
    ASSUME Grown, counter \in Nat, NEW id \in DOMAIN markets, NEW i, MadeAt(id, i)
    PROVE  MadeAt(id, i)'
<1>1. PICK m : m = markets[id] /\ m = markets'[id]
    BY DEF Grown
<1>2. PICK doc : doc = cms[i] /\ doc = cms'[i]
    BY DEF Grown
<1>3. PICK now \in 0 .. counter :
        /\ m.start_time = doc.offer.start_time + now
        /\ m.end_time = doc.offer.end_time + now
        /\ m.resolution_time = doc.offer.resolution_time + now
        /\ m.total = doc.offer.liquidity
        /\ m.b = doc.offer.b
    BY <1>1, <1>2 DEF MadeAt, MadeFrom
<1>4. now \in 0 .. counter'
    BY DEF Grown
<1> QED BY <1>1, <1>2, <1>3, <1>4 DEF MadeAt, MadeFrom

LEMMA HasStays ==
    ASSUME Grown, counter \in Nat, NEW i, HasMarket(i)
    PROVE  HasMarket(i)'
<1>1. PICK id \in DOMAIN markets : MadeAt(id, i)
    BY DEF HasMarket, MadeAt
<1>2. id \in DOMAIN markets' /\ MadeAt(id, i)'
    BY <1>1, MadeStays DEF Grown
<1> QED BY <1>2 DEF HasMarket, MadeAt

OpenedFrom(i) == markets' = Append(markets, new_with_liquidity(absolute(cms[i].offer)))

\* A market that is opened is the document's, and comes last.
LEMMA OpenedEffect ==
    ASSUME TimesFit, SyncOK, markets \in Seq(MarketData),
           NEW i \in DOMAIN cms, OpenedFrom(i), UNCHANGED <<counter, cms>>,
           NEW new, new = Len(markets) + 1
    PROVE  /\ Grown /\ new \in Nat
           /\ DOMAIN markets = 1 .. new - 1 /\ DOMAIN markets' = 1 .. new
           /\ Len(markets') = new
           /\ MadeAt(new, i)'
<1>1. PICK offer : offer = cms[i].offer
    OBVIOUS
<1>2. offer \in CreateArgs
    BY <1>1, Listed, InputsAssumption DEF SyncOK
<1>3. /\ offer.start_time \in Nat /\ offer.end_time \in Nat
      /\ offer.resolution_time \in Nat
    BY <1>2, LimitsAssumption DEF CreateArgs, Word
<1>4. /\ offer.start_time + MaxCounter < U64
      /\ offer.end_time + MaxCounter < U64
      /\ offer.resolution_time + MaxCounter < U64
    BY <1>1 DEF TimesFit, SyncOK
<1>5. counter \in Nat /\ counter <= MaxCounter /\ U64 \in Nat /\ MaxCounter \in Nat
    BY BoundsAssumption, LimitsAssumption DEF SyncOK
<1>6. \A t \in Nat : t + MaxCounter < U64 => (counter + t) % U64 = t + counter
    BY <1>5
<1>7. PICK args : args = absolute(offer)
    OBVIOUS
<1>8. /\ args.start_time = offer.start_time + counter
      /\ args.end_time = offer.end_time + counter
      /\ args.resolution_time = offer.resolution_time + counter
      /\ args.liquidity = offer.liquidity /\ args.b = offer.b
      /\ args \in CreateArgs
  <2>1. /\ args.start_time = (counter + offer.start_time) % U64
        /\ args.end_time = (counter + offer.end_time) % U64
        /\ args.resolution_time = (counter + offer.resolution_time) % U64
        /\ args.liquidity = offer.liquidity /\ args.b = offer.b
    BY <1>2, <1>7 DEF absolute, CreateArgs
  <2>2. \A t \in Nat : (counter + t) % U64 \in Word
    <3>1. \A t \in Nat : counter + t \in Int
      BY <1>5
    <3> QED BY <3>1, WrapType
  <2>3. args \in CreateArgs
    BY <1>2, <1>3, <1>7, <2>2 DEF absolute, CreateArgs
  <2> QED BY <1>3, <1>4, <1>6, <2>1, <2>3
<1>9. PICK m : m = new_with_liquidity(args)
    OBVIOUS
<1>10. /\ m \in MarketData
       /\ m.start_time = args.start_time /\ m.end_time = args.end_time
       /\ m.resolution_time = args.resolution_time
       /\ m.total = args.liquidity /\ m.b = args.b
    BY <1>8, <1>9, NewMarketType DEF new_with_liquidity
<1>11. markets' = Append(markets, m)
    BY <1>1, <1>7, <1>9 DEF OpenedFrom
<1>12. /\ Len(markets') = new /\ DOMAIN markets' = 1 .. new /\ markets'[new] = m
       /\ new \in Nat /\ DOMAIN markets = 1 .. new - 1
       /\ \A id \in 1 .. new - 1 : markets'[id] = markets[id]
    BY <1>10, <1>11, AppendProperties
<1>13. Grown
    BY <1>5, <1>12 DEF Grown
<1>14. MadeAt(new, i)'
  <2>1. counter \in 0 .. counter' /\ cms'[i].offer = offer
    BY <1>1, <1>5
  <2> QED BY <1>8, <1>10, <1>12, <2>1 DEF MadeAt, MadeFrom
<1> QED BY <1>12, <1>13, <1>14

\* The effect of a run on the markets.
LEMMA RunMarkets ==
    ASSUME ClientOK, SyncOK, NEW call \in DOMAIN calls, Run(call)
    PROVE  /\ counter' = counter
           /\ call.words = installPlayer => call.pid \in DOMAIN players'
           /\ IF (\E i : Creates(call, i)) /\ reply'.e = NoError
              THEN \A i : Creates(call, i) => OpenedFrom(i)
              ELSE markets' = markets
<1>1. Process(call.pid, call.words) /\ Known(call) /\ cms \in Listings
    BY DEF Run, SyncOK
<1> USE DEF INSTALL_PLAYER, WITHDRAW, DEPOSIT, BET, SELL, RESOLVE, CLAIM,
            WITHDRAW_FEES, CREATE_MARKET
<1>2. CASE call.words = installPlayer
  <2>1. CommandOf(call.words) = INSTALL_PLAYER
    BY <1>2, InstallRead
  <2>2. InstallPlayer(call.pid)
    BY <1>1, <2>1 DEF Process
  <2>3. ~ \E i : Creates(call, i)
    BY <1>1, <2>1, CallsApart
  <2>4. UNCHANGED <<markets, counter>> /\ call.pid \in DOMAIN players'
    BY <2>2 DEF InstallPlayer, Reject
  <2> QED BY <2>3, <2>4
<1>3. CASE Credits(call)
  <2>1. CommandOf(call.words) = DEPOSIT
    BY <1>3, CreditsRead
  <2>2. Deposit(NonceOf(call.words), <<call.words[2], call.words[3]>>, call.words[5])
    BY <1>1, <2>1 DEF Process
  <2>3. ~ \E i : Creates(call, i)
    BY <1>1, <2>1, CallsApart
  <2>4. UNCHANGED <<markets, counter>>
    BY <2>2 DEF Deposit, Reject
  <2>5. call.words # installPlayer
    BY <2>1, InstallRead
  <2> QED BY <2>3, <2>4, <2>5
<1>4. ASSUME NEW j, Creates(call, j)
      PROVE  /\ counter' = counter
             /\ call.words # installPlayer
             /\ IF reply'.e = NoError
                THEN \A i : Creates(call, i) => OpenedFrom(i)
                ELSE markets' = markets
  <2>1. CommandOf(call.words) = CREATE_MARKET
    BY <1>1, <1>4, CreatesRead
  <2>2. CreateMarket(NonceOf(call.words), OfferOf(call.words))
    BY <1>1, <2>1 DEF Process, OfferOf
  <2>3. call.words # installPlayer
    BY <2>1, InstallRead
  <2>4. \A i : Creates(call, i) => OfferOf(call.words) = cms[i].offer
    BY <1>1, CreatesRead
  <2>5. CASE create_error(absolute(OfferOf(call.words))) # NoError
    <3>1. PICK e : e # NoError /\ Reject(e)
      BY <2>2, <2>5 DEF CreateMarket
    <3>2. reply'.e # NoError /\ UNCHANGED <<markets, counter>>
      BY <3>1 DEF Reject, Fail
    <3> QED BY <2>3, <3>2
  <2>6. CASE create_error(absolute(OfferOf(call.words))) = NoError
    <3>1. /\ markets' = Append(markets,
                            new_with_liquidity(absolute(OfferOf(call.words))))
          /\ counter' = counter /\ \E events : Accept(events)
      BY <2>2, <2>6 DEF CreateMarket
    <3>2. reply'.e = NoError
      BY <3>1, AcceptEffect
    <3> QED BY <2>3, <2>4, <3>1, <3>2 DEF OpenedFrom
  <2> QED BY <2>5, <2>6
<1> QED BY <1>1, <1>2, <1>3, <1>4 DEF Known

-----------------------------------------------------------------------------
(* The steps of the programs are those of clients and server. *)

\* What a program does between two awaits: it may post one call.
Sends(words) ==
    Posts(words) /\ Known(AdminCall(words)) /\ Callable(AdminCall(words))

LEMMA ProgramPosts ==
    ASSUME ClientOK, SyncOK, NEW p \in Programs, Step(p)
    PROVE  /\ UNCHANGED vars
           /\ UNCHANGED clientVars \/ \E words : Sends(words)
<1>1. ProgramOK(p) /\ cms \in Listings
    BY DEF SyncOK
<1>2. CASE Start(p)
  <2>1. Posts(installPlayer) /\ UNCHANGED vars
    BY <1>2 DEF Start
  <2>2. Known(AdminCall(installPlayer))
    BY DEF Known, AdminCall
  <2> QED BY <2>1, <2>2, InstallCall DEF Sends
<1>3. CASE Fetch(p)
    BY <1>3 DEF Fetch
<1>4. CASE ProcessMarkets(p)
  <2>1. UNCHANGED vars /\ program[p].at = "processing"
    BY <1>4 DEF ProcessMarkets
  <2>2. ASSUME program[p].todo \in DOMAIN cms,
               NEW words, words = createMarket(players[Admin].nonce,
                                               cms[program[p].todo].offer),
               Posts(words)
        PROVE  Sends(words)
    <3>1. Admin \in DOMAIN players
      BY <1>1, <2>1 DEF ProgramOK, PlaceOK
    <3>2. players[Admin].nonce \in Nat
      BY <3>1, Reading DEF ClientOK
    <3>3. Creates(AdminCall(words), program[p].todo)
      BY <2>2, <3>2 DEF Creates
    <3>4. Callable(AdminCall(words))
      BY <1>1, <3>1, <3>3, CreatesRead, PidsAssumption DEF Callable
    <3>5. Known(AdminCall(words))
      BY <2>2, <3>3 DEF Known
    <3> QED BY <2>2, <3>4, <3>5 DEF Sends
  <2> QED BY <1>4, <2>1, <2>2 DEF ProcessMarkets, ProcessDocument
<1>5. CASE PostDeposit(p)
  <2>0. CASE UNCHANGED clientVars
    BY <1>5, <2>0 DEF PostDeposit
  <2> SUFFICES ASSUME ~ UNCHANGED clientVars
               PROVE  UNCHANGED vars /\ \E words : Sends(words)
    BY <2>0
  <2>1. PICK words : /\ words = depositFunds(players[Admin].nonce, Amount, Target)
                     /\ Posts(words)
    BY <1>5 DEF PostDeposit
  <2>2. Admin \in DOMAIN players /\ UNCHANGED vars
    BY <1>1, <1>5 DEF PostDeposit, ProgramOK, PlaceOK
  <2>3. players[Admin].nonce \in Nat
    BY <2>2, Reading DEF ClientOK
  <2>4. Credits(AdminCall(words))
    BY <2>1, <2>3 DEF Credits
  <2>5. Callable(AdminCall(words))
    BY <2>2, <2>4, CreditsRead, PidsAssumption DEF Callable
  <2> QED BY <2>1, <2>2, <2>4, <2>5 DEF Known, Sends
<1>6. CASE GiveUp(p)
    BY <1>6 DEF GiveUp
<1> QED BY <1>2, <1>3, <1>4, <1>5, <1>6 DEF Step

LEMMA ProgramMove ==
    ASSUME ClientOK, SyncOK, NEW p \in Programs, Step(p)
    PROVE  ClientMove
BY ProgramPosts DEF Sends, Posts, ClientMove

LEMMA SyncMove == ClientOK /\ SyncOK /\ [SyncNext]_allVars => ClientMove
<1> SUFFICES ASSUME ClientOK, SyncOK, [SyncNext]_allVars PROVE ClientMove
    OBVIOUS
<1>1. ASSUME NEW p \in Programs, Step(p) PROVE ClientMove
    BY <1>1, ProgramMove
<1>2. CASE Serve
    BY <1>2 DEF Serve, ClientMove
<1>3. CASE Show
    BY <1>3 DEF Show, ClientMove
<1>4. CASE Join
  <2>1. PICK call : call = [pid |-> Target, words |-> installPlayer]
    OBVIOUS
  <2>2. Callable(call)
    BY <2>1, SyncAssumption DEF Callable
  <2> QED BY <1>4, <2>1, <2>2 DEF Join, ClientMove
<1>5. CASE ServerTick
    BY <1>5 DEF ClientMove
<1>6. CASE UNCHANGED allVars
    BY <1>6 DEF allVars, ClientMove
<1> QED BY <1>1, <1>2, <1>3, <1>4, <1>5, <1>6 DEF SyncNext

-----------------------------------------------------------------------------
(* What every step keeps. *)

\* Markets and players only grow.
Kept ==
    /\ Grown
    /\ counter \in Nat
    /\ DOMAIN players \subseteq DOMAIN players'

LEMMA PlaceStays ==
    ASSUME Kept, NEW p, NEW at, NEW known, NEW todo, NEW call,
           PlaceOK(p, at, known, todo, call)
    PROVE  PlaceOK(p, at, known, todo, call)'
<1>1. cms' = cms /\ DOMAIN markets \subseteq DOMAIN markets'
      /\ DOMAIN players \subseteq DOMAIN players'
    BY DEF Kept, Grown
<1>2. \A i : HasMarket(i) => HasMarket(i)'
    BY HasStays DEF Kept
<1>3. \A i : Creates(call, i) => Creates(call, i)'
    BY <1>1 DEF Creates
<1>4. Credits(call) => Credits(call)'
    BY DEF Credits
<1> QED BY <1>1, <1>2, <1>3, <1>4 DEF PlaceOK

LEMMA ProgramPlaced ==
    ASSUME NEW p, NEW at, NEW known, NEW todo, NEW call,
           program'[p] = Held(at, known, todo, call),
           PlaceOK(p, at, known, todo, call)'
    PROVE  ProgramOK(p)'
<1>1. PICK r : r = Held(at, known, todo, call)
    OBVIOUS
<1>2. r.at = at /\ r.known = known /\ r.todo = todo /\ r.call = call /\ Shaped(r)
    BY <1>1, Fields
<1>3. program'[p] = r
    BY <1>1
<1> QED BY <1>2, <1>3 DEF ProgramOK

ProgramsOK == DOMAIN program = Programs /\ \A p \in Programs : ProgramOK(p)

LEMMA ProgramStays ==
    ASSUME Kept, NEW p, ProgramOK(p), program'[p] = program[p]
    PROVE  ProgramOK(p)'
<1>1. PICK r : r = program[p]
    OBVIOUS
<1>2. Shaped(r) /\ PlaceOK(p, r.at, r.known, r.todo, r.call)
    BY <1>1 DEF ProgramOK
<1>3. PlaceOK(p, r.at, r.known, r.todo, r.call)'
    BY <1>2, PlaceStays
<1>4. program'[p] = r
    BY <1>1
<1> QED BY <1>2, <1>3, <1>4 DEF ProgramOK

LEMMA NobodyMoves ==
    ASSUME Kept, ProgramsOK, UNCHANGED program
    PROVE  ProgramsOK'
BY ProgramStays DEF ProgramsOK

LEMMA OneMoves ==
    ASSUME Kept, ProgramsOK, NEW p \in Programs,
           NEW at, NEW known, NEW todo, NEW call,
           program' = [program EXCEPT ![p] = Held(at, known, todo, call)],
           PlaceOK(p, at, known, todo, call)'
    PROVE  ProgramsOK'
<1>1. PICK r : r = Held(at, known, todo, call)
    OBVIOUS
<1>2. /\ DOMAIN program' = Programs
      /\ program'[p] = r
      /\ \A q \in Programs : q # p => program'[q] = program[q]
    BY <1>1 DEF ProgramsOK
<1>3. ProgramOK(p)'
    BY <1>1, <1>2, ProgramPlaced
<1>4. \A q \in Programs : q # p => ProgramOK(q)'
    BY <1>2, ProgramStays DEF ProgramsOK
<1> QED BY <1>2, <1>3, <1>4 DEF ProgramsOK

\* Every market is some document's.
MarketsMade == \A id \in DOMAIN markets : \E i \in DOMAIN cms : MadeAt(id, i)

LEMMA MadeKept ==
    ASSUME Kept, MarketsMade, UNCHANGED markets
    PROVE  MarketsMade'
BY MadeStays DEF Kept, MarketsMade, Grown

LEMMA SyncParts ==
    SyncOK <=> /\ cms \in Listings
               /\ counter \in 0 .. MaxCounter
               /\ shown \subseteq DOMAIN markets
               /\ \A call \in DOMAIN calls : Known(call)
               /\ MarketsMade
               /\ ProgramsOK
BY DEF SyncOK, MarketsMade, ProgramsOK, MadeAt

\* The step keeps what is not about programs, calls and the index.
LEMMA StepKeeps ==
    ASSUME TimesFit, ClientOK, SyncOK, [SyncNext]_allVars
    PROVE  /\ Kept
           /\ counter' \in 0 .. MaxCounter /\ cms' \in Listings
           /\ MarketsMade'
<1>1. /\ counter \in 0 .. MaxCounter /\ counter \in Nat /\ MaxCounter \in Nat
      /\ MarketsMade /\ cms \in Listings
    BY SyncParts, BoundsAssumption
<1>2. cms' = cms
  <2>1. ASSUME NEW p \in Programs, Step(p) PROVE cms' = cms
    BY <2>1 DEF Step, Start, GiveUp, Fetch, ProcessMarkets, PostDeposit
  <2> QED BY <2>1 DEF SyncNext, Serve, Show, Join, syncVars, allVars
<1>3. ClientMove
    BY SyncMove
<1>4. DOMAIN players \subseteq DOMAIN players'
  <2>1. Quiet \/ Ended \/ \E call \in DOMAIN calls : Runs(call)
    BY <1>3, ClientEffect
  <2> QED BY <2>1 DEF Quiet, Ended, Runs, NoncesKept, NoncesGrow
<1>5. CASE UNCHANGED <<markets, counter>>
  <2>1. Kept
    BY <1>1, <1>2, <1>4, <1>5 DEF Kept, Grown
  <2> QED BY <1>1, <1>2, <1>5, <2>1, MadeKept
<1>6. CASE ServerTick
  <2>1. counter < MaxCounter /\ counter' = (counter + 1) % U64 /\ UNCHANGED markets
    BY <1>6 DEF ServerTick, Tick
  <2>2. counter' \in Int /\ counter <= counter' /\ counter' \in 0 .. MaxCounter
    <3>1. U64 \in Nat /\ MaxCounter < U64
      BY LimitsAssumption DEF TimesFit
    <3>2. (counter + 1) % U64 = counter + 1
      BY <1>1, <2>1, <3>1
    <3> QED BY <1>1, <2>1, <3>2
  <2>3. Kept
    BY <1>1, <1>2, <1>4, <2>1, <2>2 DEF Kept, Grown
  <2> QED BY <1>1, <1>2, <2>1, <2>2, <2>3, MadeKept
<1>7. ASSUME NEW call \in DOMAIN calls, Run(call), NEW i, Creates(call, i), OpenedFrom(i)
      PROVE  Kept /\ counter' \in 0 .. MaxCounter /\ MarketsMade'
  <2>1. counter' = counter
    BY <1>7, RunMarkets
  <2>2. markets \in Seq(MarketData) /\ i \in DOMAIN cms
    BY <1>7 DEF ClientOK, TypeOK, Creates
  <2>3. PICK new : new = Len(markets) + 1
    OBVIOUS
  <2>4. /\ Grown /\ new \in Nat
        /\ DOMAIN markets = 1 .. new - 1 /\ DOMAIN markets' = 1 .. new
        /\ MadeAt(new, i)'
    BY <1>2, <1>7, <2>1, <2>2, <2>3, OpenedEffect
  <2>5. Kept
    BY <1>1, <1>4, <2>4 DEF Kept
  <2>6. \A id \in DOMAIN markets : \A j : MadeAt(id, j) => MadeAt(id, j)'
    BY <1>1, <2>4, MadeStays
  <2>7. \A id \in DOMAIN markets' : id \in DOMAIN markets \/ id = new
    BY <2>4
  <2> QED BY <1>1, <1>2, <2>1, <2>2, <2>4, <2>5, <2>6, <2>7 DEF MarketsMade
<1>8. ASSUME NEW call \in DOMAIN calls, Run(call)
      PROVE  Kept /\ counter' \in 0 .. MaxCounter /\ MarketsMade'
  <2>1. counter' = counter
    BY <1>8, RunMarkets
  <2>2. CASE markets' = markets
    BY <1>5, <2>1, <2>2
  <2>3. CASE markets' # markets
    <3>1. PICK i : Creates(call, i) /\ OpenedFrom(i)
      BY <1>8, <2>3, RunMarkets
    <3> QED BY <1>7, <1>8, <3>1
  <2> QED BY <2>2, <2>3
<1>9. ASSUME NEW call, Trap(call) PROVE UNCHANGED <<markets, counter>>
    BY <1>9 DEF Trap, vars
<1>10. Preempt => UNCHANGED <<markets, counter>>
    BY DEF Preempt
<1>11. UNCHANGED vars => UNCHANGED <<markets, counter>>
    BY DEF vars
<1> QED BY <1>1, <1>2, <1>3, <1>5, <1>6, <1>8, <1>9, <1>10, <1>11 DEF ClientMove

-----------------------------------------------------------------------------
(* The calls that are in flight, and the markets the index shows. *)

LEMMA KnownPosted ==
    ASSUME UNCHANGED cms, \A c \in DOMAIN calls : Known(c),
           NEW call, Known(call), Post(call)
    PROVE  \A c \in DOMAIN calls' : Known(c)'
<1>1. \A c \in DOMAIN calls' : c \in DOMAIN calls \/ c = call
    BY DEF Post
<1>2. \A c : Known(c) => Known(c)'
    BY DEF Known, Creates, Credits
<1> QED BY <1>1, <1>2

LEMMA KnownKept ==
    ASSUME UNCHANGED cms, \A c \in DOMAIN calls : Known(c), DOMAIN calls' = DOMAIN calls
    PROVE  \A c \in DOMAIN calls' : Known(c)'
BY DEF Known, Creates, Credits

LEMMA StepCalls ==
    ASSUME ClientOK, SyncOK, [SyncNext]_allVars, Kept
    PROVE  /\ \A c \in DOMAIN calls' : Known(c)'
           /\ shown' \subseteq DOMAIN markets'
<1>1. /\ \A c \in DOMAIN calls : Known(c)
      /\ shown \subseteq DOMAIN markets /\ DOMAIN markets \subseteq DOMAIN markets'
      /\ UNCHANGED cms
    BY DEF SyncOK, Kept, Grown
<1>2. ASSUME NEW p \in Programs, Step(p)
      PROVE  (\A c \in DOMAIN calls' : Known(c)') /\ UNCHANGED shown
  <2>1. UNCHANGED shown
    BY <1>2 DEF Step, Start, GiveUp, Fetch, ProcessMarkets, PostDeposit
  <2>2. CASE UNCHANGED clientVars
    BY <1>1, <2>1, <2>2, KnownKept DEF clientVars
  <2>3. ASSUME NEW words, Sends(words) PROVE \A c \in DOMAIN calls' : Known(c)'
    BY <1>1, <2>3, KnownPosted DEF Sends, Posts
  <2> QED BY <1>2, <2>1, <2>2, <2>3, ProgramPosts
<1>3. ASSUME Serve
      PROVE  DOMAIN calls' = DOMAIN calls /\ UNCHANGED shown
    BY <1>3 DEF Serve, Run, Trap, Taken, Preempt
<1>4. ASSUME Show
      PROVE  UNCHANGED calls /\ shown' \subseteq DOMAIN markets
    BY <1>1, <1>4 DEF Show, clientVars
<1>5. ASSUME Join
      PROVE  (\A c \in DOMAIN calls' : Known(c)') /\ UNCHANGED shown
  <2>1. PICK call : call = [pid |-> Target, words |-> installPlayer] /\ Post(call)
    BY <1>5 DEF Join
  <2>2. Known(call)
    BY <2>1 DEF Known
  <2> QED BY <1>1, <1>5, <2>1, <2>2, KnownPosted DEF Join, syncVars
<1>6. ASSUME ServerTick /\ UNCHANGED syncVars
      PROVE  UNCHANGED <<calls, shown>>
    BY <1>6 DEF ServerTick, syncVars
<1>7. ASSUME UNCHANGED allVars
      PROVE  UNCHANGED <<calls, shown>>
    BY <1>7 DEF allVars, clientVars, syncVars
<1> QED BY <1>1, <1>2, <1>3, <1>4, <1>5, <1>6, <1>7, KnownKept DEF SyncNext

-----------------------------------------------------------------------------
(* The programs. *)

\* A document's market, found by its times, is the document's.
LEMMA ComparedHas ==
    ASSUME TimesTell, SyncOK, NEW i \in DOMAIN cms, i \in DOMAIN markets,
           compareMarketData(cms[i], markets[i])
    PROVE  HasMarket(i)
<1>1. PICK j \in DOMAIN cms : MadeFrom(markets[i], cms[j])
    BY DEF SyncOK
<1>2. PICK now \in 0 .. counter :
        /\ markets[i].start_time = cms[j].offer.start_time + now
        /\ markets[i].end_time = cms[j].offer.end_time + now
        /\ markets[i].resolution_time = cms[j].offer.resolution_time + now
        /\ markets[i].total = cms[j].offer.liquidity
        /\ markets[i].b = cms[j].offer.b
    BY <1>1 DEF MadeFrom
<1>3. now \in 0 .. MaxCounter /\ counter \in Nat
    BY BoundsAssumption DEF SyncOK
<1>4. SameTimes(cms[i].offer, cms[j].offer, now)
    BY <1>2 DEF compareMarketData, SameTimes
<1>5. cms[i].offer.liquidity = cms[j].offer.liquidity /\ cms[i].offer.b = cms[j].offer.b
    BY <1>3, <1>4 DEF TimesTell, SyncOK
<1>6. /\ cms[i].offer.start_time \in Nat /\ cms[i].offer.end_time \in Nat
      /\ cms[i].offer.resolution_time \in Nat
    BY Listed, InputsAssumption, LimitsAssumption DEF SyncOK, CreateArgs, Word
<1>7. MadeFrom(markets[i], cms[i])
  <2>1. 0 \in 0 .. counter
    BY <1>3
  <2>2. /\ markets[i].start_time = cms[i].offer.start_time + 0
        /\ markets[i].end_time = cms[i].offer.end_time + 0
        /\ markets[i].resolution_time = cms[i].offer.resolution_time + 0
    BY <1>6 DEF compareMarketData
  <2> QED BY <1>2, <1>5, <2>1, <2>2 DEF MadeFrom
<1> QED BY <1>7 DEF HasMarket

\* The document a synchroniser is at is dealt with.
LEMMA NextDocument ==
    ASSUME cms \in Listings, NEW p, NEW known, NEW todo, NEW call,
           PlaceOK(p, "processing", known, todo, call), TimesTell => HasMarket(todo),
           todo \in DOMAIN markets
    PROVE  PlaceOK(p, "processing", known, todo + 1, call)
<1>1. todo \in Nat /\ todo + 1 \in Nat /\ todo + 1 > 0
    BY DEF PlaceOK
<1>2. \A i \in DOMAIN cms : i \in Nat
    BY Listed
<1>3. /\ \A i \in DOMAIN cms : i < todo + 1 => i < todo \/ i = todo
      /\ \A i \in Nat : i < todo + 1 => i < todo \/ i = todo
    BY <1>1, <1>2
<1> QED BY <1>1, <1>3 DEF PlaceOK

LEMMA StartMoves ==
    ASSUME Kept, ProgramsOK, NEW p \in Programs, Start(p)
    PROVE  ProgramsOK'
<1>1. PICK r : r = program[p]
    OBVIOUS
<1>2. Shaped(r) /\ PlaceOK(p, r.at, r.known, r.todo, r.call) /\ r.at = "idle"
    BY <1>1 DEF ProgramsOK, ProgramOK, Start
<1>3. PICK call : call = AdminCall(installPlayer)
    OBVIOUS
<1>4. [r EXCEPT !.at = "installing", !.call = call]
            = Held("installing", r.known, r.todo, call)
    BY <1>2, CallUpdated
<1>5. program' = [program EXCEPT ![p] = [r EXCEPT !.at = "installing", !.call = call]]
    BY <1>1, <1>3 DEF Start
<1>6. PlaceOK(p, "installing", r.known, r.todo, call)
    BY <1>2, <1>3 DEF PlaceOK
<1>7. PlaceOK(p, "installing", r.known, r.todo, call)'
    BY <1>6, PlaceStays
<1> QED BY <1>4, <1>5, <1>7, OneMoves

\* A script that ends with an error.
LEMMA RejectedMoves ==
    ASSUME Kept, ProgramsOK, NEW p \in Programs, Rejected(p)
    PROVE  ProgramsOK'
<1>1. PICK r : r = program[p]
    OBVIOUS
<1>2. Shaped(r) /\ PlaceOK(p, r.at, r.known, r.todo, r.call)
    BY <1>1 DEF ProgramsOK, ProgramOK
<1>3. PICK place : place = IF p \in Syncs THEN "failed" ELSE "done"
    OBVIOUS
<1>4. p \in Syncs <=> p \notin Deposits
    BY SyncAssumption DEF Programs
<1>5. PlaceOK(p, place, r.known, r.todo, r.call)
    BY <1>2, <1>3, <1>4 DEF PlaceOK
<1>6. PlaceOK(p, place, r.known, r.todo, r.call)'
    BY <1>5, PlaceStays
<1>7. [r EXCEPT !.at = place] = Held(place, r.known, r.todo, r.call)
    BY <1>2, Updates
<1>8. program' = [program EXCEPT ![p] = [r EXCEPT !.at = place]]
    BY <1>1, <1>3 DEF Rejected, Goto
<1> QED BY <1>6, <1>7, <1>8, OneMoves

LEMMA FetchMoves ==
    ASSUME Kept, SyncOK, NEW p \in Syncs, Fetch(p)
    PROVE  ProgramsOK'
<1>0. CASE Rejected(p)
    BY <1>0, SyncParts, RejectedMoves DEF Programs
<1> SUFFICES ASSUME ~Rejected(p) PROVE ProgramsOK'
    BY <1>0
<1>1. PICK r : r = program[p]
    OBVIOUS
<1>2. ProgramsOK /\ p \in Programs /\ shown \subseteq DOMAIN markets
    BY SyncParts DEF Programs
<1>3. Shaped(r) /\ PlaceOK(p, r.at, r.known, r.todo, r.call) /\ r.at = "fetching"
    BY <1>1, <1>2 DEF ProgramsOK, ProgramOK, Fetch
<1>4. PICK known : known = shown
    OBVIOUS
<1>5. [r EXCEPT !.known = known, !.at = "processing"]
            = Held("processing", known, r.todo, r.call)
    BY <1>3, Updates
<1>6. program' = [program EXCEPT ![p] = [r EXCEPT !.known = known, !.at = "processing"]]
    BY <1>1, <1>4 DEF Fetch
<1>7. PlaceOK(p, "processing", known, r.todo, r.call)
    BY <1>2, <1>3, <1>4 DEF PlaceOK
<1>8. PlaceOK(p, "processing", known, r.todo, r.call)'
    BY <1>7, PlaceStays
<1> QED BY <1>2, <1>5, <1>6, <1>8, OneMoves

LEMMA PostDepositMoves ==
    ASSUME Kept, ClientOK, SyncOK, NEW p \in Deposits, PostDeposit(p)
    PROVE  ProgramsOK'
<1>0. CASE Rejected(p)
    BY <1>0, SyncParts, RejectedMoves DEF Programs
<1> SUFFICES ASSUME ~Rejected(p) PROVE ProgramsOK'
    BY <1>0
<1>1. PICK r : r = program[p]
    OBVIOUS
<1>2. ProgramsOK /\ p \in Programs /\ p \notin Syncs
    BY SyncParts, SyncAssumption DEF Programs
<1>3. Shaped(r) /\ PlaceOK(p, r.at, r.known, r.todo, r.call) /\ r.at = "depositing"
    BY <1>1, <1>2 DEF ProgramsOK, ProgramOK, PostDeposit
<1>4. PICK call : call = AdminCall(depositFunds(players[Admin].nonce, Amount, Target))
    OBVIOUS
<1>5. [r EXCEPT !.at = "awaiting", !.call = call]
            = Held("awaiting", r.known, r.todo, call)
    BY <1>3, CallUpdated
<1>6. program' = [program EXCEPT ![p] = [r EXCEPT !.at = "awaiting", !.call = call]]
    BY <1>1, <1>4 DEF PostDeposit
<1>7. players[Admin].nonce \in Nat
    BY <1>3, Reading DEF PlaceOK, ClientOK
<1>8. Credits(call)
    BY <1>4, <1>7 DEF Credits
<1>9. PlaceOK(p, "awaiting", r.known, r.todo, call)
    BY <1>2, <1>3, <1>8 DEF PlaceOK
<1>10. PlaceOK(p, "awaiting", r.known, r.todo, call)'
    BY <1>9, PlaceStays
<1> QED BY <1>2, <1>5, <1>6, <1>10, OneMoves

LEMMA ProcessMoves ==
    ASSUME Kept, ClientOK, SyncOK, NEW p \in Syncs, ProcessMarkets(p)
    PROVE  ProgramsOK'
<1>1. PICK r : r = program[p]
    OBVIOUS
<1>2. ProgramsOK /\ p \in Programs /\ p \notin Deposits /\ cms \in Listings
    BY SyncParts, SyncAssumption DEF Programs
<1>3. Shaped(r) /\ PlaceOK(p, r.at, r.known, r.todo, r.call) /\ r.at = "processing"
    BY <1>1, <1>2 DEF ProgramsOK, ProgramOK, ProcessMarkets
<1>4. PlaceOK(p, "processing", r.known, r.todo, r.call)
    BY <1>3
\* The document has a market with its times.
<1>5. CASE /\ r.todo \in DOMAIN cms
           /\ cms[r.todo].id \in r.known
           /\ compareMarketData(cms[r.todo], markets[cms[r.todo].id])
           /\ program' = [program EXCEPT ![p].todo = @ + 1]
  <2>1. cms[r.todo].id = r.todo
    BY <1>2, <1>5, Listed
  <2>2. r.todo \in DOMAIN markets
    BY <1>4, <1>5, <2>1 DEF PlaceOK
  <2>3. TimesTell => HasMarket(r.todo)
    BY <1>5, <2>1, <2>2, ComparedHas
  <2>4. PlaceOK(p, "processing", r.known, r.todo + 1, r.call)
    BY <1>2, <1>4, <2>2, <2>3, NextDocument
  <2>5. PlaceOK(p, "processing", r.known, r.todo + 1, r.call)'
    BY <2>4, PlaceStays
  <2>6. [r EXCEPT !.todo = @ + 1] = Held("processing", r.known, r.todo + 1, r.call)
    BY <1>3, Updates
  <2>7. program' = [program EXCEPT ![p] = [r EXCEPT !.todo = @ + 1]]
    BY <1>1, <1>5
  <2> QED BY <1>2, <2>5, <2>6, <2>7, OneMoves
\* The script ends, with success or not.
<1>6. ASSUME NEW place \in {"failed", "done"}, Goto(p, place),
             place = "done" => r.todo \notin DOMAIN cms
      PROVE  ProgramsOK'
  <2>1. PlaceOK(p, place, r.known, r.todo, r.call)
    BY <1>2, <1>4, <1>6 DEF PlaceOK
  <2>2. PlaceOK(p, place, r.known, r.todo, r.call)'
    BY <2>1, PlaceStays
  <2>3. [r EXCEPT !.at = place] = Held(place, r.known, r.todo, r.call)
    BY <1>3, Updates
  <2>4. program' = [program EXCEPT ![p] = [r EXCEPT !.at = place]]
    BY <1>1, <1>6 DEF Goto
  <2> QED BY <1>2, <2>2, <2>3, <2>4, OneMoves
\* The creation of its market is posted.
<1>7. ASSUME r.todo \in DOMAIN cms, NEW call,
             call = AdminCall(createMarket(players[Admin].nonce, cms[r.todo].offer)),
             program' = [program EXCEPT ![p] = Awaiting(p, call)]
      PROVE  ProgramsOK'
  <2>1. Admin \in DOMAIN players
    BY <1>4 DEF PlaceOK
  <2>2. players[Admin].nonce \in Nat
    BY <2>1, Reading DEF ClientOK
  <2>3. Creates(call, r.todo)
    BY <1>7, <2>2 DEF Creates
  <2>4. PlaceOK(p, "awaiting", r.known, r.todo, call)
    BY <1>2, <1>4, <2>1, <2>3 DEF PlaceOK
  <2>5. PlaceOK(p, "awaiting", r.known, r.todo, call)'
    BY <2>4, PlaceStays
  <2>6. [r EXCEPT !.at = "awaiting", !.call = call]
            = Held("awaiting", r.known, r.todo, call)
    BY <1>3, CallUpdated
  <2>7. program' = [program EXCEPT ![p] = [r EXCEPT !.at = "awaiting", !.call = call]]
    BY <1>1, <1>7 DEF Awaiting
  <2> QED BY <1>2, <2>5, <2>6, <2>7, OneMoves
<1>8. CASE Rejected(p)
    BY <1>2, <1>8, RejectedMoves
<1> QED BY <1>1, <1>5, <1>6, <1>7, <1>8 DEF ProcessMarkets, ProcessDocument

\* An answer moves on one of the programs that wait for it.
LEMMA Answered ==
    ASSUME Kept, ProgramsOK, NEW call, NEW e, Answer(call, e),
           cms \in Listings,
           call = AdminCall(installPlayer)
                /\ e \in {NoError, ERROR_PLAYER_ALREADY_EXISTS}
                => Admin \in DOMAIN players',
           \A i : Creates(call, i) /\ e = NoError =>
                /\ HasMarket(i)'
                /\ \E new \in Nat :
                        DOMAIN markets = 1 .. new - 1 /\ DOMAIN markets' = 1 .. new
    PROVE  ProgramsOK'
<1>1. CASE UNCHANGED program
    BY <1>1, NobodyMoves
<1>2. CASE ~ UNCHANGED program
  <2>1. PICK p \in Waiting(call) : program' = [program EXCEPT ![p] = After(p, e)]
    BY <1>2 DEF Answer
  <2>2. PICK r : r = program[p]
    OBVIOUS
  <2>3. p \in Programs /\ r.at \in {"installing", "awaiting"} /\ r.call = call
    BY <2>1, <2>2 DEF Waiting
  <2>4. Shaped(r) /\ PlaceOK(p, r.at, r.known, r.todo, call)
    BY <2>2, <2>3 DEF ProgramsOK, ProgramOK
  <2>5. PlaceOK(p, r.at, r.known, r.todo, call)'
    BY <2>4, PlaceStays
  <2>6. (p \in Syncs <=> p \notin Deposits) /\ cms' = cms
    BY <2>3, SyncAssumption DEF Programs, Kept, Grown
  <2>7. ASSUME NEW place, program' = [program EXCEPT ![p] = [r EXCEPT !.at = place]],
               PlaceOK(p, place, r.known, r.todo, call)'
        PROVE  ProgramsOK'
    <3>1. [r EXCEPT !.at = place] = Held(place, r.known, r.todo, call)
      BY <2>3, <2>4, Updates
    <3> QED BY <2>3, <2>7, <3>1, OneMoves
  <2>8. CASE program' = [program EXCEPT ![p] = [r EXCEPT !.at = "failed"]]
    <3>1. PlaceOK(p, "failed", r.known, r.todo, call)'
      BY <2>5 DEF PlaceOK
    <3> QED BY <2>7, <2>8, <3>1
  <2>9. CASE r.at = "installing" /\ e \in {NoError, ERROR_PLAYER_ALREADY_EXISTS}
    <3>1. PICK place : place = IF p \in Syncs THEN "fetching" ELSE "depositing"
      OBVIOUS
    <3>2. Admin \in DOMAIN players'
      BY <2>4, <2>9 DEF PlaceOK
    <3>3. PlaceOK(p, place, r.known, r.todo, call)'
      BY <2>5, <2>6, <2>9, <3>1, <3>2 DEF PlaceOK
    <3>4. program' = [program EXCEPT ![p] = [r EXCEPT !.at = place]]
      BY <2>1, <2>2, <2>9, <3>1 DEF After, AfterInstallation
    <3> QED BY <2>7, <3>3, <3>4
  <2>10. CASE r.at = "awaiting" /\ p \in Syncs /\ e = NoError
    <3>1. Creates(call, r.todo)
      BY <2>4, <2>10 DEF PlaceOK
    <3>2. HasMarket(r.todo)' /\ r.todo \in DOMAIN markets'
      <4>1. HasMarket(r.todo)'
        BY <2>10, <3>1
      <4>2. PICK new \in Nat : DOMAIN markets = 1 .. new - 1 /\ DOMAIN markets' = 1 .. new
        BY <2>10, <3>1
      <4>3. /\ r.todo \in Nat /\ r.todo > 0
            /\ \A i \in Nat : 0 < i /\ i < r.todo => i \in 1 .. new - 1
        BY <2>4, <2>10, <4>2 DEF PlaceOK
      <4>4. r.todo = 1 \/ r.todo - 1 \in 1 .. new - 1
        BY <4>3
      <4>5. 1 .. new - 1 \subseteq DOMAIN markets' /\ new > 0
        <5>1. new # 0
          BY <4>2, <3>1, <4>1 DEF HasMarket
        <5> QED BY <4>2, <5>1
      <4> QED BY <4>1, <4>2, <4>3, <4>4, <4>5
    <3>3. PlaceOK(p, "processing", r.known, r.todo, call)'
      BY <2>5, <2>6, <2>10 DEF PlaceOK
    <3>4. PlaceOK(p, "processing", r.known, r.todo + 1, call)'
      <4>1. r.todo \in Nat /\ r.todo + 1 \in Nat /\ r.todo + 1 > 0
        BY <2>4 DEF PlaceOK
      <4>2. \A i \in DOMAIN cms' : i \in Nat
        BY <2>6, <3>1, Listed DEF Creates
      <4>3. /\ \A i \in DOMAIN cms' : i < r.todo + 1 => i < r.todo \/ i = r.todo
            /\ \A i \in Nat : i < r.todo + 1 => i < r.todo \/ i = r.todo
        BY <4>1, <4>2
      <4> QED BY <2>6, <2>10, <3>2, <3>3, <4>1, <4>3 DEF PlaceOK
    <3>5. [r EXCEPT !.at = "processing", !.todo = @ + 1]
                = Held("processing", r.known, r.todo + 1, call)
      BY <2>3, <2>4, Updates
    <3>6. program' = [program EXCEPT ![p] =
                        [r EXCEPT !.at = "processing", !.todo = @ + 1]]
      BY <2>1, <2>2, <2>10 DEF After, AfterCreation
    <3> QED BY <2>3, <3>4, <3>5, <3>6, OneMoves
  <2>11. CASE r.at = "awaiting" /\ p \notin Syncs
    <3>1. PlaceOK(p, "done", r.known, r.todo, call)'
      BY <2>5, <2>6, <2>11 DEF PlaceOK
    <3>2. program' = [program EXCEPT ![p] = [r EXCEPT !.at = "done"]]
      BY <2>1, <2>2, <2>11 DEF After
    <3> QED BY <2>7, <3>1, <3>2
  <2>12. \/ program' = [program EXCEPT ![p] = [r EXCEPT !.at = "failed"]]
         \/ r.at = "installing" /\ e \in {NoError, ERROR_PLAYER_ALREADY_EXISTS}
         \/ r.at = "awaiting" /\ p \in Syncs /\ e = NoError
         \/ r.at = "awaiting" /\ p \notin Syncs
    BY <2>1, <2>2, <2>3 DEF After, AfterInstallation, AfterCreation
  <2> QED BY <2>8, <2>9, <2>10, <2>11, <2>12
<1> QED BY <1>1, <1>2

LEMMA ServeMoves ==
    ASSUME TimesFit, Kept, ClientOK, SyncOK, Serve
    PROVE  ProgramsOK'
<1>1. ProgramsOK /\ cms \in Listings /\ markets \in Seq(MarketData) /\ UNCHANGED cms
    BY SyncParts DEF ClientOK, TypeOK, Serve
<1>2. ASSUME NEW call \in DOMAIN calls, Run(call), Answer(call, reply'.e)
      PROVE  ProgramsOK'
  <2>1. PICK e : e = reply'.e
    OBVIOUS
  <2>2. call = AdminCall(installPlayer)
            /\ e \in {NoError, ERROR_PLAYER_ALREADY_EXISTS}
            => Admin \in DOMAIN players'
    BY <1>2, RunMarkets DEF AdminCall
  <2>3. ASSUME NEW i, Creates(call, i), e = NoError
        PROVE  /\ HasMarket(i)'
               /\ \E new \in Nat :
                        DOMAIN markets = 1 .. new - 1 /\ DOMAIN markets' = 1 .. new
    <3>1. OpenedFrom(i) /\ counter' = counter /\ i \in DOMAIN cms
      BY <1>2, <2>1, <2>3, RunMarkets DEF Creates
    <3>2. PICK new : new = Len(markets) + 1
      OBVIOUS
    <3>3. MadeAt(new, i)' /\ DOMAIN markets' = 1 .. new /\ new \in Nat
          /\ DOMAIN markets = 1 .. new - 1
      BY <1>1, <3>1, <3>2, OpenedEffect
    <3>4. new \in DOMAIN markets'
      BY <1>1, <3>2, <3>3
    <3> QED BY <3>3, <3>4 DEF HasMarket, MadeAt
  <2>4. Answer(call, e)
    BY <1>2, <2>1
  <2> QED BY <1>1, <2>2, <2>3, <2>4, Answered
<1>3. ASSUME NEW call \in DOMAIN calls, Trap(call), Answer(call, Trapped)
      PROVE  ProgramsOK'
  <2>1. PICK e : e = Trapped
    OBVIOUS
  <2>2. e # NoError /\ e # ERROR_PLAYER_ALREADY_EXISTS
    BY <2>1 DEF Trapped, NoError, ERROR_PLAYER_ALREADY_EXISTS
  <2>3. Answer(call, e)
    BY <1>3, <2>1
  <2> QED BY <1>1, <2>2, <2>3, Answered
<1>4. CASE UNCHANGED program
    BY <1>1, <1>4, NobodyMoves
<1> QED BY <1>2, <1>3, <1>4 DEF Serve

LEMMA SyncInitOK == SyncInit => SyncOK
<1> SUFFICES ASSUME SyncInit PROVE SyncOK
    OBVIOUS
<1>1. /\ cms \in Listings /\ shown = {} /\ DOMAIN calls = {} /\ DOMAIN markets = {}
      /\ counter \in 0 .. MaxCounter /\ DOMAIN program = Programs
    BY BoundsAssumption DEF SyncInit, ClientInit, Init
<1>2. ASSUME NEW p \in Programs PROVE ProgramOK(p)
  <2>1. PICK r : r = Held("idle", {}, 1, << >>)
    OBVIOUS
  <2>2. program[p] = r
    BY <2>1 DEF SyncInit, Held
  <2>3. r.at = "idle" /\ r.known = {} /\ r.todo = 1 /\ Shaped(r)
    BY <2>1, Fields
  <2>4. PlaceOK(p, r.at, r.known, r.todo, r.call)
    <3>1. \A i \in DOMAIN cms : ~(i < 1)
      BY <1>1, SyncAssumption
    <3> QED BY <2>3, <3>1 DEF PlaceOK
  <2> QED BY <2>2, <2>3, <2>4 DEF ProgramOK
<1> QED BY <1>1, <1>2 DEF SyncOK

LEMMA SyncKeeps == TimesFit /\ ClientOK /\ SyncOK /\ [SyncNext]_allVars => SyncOK'
<1> SUFFICES ASSUME TimesFit, ClientOK, SyncOK, [SyncNext]_allVars PROVE SyncOK'
    OBVIOUS
<1>1. Kept /\ counter' \in 0 .. MaxCounter /\ cms' \in Listings /\ MarketsMade'
    BY StepKeeps
<1>2. (\A c \in DOMAIN calls' : Known(c)') /\ shown' \subseteq DOMAIN markets'
    BY <1>1, StepCalls
<1>3. ProgramsOK /\ cms \in Listings
    BY SyncParts
<1>4. ProgramsOK'
  <2>1. ASSUME NEW p \in Programs, Step(p) PROVE ProgramsOK'
    <3>1. GiveUp(p) => ProgramsOK'
      BY <1>1, <1>3, RejectedMoves DEF GiveUp
    <3> QED BY <1>1, <1>3, <2>1, <3>1, StartMoves, FetchMoves, ProcessMoves,
               PostDepositMoves DEF Step
  <2>2. CASE Serve
    BY <1>1, <2>2, ServeMoves
  <2>3. CASE UNCHANGED program
    BY <1>1, <1>3, <2>3, NobodyMoves
  <2>4. Show \/ Join \/ (ServerTick /\ UNCHANGED syncVars) \/ UNCHANGED allVars
            => UNCHANGED program
    BY DEF Show, Join, syncVars, allVars
  <2> QED BY <2>1, <2>2, <2>3, <2>4 DEF SyncNext
<1>5. SyncOK' <=> /\ cms' \in Listings
                  /\ counter' \in 0 .. MaxCounter
                  /\ shown' \subseteq DOMAIN markets'
                  /\ \A call \in DOMAIN calls' : Known(call)'
                  /\ MarketsMade'
                  /\ ProgramsOK'
    BY DEF SyncOK, MarketsMade, ProgramsOK, MadeAt
<1> QED BY <1>1, <1>2, <1>4, <1>5

SyncInvariant == ClientInvariant /\ SyncOK

LEMMA SyncStep == TimesFit /\ SyncInvariant /\ [SyncNext]_allVars => SyncInvariant'
BY SyncMove, SyncKeeps, InvariantMove DEF SyncInvariant, ClientInvariant

LEMMA SyncInvariantHolds == ASSUME TimesFit PROVE SyncSpec => []SyncInvariant
<1>1. SyncInit => SyncInvariant
    BY SyncInitOK, InvariantInit DEF SyncInit, SyncInvariant
<1>2. TimesFit /\ SyncInvariant /\ [SyncNext]_allVars => SyncInvariant'
    BY SyncStep
<1> QED BY <1>1, <1>2, PTL DEF SyncSpec

-----------------------------------------------------------------------------
(* What follows. *)

\* A synchronisation that reports success leaves no document without a market,
\* whatever others with the administrator's key do meanwhile - if the documents
\* are told apart by their times, which are all it compares.
THEOREM SuccessMeansCreated ==
    ASSUME TimesFit, TimesTell
    PROVE  SyncSpec => []DoneMeansCreated
<1>1. ASSUME SyncInvariant PROVE DoneMeansCreated
  <2> SUFFICES ASSUME NEW p \in Syncs, program[p].at = "done", NEW i \in DOMAIN cms
               PROVE  HasMarket(i)
      BY DEF DoneMeansCreated, HasMarket
  <2>1. SyncOK
    BY <1>1 DEF SyncInvariant
  <2>2. PICK r : r = program[p]
    OBVIOUS
  <2>3. PlaceOK(p, r.at, r.known, r.todo, r.call) /\ r.at = "done"
    BY <2>1, <2>2 DEF SyncOK, ProgramOK, Programs
  <2>4. /\ r.todo \in Nat /\ r.todo > 0 /\ r.todo \notin DOMAIN cms
        /\ \A j \in DOMAIN cms : j < r.todo => HasMarket(j)
    BY <2>3 DEF PlaceOK
  <2>5. DOMAIN cms = 1 .. Len(cms) /\ Len(cms) \in Nat
    BY <2>1, SyncAssumption DEF SyncOK
  <2>6. i < r.todo
    BY <2>4, <2>5
  <2> QED BY <2>4, <2>6
<1>2. SyncInvariant => DoneMeansCreated
    BY <1>1
<1>3. SyncSpec => []SyncInvariant
    BY SyncInvariantHolds
<1> QED BY <1>2, <1>3, PTL

\* Programs of the administrator's that run at the same time can rely on what
\* the nonces, the batches and the pools promise to clients.
THEOREM ProgramsKeepPromises ==
    ASSUME TimesFit
    PROVE  SyncSpec => [](/\ EachNonceOnce /\ OnlyCreationRepeats
                          /\ WithdrawalsSettled /\ BatchBounded
                          /\ SharesBacked /\ WinnersCovered)
<1>1. SyncInvariant => /\ EachNonceOnce /\ OnlyCreationRepeats
                       /\ WithdrawalsSettled /\ BatchBounded
                       /\ SharesBacked /\ WinnersCovered
    BY InvariantPromises DEF SyncInvariant, ClientPromises
<1> QED BY <1>1, SyncInvariantHolds, PTL

-----------------------------------------------------------------------------
(* A synchroniser that works alone. *)

\* It has the list of markets and works through it.
Turn(p) == program[p].at \in {"processing", "awaiting"}

\* It is at the document whose market comes next, or before it and knows all.
InOrder(at, known, todo) ==
    \/ todo = Len(markets) + 1
    \/ at = "processing" /\ known = DOMAIN markets /\ todo <= Len(markets) + 1

Creation(call) == \E i : Creates(call, i)

\* The only creation that is under way, that of the market that comes next; who
\* has the list waits for it.  It may also be that nobody waits.
NextOnly(call) ==
    /\ calls[call].due = 1
    /\ Creates(call, Len(markets) + 1)
    /\ \A other \in DOMAIN calls : Creation(other) /\ calls[other].due > 0 => other = call
    /\ \A p \in Syncs : Turn(p) => program[p].at = "awaiting" /\ program[p].call = call

\* One synchroniser is at work, in order, and no creation is under way but the
\* one it waits for or, if none is at work, one that was given up.
OneTurn == \A p, q \in Syncs : Turn(p) /\ Turn(q) => p = q
TurnInOrder ==
    \A p \in Syncs : Turn(p) =>
        InOrder(program[p].at, program[p].known, program[p].todo)
NoneStray ==
    \A call \in DOMAIN calls : Creation(call) /\ calls[call].due > 0 => NextOnly(call)

AloneOK == ~mixed => MatchingIds /\ OneTurn /\ TurnInOrder /\ NoneStray

\* The marks on the calls that the steps leave.
LEMMA PostedDue ==
    ASSUME CallsOK, NEW call, Post(call)
    PROVE  /\ call \in DOMAIN calls =>
                calls[call].due \in Nat /\ calls'[call].due = calls[call].due + 1
           /\ call \notin DOMAIN calls => calls'[call].due = 1
           /\ \A c \in DOMAIN calls' : c # call =>
                c \in DOMAIN calls /\ calls'[c] = calls[c]
<1>1. \A c \in DOMAIN calls : calls[c] \in CallRecord
    BY DEF CallsOK
<1>2. CASE call \in DOMAIN calls
  <2>1. calls' = [calls EXCEPT ![call].due = @ + 1]
    BY <1>2 DEF Post
  <2>2. DOMAIN calls' = DOMAIN calls /\ \A c \in DOMAIN calls : c # call => calls'[c] = calls[c]
    BY <1>2, <2>1
  <2>3. calls'[call] = [calls[call] EXCEPT !.due = calls[call].due + 1]
    BY <1>2, <2>1
  <2>4. calls'[call].due = calls[call].due + 1 /\ calls[call].due \in Nat
    BY <1>1, <1>2, <2>3 DEF CallRecord
  <2> QED BY <1>2, <2>2, <2>4
<1>3. CASE call \notin DOMAIN calls
  <2>1. PICK new : new = [due |-> 1, ran |-> 0, succeeded |-> 0]
    OBVIOUS
  <2>2. calls' = [c \in DOMAIN calls \cup {call} |-> IF c = call THEN new ELSE calls[c]]
    BY <1>3, <2>1 DEF Post
  <2>3. calls'[call] = new /\ DOMAIN calls' = DOMAIN calls \cup {call}
        /\ \A c \in DOMAIN calls : c # call => calls'[c] = calls[c]
    BY <2>2
  <2> QED BY <1>3, <2>1, <2>3
<1> QED BY <1>2, <1>3

LEMMA TakenDue ==
    ASSUME CallsOK, NEW call \in DOMAIN calls, NEW n, Taken(call, n)
    PROVE  /\ DOMAIN calls' = DOMAIN calls
           /\ calls[call].due \in Nat /\ calls'[call].due = calls[call].due - 1
           /\ \A c \in DOMAIN calls : c # call => calls'[c] = calls[c]
<1>1. \A c \in DOMAIN calls : calls[c] \in CallRecord
    BY DEF CallsOK
<1>2. PICK first  : first  = [calls EXCEPT ![call].due = calls[call].due - 1]
    OBVIOUS
<1>3. PICK one : one = calls[call]
    OBVIOUS
<1>4. PICK due : due = one.due - 1
    OBVIOUS
<1>5. calls' = [calls EXCEPT ![call] =
                    [one EXCEPT !.due = due, !.ran = @ + 1, !.succeeded = @ + n]]
    BY <1>3, <1>4 DEF Taken
<1>6. PICK two : two = [one EXCEPT !.due = due, !.ran = @ + 1, !.succeeded = @ + n]
    OBVIOUS
<1>7. one = [due |-> one.due, ran |-> one.ran, succeeded |-> one.succeeded]
      /\ one.due \in Nat
    BY <1>1, <1>3 DEF CallRecord
<1>8. two.due = due
    BY <1>6, <1>7
<1> QED BY <1>3, <1>4, <1>5, <1>6, <1>7, <1>8

\* What opens no market, gives no synchroniser its turn, moves none that keeps
\* it and posts no creation keeps it.
LEMMA QuietAlone ==
    ASSUME SyncOK, AloneOK, ~mixed, Grown, UNCHANGED markets,
           \A p \in Syncs : Turn(p)' => program'[p] = program[p],
           \A c \in DOMAIN calls' : Creation(c)' /\ calls'[c].due > 0 =>
                c \in DOMAIN calls /\ calls'[c].due = calls[c].due
    PROVE  AloneOK'
<1>1. MatchingIds /\ OneTurn /\ TurnInOrder /\ NoneStray /\ counter \in Nat /\ cms' = cms
    BY BoundsAssumption DEF AloneOK, SyncOK, Grown
<1>2. MatchingIds'
  <2>1. \A id \in DOMAIN markets : id \in DOMAIN cms /\ MadeAt(id, id)
    BY <1>1 DEF MatchingIds, MadeAt
  <2>2. \A id \in DOMAIN markets' : id \in DOMAIN cms' /\ MadeAt(id, id)'
    BY <1>1, <2>1, MadeStays
  <2> QED BY <2>2 DEF MatchingIds, MadeAt
<1>3. \A p \in Syncs : Turn(p)' => Turn(p)
    BY DEF Turn
<1>4. OneTurn'
    BY <1>1, <1>3 DEF OneTurn
<1>5. TurnInOrder'
  <2> SUFFICES ASSUME NEW p \in Syncs, Turn(p)'
               PROVE  InOrder(program[p].at, program[p].known, program[p].todo)'
      BY DEF TurnInOrder
  <2>1. InOrder(program[p].at, program[p].known, program[p].todo)
    BY <1>1, <1>3 DEF TurnInOrder
  <2>2. program'[p] = program[p]
    OBVIOUS
  <2> QED BY <2>1, <2>2 DEF InOrder
<1>6. NoneStray'
  <2> SUFFICES ASSUME NEW c \in DOMAIN calls', Creation(c)', calls'[c].due > 0
               PROVE  NextOnly(c)'
      BY DEF NoneStray
  <2>1. \A other \in DOMAIN calls' : Creation(other)' /\ calls'[other].due > 0 =>
            other \in DOMAIN calls /\ Creation(other) /\ calls[other].due > 0
    BY <1>1 DEF Creation, Creates
  <2>2. c \in DOMAIN calls /\ calls'[c].due = calls[c].due
    OBVIOUS
  <2>3. NextOnly(c)
    BY <1>1, <2>1, <2>2 DEF NoneStray
  <2>4. calls'[c].due = 1 /\ Creates(c, Len(markets) + 1)'
    BY <1>1, <2>2, <2>3 DEF NextOnly, Creates
  <2>5. \A other \in DOMAIN calls' :
            Creation(other)' /\ calls'[other].due > 0 => other = c
    BY <2>1, <2>3 DEF NextOnly
  <2>6. \A p \in Syncs : Turn(p)' => program'[p].at = "awaiting" /\ program'[p].call = c
    BY <1>3, <2>3 DEF NextOnly
  <2> QED BY <2>4, <2>5, <2>6 DEF NextOnly
<1> QED BY <1>2, <1>4, <1>5, <1>6 DEF AloneOK

\* A script that ends, whatever it had posted.
LEMMA LeavesAlone ==
    ASSUME SyncOK, AloneOK, ~mixed, Grown, UNCHANGED <<vars, clientVars, cms>>,
           NEW p \in Programs, NEW place \in {"failed", "done"}, Goto(p, place)
    PROVE  AloneOK'
<1>1. ProgramsOK
    BY SyncParts
<1>2. PICK r : r = program[p] /\ Shaped(r)
    BY <1>1 DEF ProgramsOK, ProgramOK
<1>3. PICK s : s = [r EXCEPT !.at = place]
    OBVIOUS
<1>4. s = Held(place, r.known, r.todo, r.call)
    BY <1>2, <1>3, Updates
<1>5. s.at = place
    BY <1>4, Fields
<1>6. program'[p] = s /\ \A q \in Programs : q # p => program'[q] = program[q]
    BY <1>1, <1>2, <1>3 DEF Goto, ProgramsOK
<1>7. \A q \in Syncs : Turn(q)' => program'[q] = program[q]
    BY <1>5, <1>6 DEF Turn, Programs
<1>8. UNCHANGED <<markets, calls>>
    BY DEF vars, clientVars
<1> QED BY <1>7, <1>8, QuietAlone

LEMMA RejectedAlone ==
    ASSUME SyncOK, AloneOK, ~mixed, Grown, UNCHANGED <<vars, clientVars, cms>>,
           NEW p \in Programs, Rejected(p)
    PROVE  AloneOK'
<1>1. PICK place \in {"failed", "done"} : Goto(p, place)
    BY DEF Rejected
<1> QED BY <1>1, LeavesAlone

\* A call that creates no market, posted.
LEMMA PlainPosted ==
    ASSUME ClientOK, UNCHANGED cms, NEW call, Post(call), ~Creation(call)
    PROVE  \A c \in DOMAIN calls' : Creation(c)' /\ calls'[c].due > 0 =>
                c \in DOMAIN calls /\ calls'[c].due = calls[c].due
<1>1. \A c \in DOMAIN calls' : c # call => c \in DOMAIN calls /\ calls'[c] = calls[c]
    BY PostedDue DEF ClientOK
<1>2. ~Creation(call)'
    BY DEF Creation, Creates
<1> QED BY <1>1, <1>2

LEMMA PlainCalls ==
    ASSUME cms \in Listings
    PROVE  /\ \A call : call.words = installPlayer => ~Creation(call)
           /\ \A call : Credits(call) => ~Creation(call)
<1>1. ASSUME NEW call, call.words = installPlayer PROVE ~Creation(call)
    BY <1>1, CallsApart, InstallRead, CommandsDiffer DEF Creation
<1>2. ASSUME NEW call, Credits(call) PROVE ~Creation(call)
    BY <1>2, CallsApart DEF Creation
<1> QED BY <1>1, <1>2

\* Whom an answer moves.
LEMMA AnswerMoves ==
    ASSUME ProgramsOK, NEW call, NEW e, Answer(call, e)
    PROVE  \/ UNCHANGED program /\ calls[call].due > Cardinality(Waiting(call))
           \/ \E p \in Waiting(call) :
                /\ program'[p] = After(p, e)
                /\ \A q \in Programs : q # p => program'[q] = program[q]
<1>1. CASE UNCHANGED program /\ calls[call].due > Cardinality(Waiting(call))
    BY <1>1
<1>2. ASSUME NEW p \in Waiting(call), program' = [program EXCEPT ![p] = After(p, e)]
      PROVE  /\ program'[p] = After(p, e)
             /\ \A q \in Programs : q # p => program'[q] = program[q]
  <2>1. p \in Programs /\ DOMAIN program = Programs
    BY DEF Waiting, ProgramsOK
  <2> QED BY <1>2, <2>1
<1> QED BY <1>1, <1>2 DEF Answer

\* The places that follow an answer.
LEMMA AfterPlaces ==
    ASSUME ProgramsOK, NEW p \in Programs, NEW e
    PROVE  /\ program[p].at = "installing" =>
                After(p, e).at \in {"failed", "fetching", "depositing"}
           /\ program[p].at # "installing" /\ p \in Syncs =>
                /\ e # NoError => After(p, e).at = "failed"
                /\ e = NoError => /\ After(p, e).at = "processing"
                                  /\ After(p, e).todo = program[p].todo + 1
                                  /\ After(p, e).known = program[p].known
<1>1. PICK r : r = program[p] /\ Shaped(r)
    BY DEF ProgramsOK, ProgramOK
<1>2. ASSUME NEW place PROVE [r EXCEPT !.at = place].at = place
  <2>1. [r EXCEPT !.at = place] = Held(place, r.known, r.todo, r.call)
    BY <1>1, Updates
  <2> QED BY <2>1, Fields
<1>3. /\ [r EXCEPT !.at = "processing", !.todo = @ + 1].at = "processing"
      /\ [r EXCEPT !.at = "processing", !.todo = @ + 1].todo = r.todo + 1
      /\ [r EXCEPT !.at = "processing", !.todo = @ + 1].known = r.known
  <2>1. PICK s : s = [r EXCEPT !.at = "processing", !.todo = @ + 1]
    OBVIOUS
  <2>2. s = Held("processing", r.known, r.todo + 1, r.call)
    BY <1>1, <2>1, Updates
  <2> QED BY <2>1, <2>2, Fields
<1>4. CASE r.at = "installing"
  <2>1. \E place \in {"failed", "fetching", "depositing"} :
            After(p, e) = [r EXCEPT !.at = place]
    BY <1>1, <1>4 DEF After, AfterInstallation
  <2> QED BY <1>1, <1>2, <1>4, <2>1
<1>5. CASE r.at # "installing"
  <2>1. p \in Syncs /\ e # NoError => After(p, e) = [r EXCEPT !.at = "failed"]
    BY <1>1, <1>5 DEF After, AfterCreation
  <2>2. p \in Syncs /\ e = NoError =>
            After(p, e) = [r EXCEPT !.at = "processing", !.todo = @ + 1]
    BY <1>1, <1>5 DEF After, AfterCreation
  <2> QED BY <1>1, <1>2, <1>3, <1>5, <2>1, <2>2
<1> QED BY <1>4, <1>5

\* The answer to a call that creates no market.
LEMMA PlainAnswered ==
    ASSUME ClientOK, SyncOK, AloneOK, ~mixed, Grown, UNCHANGED markets,
           NEW call \in DOMAIN calls, ~Creation(call), NEW n, Taken(call, n),
           NEW e, Answer(call, e)
    PROVE  AloneOK'
<1>1. ProgramsOK /\ cms' = cms /\ cms \in Listings
    BY SyncParts DEF Grown
<1>2. ASSUME NEW c \in DOMAIN calls', Creation(c)', calls'[c].due > 0
      PROVE  c \in DOMAIN calls /\ calls'[c].due = calls[c].due
  <2>1. Creation(c)
    BY <1>1, <1>2 DEF Creation, Creates
  <2>2. c # call
    BY <2>1
  <2> QED BY <1>2, <2>2, TakenDue DEF ClientOK
<1>3. ASSUME NEW p \in Syncs, Turn(p)'
      PROVE  program'[p] = program[p]
  <2>1. p \in Programs
    BY DEF Programs
  <2>2. p \in Waiting(call) => program[p].at = "installing"
    <3>1. SUFFICES ASSUME p \in Waiting(call), program[p].at = "awaiting" PROVE FALSE
      BY DEF Waiting
    <3>2. Creates(program[p].call, program[p].todo)
      BY <1>1, <2>1, <3>1 DEF ProgramsOK, ProgramOK, PlaceOK
    <3> QED BY <3>1, <3>2 DEF Waiting, Creation
  <2>3. SUFFICES ASSUME program'[p] # program[p] PROVE FALSE
    OBVIOUS
  <2>4. p \in Waiting(call) /\ program'[p] = After(p, e)
    BY <1>1, <2>1, <2>3, AnswerMoves
  <2>5. program'[p].at \in {"failed", "fetching", "depositing"}
    BY <1>1, <2>1, <2>2, <2>4, AfterPlaces
  <2> QED BY <1>3, <2>5 DEF Turn
<1> QED BY <1>2, <1>3, QuietAlone

\* Who waits for a creation that is due has the list.
LEMMA DueCreation ==
    ASSUME SyncOK, AloneOK, ~mixed, NEW call \in DOMAIN calls, Creation(call),
           calls[call].due > 0
    PROVE  /\ NextOnly(call)
           /\ \A q \in Waiting(call) : q \in Syncs /\ program[q].at = "awaiting"
           /\ \A q \in Waiting(call), p \in Syncs : Turn(p) => p = q
           /\ Waiting(call) = {} => \A p \in Syncs : ~Turn(p)
<1>1. ProgramsOK /\ cms \in Listings /\ OneTurn /\ NoneStray
    BY SyncParts DEF AloneOK
<1>2. NextOnly(call)
    BY <1>1 DEF NoneStray
<1>3. PICK i : Creates(call, i)
    BY DEF Creation
<1>4. ASSUME NEW q \in Waiting(call) PROVE q \in Syncs /\ program[q].at = "awaiting"
  <2>1. /\ q \in Programs /\ program[q].at \in {"installing", "awaiting"}
        /\ program[q].call = call
    BY DEF Waiting
  <2>2. PlaceOK(q, program[q].at, program[q].known, program[q].todo, call)
    BY <1>1, <2>1 DEF ProgramsOK, ProgramOK
  <2>3. program[q].at # "installing" /\ ~Credits(call)
    BY <1>1, <1>3, <2>2, CallsApart DEF PlaceOK
  <2> QED BY <2>1, <2>2, <2>3 DEF PlaceOK, Programs
<1>5. \A q \in Waiting(call), p \in Syncs : Turn(p) => p = q
    BY <1>1, <1>4 DEF OneTurn, Turn
<1>6. \A p \in Syncs : Turn(p) => p \in Waiting(call)
    BY <1>2 DEF NextOnly, Waiting, Programs
<1> QED BY <1>2, <1>4, <1>5, <1>6

\* Who waits for a creation gets its answer: after an error none has its turn,
\* after a success at most the one that waited, at the next document.
LEMMA CreationMoves ==
    ASSUME ClientOK, SyncOK, AloneOK, ~mixed, NEW call \in DOMAIN calls, Creation(call),
           calls[call].due > 0, NEW e, Answer(call, e)
    PROVE  \/ \A q \in Syncs : ~Turn(q)'
           \/ \E p \in Syncs :
                /\ e = NoError
                /\ program'[p].at = "processing"
                /\ program'[p].todo = Len(markets) + 2
                /\ \A q \in Syncs : Turn(q)' => q = p
<1>1. ProgramsOK /\ TurnInOrder
    BY SyncParts DEF AloneOK
<1>2. /\ \A q \in Waiting(call) : q \in Syncs /\ program[q].at = "awaiting"
      /\ \A q \in Waiting(call), p \in Syncs : Turn(p) => p = q
      /\ Waiting(call) = {} => \A p \in Syncs : ~Turn(p)
      /\ calls[call].due = 1
    BY DueCreation DEF NextOnly
<1>3. CASE Waiting(call) = {}
  <2>1. UNCHANGED program
    BY <1>1, <1>3, AnswerMoves
  <2> QED BY <1>2, <1>3, <2>1 DEF Turn
<1>4. ASSUME NEW w \in Waiting(call) PROVE ~(calls[call].due > Cardinality(Waiting(call)))
  <2>1. \A q \in Waiting(call) : q = w
    BY <1>2 DEF Turn
  <2>2. Waiting(call) = {w}
    BY <2>1
  <2>3. Cardinality(Waiting(call)) = 1
    BY <2>2, FS_Singleton
  <2> QED BY <1>2, <2>3
<1>5. CASE Waiting(call) # {}
  <2>1. PICK p \in Waiting(call) :
            /\ program'[p] = After(p, e)
            /\ \A q \in Programs : q # p => program'[q] = program[q]
    BY <1>1, <1>4, <1>5, AnswerMoves
  <2>2. p \in Syncs /\ p \in Programs /\ program[p].at = "awaiting"
    BY <1>2, <2>1 DEF Programs
  <2>3. \A q \in Syncs : Turn(q)' => q = p
    BY <1>2, <2>1 DEF Turn, Programs
  <2>4. program[p].todo = Len(markets) + 1
    BY <1>1, <2>2 DEF TurnInOrder, Turn, InOrder
  <2>5. /\ e # NoError => program'[p].at = "failed"
        /\ e = NoError => /\ program'[p].at = "processing"
                          /\ program'[p].todo = program[p].todo + 1
    BY <1>1, <2>1, <2>2, AfterPlaces
  <2>6. CASE e # NoError
    BY <2>3, <2>5, <2>6 DEF Turn
  <2>7. CASE e = NoError
    <3>1. program[p].todo + 1 = Len(markets) + 2
      <4>1. PICK len : len = Len(markets)
        OBVIOUS
      <4>2. len \in Int
        BY <4>1 DEF ClientOK, TypeOK
      <4> QED BY <2>4, <4>1, <4>2
    <3> QED BY <2>2, <2>3, <2>5, <2>7, <3>1
  <2> QED BY <2>6, <2>7
<1> QED BY <1>3, <1>5

\* The answer to the creation of a market, also to one that was given up.
LEMMA CreationAnswered ==
    ASSUME TimesFit, ClientOK, SyncOK, AloneOK, ~mixed, Grown, UNCHANGED <<counter, cms>>,
           NEW call \in DOMAIN calls, Creation(call), calls[call].due > 0,
           NEW n, Taken(call, n), NEW e, Answer(call, e),
           IF e = NoError THEN \A i : Creates(call, i) => OpenedFrom(i)
                          ELSE markets' = markets
    PROVE  AloneOK'
<1>1. MatchingIds /\ counter \in Nat /\ markets \in Seq(MarketData)
    BY SyncParts, BoundsAssumption DEF AloneOK, ClientOK, TypeOK
<1>2. NextOnly(call)
    BY DueCreation
<1>3. \A c \in DOMAIN calls' : ~(Creation(c)' /\ calls'[c].due > 0)
  <2> SUFFICES ASSUME NEW c \in DOMAIN calls', Creation(c)', calls'[c].due > 0
               PROVE  FALSE
      OBVIOUS
  <2>1. Creation(c)
    BY DEF Creation, Creates
  <2>2. c # call /\ c \in DOMAIN calls /\ calls'[c] = calls[c]
    BY <1>2, TakenDue DEF NextOnly, ClientOK
  <2> QED BY <1>2, <2>1, <2>2 DEF NextOnly
<1>4. CASE e # NoError
  <2>1. \A q \in Syncs : ~Turn(q)'
    BY <1>4, CreationMoves
  <2> QED BY <1>3, <1>4, <2>1, QuietAlone
<1>5. CASE e = NoError
  <2>1. PICK new : new = Len(markets) + 1
    OBVIOUS
  <2>2. OpenedFrom(new) /\ new \in DOMAIN cms
    BY <1>2, <1>5, <2>1 DEF NextOnly, Creates
  <2>3. /\ DOMAIN markets = 1 .. new - 1 /\ DOMAIN markets' = 1 .. new
        /\ Len(markets') = new /\ new \in Nat /\ MadeAt(new, new)'
    BY <1>1, <2>1, <2>2, OpenedEffect
  <2>4. MatchingIds'
    <3>1. \A id \in DOMAIN markets : id \in DOMAIN cms /\ MadeAt(id, id)
      BY <1>1 DEF MatchingIds, MadeAt
    <3>2. \A id \in DOMAIN markets : id \in DOMAIN cms' /\ MadeAt(id, id)'
      BY <1>1, <3>1, MadeStays
    <3>3. \A id \in DOMAIN markets' : id \in DOMAIN markets \/ id = new
      BY <2>3
    <3>4. \A id \in DOMAIN markets' : id \in DOMAIN cms' /\ MadeAt(id, id)'
      BY <2>2, <2>3, <3>2, <3>3
    <3> QED BY <3>4 DEF MatchingIds, MadeAt
  <2>5. CASE \A q \in Syncs : ~Turn(q)'
    BY <1>3, <2>4, <2>5 DEF AloneOK, OneTurn, TurnInOrder, NoneStray
  <2>6. ASSUME NEW p \in Syncs, program'[p].at = "processing",
               program'[p].todo = Len(markets) + 2, \A q \in Syncs : Turn(q)' => q = p
        PROVE  AloneOK'
    <3>1. OneTurn'
      BY <2>6 DEF OneTurn
    <3>2. Len(markets) + 2 = Len(markets') + 1
      BY <1>1, <2>1, <2>3
    <3>3. TurnInOrder'
      BY <2>6, <3>2 DEF TurnInOrder, InOrder
    <3> QED BY <1>3, <2>4, <3>1, <3>3 DEF AloneOK, NoneStray
  <2> QED BY <2>5, <2>6, CreationMoves
<1> QED BY <1>4, <1>5

\* One synchroniser goes on in order while no creation is under way.
LEMMA TurnMoves ==
    ASSUME SyncOK, AloneOK, ~mixed, UNCHANGED <<vars, clientVars, cms>>,
           NEW p \in Syncs, \A q \in Syncs : q # p => ~Turn(q),
           NEW r, program' = [program EXCEPT ![p] = r],
           \A c \in DOMAIN calls : Creation(c) => ~(calls[c].due > 0),
           r.at \in {"processing", "awaiting"} => InOrder(r.at, r.known, r.todo)
    PROVE  AloneOK'
<1>1. MatchingIds /\ NoneStray /\ ProgramsOK /\ p \in Programs
    BY SyncParts DEF AloneOK, Programs
<1>2. program'[p] = r /\ \A q \in Syncs : q # p => program'[q] = program[q]
    BY <1>1 DEF ProgramsOK, Programs
<1>3. \A q \in Syncs : Turn(q)' => q = p
    BY <1>2 DEF Turn
<1>4. MatchingIds'
    BY <1>1 DEF MatchingIds, MadeFrom, vars
<1>5. OneTurn'
    BY <1>3 DEF OneTurn
<1>6. TurnInOrder'
    BY <1>2, <1>3 DEF TurnInOrder, Turn, InOrder, vars
<1>7. NoneStray'
    BY DEF NoneStray, Creation, Creates, clientVars
<1> QED BY <1>4, <1>5, <1>6, <1>7 DEF AloneOK

LEMMA FetchAlone ==
    ASSUME ClientOK, SyncOK, AloneOK, Grown, NEW p \in Syncs, Fetch(p)
    PROVE  AloneOK'
<1> SUFFICES ASSUME ~mixed' PROVE AloneOK'
    BY DEF AloneOK
<1>0. CASE Rejected(p) /\ UNCHANGED mixed
    BY <1>0, RejectedAlone DEF Fetch, Programs
<1> SUFFICES ASSUME ~(Rejected(p) /\ UNCHANGED mixed) PROVE AloneOK'
    BY <1>0
<1>1. /\ ~mixed /\ shown = DOMAIN markets
      /\ \A q \in Syncs : program[q].at \notin {"processing", "awaiting"}
      /\ \A call \in DOMAIN calls : ~UnderWay(call)
    BY DEF Fetch
<1>2. PICK r : r = program[p]
    OBVIOUS
<1>3. Shaped(r) /\ r.at = "fetching" /\ r.todo = 1
    BY <1>2 DEF SyncOK, ProgramOK, PlaceOK, Programs, Fetch
<1>4. PICK known : known = shown
    OBVIOUS
<1>5. PICK s : s = [r EXCEPT !.known = known, !.at = "processing"]
    OBVIOUS
<1>6. s = Held("processing", known, r.todo, r.call)
    BY <1>3, <1>5, Updates
<1>7. s.at = "processing" /\ s.known = known /\ s.todo = 1
    BY <1>3, <1>6, Fields
<1>8. program' = [program EXCEPT ![p] = s]
    BY <1>2, <1>4, <1>5 DEF Fetch
<1>9. Len(markets) >= 0 /\ Len(markets) \in Int
    BY DEF ClientOK, TypeOK
<1>10. InOrder(s.at, s.known, s.todo)
    BY <1>1, <1>4, <1>7, <1>9 DEF InOrder
<1>11. \A q \in Syncs : ~Turn(q)
    BY <1>1 DEF Turn
<1>12. UNCHANGED <<vars, clientVars, cms>>
    BY DEF Fetch
<1>13. \A c \in DOMAIN calls : Creation(c) => ~(calls[c].due > 0)
    BY <1>1, CallsApart DEF Creation, UnderWay, SyncOK
<1> QED BY <1>1, <1>8, <1>10, <1>11, <1>12, <1>13, TurnMoves

LEMMA ProcessAlone ==
    ASSUME ClientOK, SyncOK, AloneOK, ~mixed, Grown, NEW p \in Syncs, ProcessMarkets(p)
    PROVE  AloneOK'
<1>1. PICK r : r = program[p]
    OBVIOUS
<1>2. /\ ProgramsOK /\ p \in Programs /\ cms \in Listings
      /\ MatchingIds /\ OneTurn /\ TurnInOrder /\ NoneStray
    BY SyncParts DEF Programs, AloneOK
<1>3. /\ Shaped(r) /\ r.at = "processing" /\ r.known \subseteq DOMAIN markets
      /\ r.todo \in Nat /\ r.todo > 0
    BY <1>1, <1>2 DEF ProgramsOK, ProgramOK, PlaceOK, ProcessMarkets
<1>4. \A q \in Syncs : q # p => ~Turn(q)
    BY <1>1, <1>2, <1>3 DEF OneTurn, Turn
<1>5. InOrder("processing", r.known, r.todo)
    BY <1>1, <1>2, <1>3 DEF TurnInOrder, Turn
<1>6. DOMAIN markets = 1 .. Len(markets) /\ Len(markets) \in Nat
    BY DEF ClientOK, TypeOK
<1>7. UNCHANGED <<vars, cms, mixed>>
    BY DEF ProcessMarkets
<1>8. \A c \in DOMAIN calls : Creation(c) => ~(calls[c].due > 0)
    BY <1>1, <1>2, <1>3 DEF NoneStray, NextOnly, Turn
\* The document has a market with its times.
<1>9. CASE /\ r.todo \in DOMAIN cms
           /\ cms[r.todo].id \in r.known
           /\ program' = [program EXCEPT ![p].todo = @ + 1]
           /\ UNCHANGED clientVars
  <2>1. cms[r.todo].id = r.todo
    BY <1>2, <1>9, Listed
  <2>2. PICK s : s = [r EXCEPT !.todo = @ + 1]
    OBVIOUS
  <2>3. s = Held("processing", r.known, r.todo + 1, r.call)
    BY <1>3, <2>2, Updates
  <2>4. s.at = "processing" /\ s.known = r.known /\ s.todo = r.todo + 1
    BY <2>3, Fields
  <2>5. InOrder(s.at, s.known, s.todo)
    BY <1>3, <1>5, <1>6, <1>9, <2>1, <2>4 DEF InOrder
  <2>6. program' = [program EXCEPT ![p] = s]
    BY <1>1, <1>9, <2>2
  <2> QED BY <1>4, <1>7, <1>8, <1>9, <2>5, <2>6, TurnMoves
\* The script ends.
<1>10. ASSUME NEW place \in {"failed", "done"}, Goto(p, place), UNCHANGED clientVars
       PROVE  AloneOK'
    BY <1>2, <1>7, <1>10, LeavesAlone
\* The creation of the market that comes next is posted.
<1>11. ASSUME r.todo \in DOMAIN cms, cms[r.todo].id \notin r.known, NEW call,
              call = AdminCall(createMarket(players[Admin].nonce, cms[r.todo].offer)),
              Post(call),
              program' = [program EXCEPT ![p] = Awaiting(p, call)]
       PROVE  AloneOK'
  <2>1. cms[r.todo].id = r.todo
    BY <1>2, <1>11, Listed
  <2>2. PICK s : s = [r EXCEPT !.at = "awaiting", !.call = call]
    OBVIOUS
  <2>3. s = Held("awaiting", r.known, r.todo, call)
    BY <1>3, <2>2, CallUpdated
  <2>4. s.at = "awaiting" /\ s.todo = r.todo /\ s.known = r.known /\ s.call = call
    BY <2>3, Fields
  <2>5. /\ program'[p] = s
        /\ \A q \in Syncs : q # p => program'[q] = program[q]
    BY <1>1, <1>2, <1>11, <2>2 DEF Awaiting, ProgramsOK, Programs
  <2>6. s.todo = Len(markets) + 1
    BY <1>3, <1>5, <1>6, <1>11, <2>1, <2>4 DEF InOrder
  <2>7. \A q \in Syncs : Turn(q)' => q = p
    BY <1>4, <2>5 DEF Turn
  <2>8. OneTurn'
    BY <2>7 DEF OneTurn
  <2>9. TurnInOrder'
    BY <1>7, <2>5, <2>6, <2>7 DEF TurnInOrder, InOrder, vars
  <2>10. MatchingIds'
    BY <1>2, <1>7 DEF MatchingIds, MadeFrom, vars
  <2>11. Creates(call, Len(markets) + 1)
    <3>1. Admin \in DOMAIN players
      BY <1>1, <1>2, <1>3 DEF ProgramsOK, ProgramOK, PlaceOK
    <3>2. players[Admin].nonce \in Nat
      BY <3>1, Reading DEF ClientOK
    <3>3. Creates(call, r.todo)
      BY <1>11, <3>2 DEF Creates
    <3> QED BY <2>4, <2>6, <3>3
  <2>12. \A c \in DOMAIN calls' : Creation(c)' /\ calls'[c].due > 0 => c = call
    <3> SUFFICES ASSUME NEW c \in DOMAIN calls', Creation(c)', calls'[c].due > 0, c # call
                 PROVE  FALSE
        OBVIOUS
    <3>1. Creation(c)
      BY <1>7 DEF Creation, Creates
    <3>2. c \in DOMAIN calls /\ calls'[c] = calls[c]
      BY <1>11, PostedDue DEF ClientOK
    <3> QED BY <1>8, <3>1, <3>2
  <2>13. calls'[call].due = 1
    <3>1. CASE call \in DOMAIN calls
      <4>1. ~(calls[call].due > 0)
        BY <1>8, <2>11, <3>1 DEF Creation
      <4>2. calls[call].due \in Nat /\ calls'[call].due = calls[call].due + 1
        BY <1>11, <3>1, PostedDue DEF ClientOK
      <4> QED BY <4>1, <4>2
    <3>2. CASE call \notin DOMAIN calls
      BY <1>11, <3>2, PostedDue DEF ClientOK
    <3> QED BY <3>1, <3>2
  <2>14. Creates(call, Len(markets) + 1)'
    BY <1>7, <2>11 DEF Creates, vars
  <2>15. NextOnly(call)'
    BY <2>4, <2>5, <2>7, <2>12, <2>13, <2>14 DEF NextOnly
  <2>16. NoneStray'
    BY <2>12, <2>15 DEF NoneStray
  <2> QED BY <2>8, <2>9, <2>10, <2>16 DEF AloneOK
<1>12. CASE Rejected(p) /\ UNCHANGED clientVars
    BY <1>2, <1>7, <1>12, RejectedAlone
<1> QED BY <1>1, <1>9, <1>10, <1>11, <1>12 DEF ProcessMarkets, ProcessDocument, Posts

LEMMA AloneKeeps ==
    TimesFit /\ SyncInvariant /\ AloneOK /\ [SyncNext]_allVars => AloneOK'
<1> SUFFICES ASSUME TimesFit, SyncInvariant, AloneOK, [SyncNext]_allVars, ~mixed'
             PROVE  AloneOK'
    BY DEF AloneOK
<1>1. ClientOK /\ SyncOK /\ ProgramsOK /\ cms \in Listings
    BY SyncParts DEF SyncInvariant, ClientInvariant
<1>2. Kept /\ Grown /\ UNCHANGED cms
    BY <1>1, StepKeeps DEF Kept, Grown
<1>3. ~mixed
  <2>1. ASSUME NEW p \in Programs, Step(p) PROVE mixed => mixed'
    BY <2>1 DEF Step, Start, GiveUp, Fetch, ProcessMarkets, PostDeposit
  <2> QED BY <2>1 DEF SyncNext, Serve, Show, Join, syncVars, allVars
\* Installations and deposits that are posted.
<1>4. ASSUME NEW p \in Programs, NEW call, NEW place, place # "processing",
             program[p].at \notin {"processing", "awaiting"},
             place = "awaiting" => p \notin Syncs,
             program' = [program EXCEPT ![p] = [@ EXCEPT !.at = place, !.call = call]],
             Post(call), ~Creation(call), UNCHANGED markets
      PROVE  AloneOK'
  <2>1. PICK r : r = program[p] /\ Shaped(r)
    BY <1>1 DEF ProgramsOK, ProgramOK
  <2>2. PICK s : s = [r EXCEPT !.at = place, !.call = call]
    OBVIOUS
  <2>3. s = Held(place, r.known, r.todo, call)
    BY <2>1, <2>2, CallUpdated
  <2>4. s.at = place
    BY <2>3, Fields
  <2>5. program' = [program EXCEPT ![p] = s]
    BY <1>4, <2>1, <2>2
  <2>6. program'[p] = s /\ \A q \in Programs : q # p => program'[q] = program[q]
    BY <1>1, <2>5 DEF ProgramsOK
  <2>7. \A q \in Syncs : Turn(q)' => program'[q] = program[q]
    BY <1>4, <2>1, <2>4, <2>6 DEF Turn, Programs
  <2>8. \A c \in DOMAIN calls' : Creation(c)' /\ calls'[c].due > 0 =>
                c \in DOMAIN calls /\ calls'[c].due = calls[c].due
    BY <1>1, <1>2, <1>4, PlainPosted
  <2> QED BY <1>1, <1>2, <1>3, <1>4, <2>7, <2>8, QuietAlone
<1>5. ASSUME NEW p \in Programs, Step(p) PROVE AloneOK'
  <2>1. CASE Start(p)
    <3>1. PICK call : call = AdminCall(installPlayer)
      OBVIOUS
    <3>2. ~Creation(call)
      BY <1>1, <3>1, PlainCalls DEF AdminCall
    <3>3. PICK place : place = "installing"
      OBVIOUS
    <3>4. /\ program[p].at \notin {"processing", "awaiting"}
          /\ place # "processing" /\ place # "awaiting"
          /\ Post(call) /\ UNCHANGED markets
          /\ program' = [program EXCEPT ![p] = [@ EXCEPT !.at = place, !.call = call]]
      BY <2>1, <3>1, <3>3 DEF Start, Posts, vars
    <3> QED BY <1>4, <3>2, <3>4
  <2>2. CASE Rejected(p) /\ UNCHANGED <<vars, clientVars>>
    BY <1>1, <1>2, <1>3, <1>5, <2>2, RejectedAlone
  <2>3. CASE p \in Deposits /\ PostDeposit(p) /\ ~(Rejected(p) /\ UNCHANGED clientVars)
    <3>1. PICK call : call = AdminCall(depositFunds(players[Admin].nonce, Amount, Target))
      OBVIOUS
    <3>2. Admin \in DOMAIN players
      BY <1>1, <2>3 DEF ProgramsOK, ProgramOK, PlaceOK, PostDeposit
    <3>3. players[Admin].nonce \in Nat
      BY <1>1, <3>2, Reading DEF ClientOK
    <3>4. ~Creation(call)
      BY <1>1, <3>1, <3>3, PlainCalls DEF Credits
    <3>5. p \notin Syncs
      BY <2>3, SyncAssumption
    <3>6. PICK place : place = "awaiting"
      OBVIOUS
    <3>7. /\ program[p].at \notin {"processing", "awaiting"} /\ place # "processing"
          /\ Post(call) /\ UNCHANGED markets
          /\ program' = [program EXCEPT ![p] = [@ EXCEPT !.at = place, !.call = call]]
      BY <2>3, <3>1, <3>6 DEF PostDeposit, Posts, vars
    <3> QED BY <1>4, <3>4, <3>5, <3>7
  <2>4. GiveUp(p) => Rejected(p) /\ UNCHANGED <<vars, clientVars>>
    BY DEF GiveUp
  <2>5. PostDeposit(p) => UNCHANGED vars
    BY DEF PostDeposit
  <2> QED BY <1>1, <1>2, <1>3, <1>5, <2>1, <2>2, <2>3, <2>4, <2>5,
           FetchAlone, ProcessAlone DEF Step
<1>6. CASE Serve
  <2>1. ASSUME NEW call \in DOMAIN calls, Run(call), Answer(call, reply'.e)
        PROVE  AloneOK'
    <3>1. PICK n : n = IF reply'.e = NoError THEN 1 ELSE 0
      OBVIOUS
    <3>2. PICK e : e = reply'.e
      OBVIOUS
    <3>3. Taken(call, n) /\ Answer(call, e) /\ calls[call].due > 0 /\ counter' = counter
      BY <1>1, <2>1, <3>1, <3>2, RunMarkets DEF Run
    <3>4. CASE Creation(call)
      <4>1. IF e = NoError THEN \A i : Creates(call, i) => OpenedFrom(i)
                           ELSE markets' = markets
        BY <1>1, <2>1, <3>2, <3>4, RunMarkets DEF Creation
      <4> QED BY <1>1, <1>2, <1>3, <3>3, <3>4, <4>1, CreationAnswered
    <3>5. CASE ~Creation(call)
      <4>1. UNCHANGED markets
        BY <1>1, <2>1, <3>5, RunMarkets DEF Creation
      <4> QED BY <1>1, <1>2, <1>3, <3>3, <3>5, <4>1, PlainAnswered
    <3> QED BY <3>4, <3>5
  <2>2. ASSUME NEW call \in DOMAIN calls, Trap(call), Answer(call, Trapped)
        PROVE  AloneOK'
    <3>1. PICK n : n = 0
      OBVIOUS
    <3>2. PICK e : e = Trapped
      OBVIOUS
    <3>3. /\ Taken(call, n) /\ Answer(call, e) /\ calls[call].due > 0
          /\ UNCHANGED <<markets, counter>>
      BY <2>2, <3>1, <3>2 DEF Trap, vars
    <3>4. e # NoError
      BY <3>2 DEF Trapped, NoError
    <3>5. CASE Creation(call)
      BY <1>1, <1>2, <1>3, <3>3, <3>4, <3>5, CreationAnswered
    <3>6. CASE ~Creation(call)
      BY <1>1, <1>2, <1>3, <3>3, <3>6, PlainAnswered
    <3> QED BY <3>5, <3>6
  <2>3. CASE Preempt /\ UNCHANGED program
    <3>1. UNCHANGED <<markets, calls>>
      BY <2>3 DEF Preempt
    <3> QED BY <1>1, <1>2, <1>3, <2>3, <3>1, QuietAlone
  <2> QED BY <1>6, <2>1, <2>2, <2>3 DEF Serve
<1>7. CASE Join
  <2>1. PICK call : call = [pid |-> Target, words |-> installPlayer]
    OBVIOUS
  <2>2. Post(call) /\ UNCHANGED <<markets, program>> /\ call.words = installPlayer
    BY <1>7, <2>1 DEF Join, vars, syncVars
  <2>3. ~Creation(call)
    BY <1>1, <2>2, PlainCalls
  <2>4. \A c \in DOMAIN calls' : Creation(c)' /\ calls'[c].due > 0 =>
                c \in DOMAIN calls /\ calls'[c].due = calls[c].due
    BY <1>1, <1>2, <2>2, <2>3, PlainPosted
  <2> QED BY <1>1, <1>2, <1>3, <2>2, <2>4, QuietAlone
<1>8. CASE Show \/ (ServerTick /\ UNCHANGED syncVars) \/ UNCHANGED allVars
  <2>1. UNCHANGED <<markets, calls, program>>
    BY <1>8 DEF Show, ServerTick, Tick, vars, clientVars, syncVars, allVars
  <2> QED BY <1>1, <1>2, <1>3, <2>1, QuietAlone
<1> QED BY <1>5, <1>6, <1>7, <1>8 DEF SyncNext

LEMMA AlwaysAlone == ASSUME TimesFit PROVE SyncSpec => []AloneOK
<1>1. SyncInit => AloneOK
  <2>1. SyncInit => DOMAIN markets = {} /\ DOMAIN calls = {}
                    /\ \A p \in Syncs : ~Turn(p)
    BY DEF SyncInit, ClientInit, Init, Programs, Turn
  <2> QED BY <2>1 DEF AloneOK, MatchingIds, OneTurn, TurnInOrder, NoneStray
<1>2. TimesFit /\ SyncInvariant /\ AloneOK /\ [SyncNext]_allVars => AloneOK'
    BY AloneKeeps
<1>3. SyncSpec => []SyncInvariant
    BY SyncInvariantHolds
<1> QED BY <1>1, <1>2, <1>3, PTL DEF SyncSpec

\* Synchronisers that run one after another, each with an index that is up to
\* date and when no creation is under way, keep the ids of documents and markets
\* together: the market with the id of a document is the one that was made from
\* it, although each may fail half way or give up a creation that is run later.
THEOREM AloneKeepsIds == ASSUME TimesFit PROVE SyncSpec => []AloneMatches
<1>1. AloneOK => AloneMatches
    BY DEF AloneOK, AloneMatches
<1> QED BY <1>1, AlwaysAlone, PTL

\* And each of those that report success left no document without a market, even
\* if documents have the same times.
THEOREM AloneCreates ==
    ASSUME TimesFit
    PROVE  SyncSpec => [](~mixed => DoneMeansCreated)
<1>1. ASSUME SyncInvariant, AloneOK, ~mixed PROVE DoneMeansCreated
  <2> SUFFICES ASSUME NEW p \in Syncs, program[p].at = "done", NEW i \in DOMAIN cms
               PROVE  HasMarket(i)
      BY DEF DoneMeansCreated, HasMarket
  <2>1. SyncOK /\ MatchingIds
    BY <1>1 DEF SyncInvariant, AloneOK
  <2>2. PICK r : r = program[p]
    OBVIOUS
  <2>3. PlaceOK(p, r.at, r.known, r.todo, r.call) /\ r.at = "done"
    BY <2>1, <2>2 DEF SyncOK, ProgramOK, Programs
  <2>4. /\ r.todo \in Nat /\ r.todo > 0 /\ r.todo \notin DOMAIN cms
        /\ \A j \in Nat : 0 < j /\ j < r.todo => j \in DOMAIN markets
    BY <2>3 DEF PlaceOK
  <2>5. DOMAIN cms = 1 .. Len(cms) /\ Len(cms) \in Nat
    BY <2>1, SyncAssumption DEF SyncOK
  <2>6. i \in Nat /\ 0 < i /\ i < r.todo
    BY <2>4, <2>5
  <2>7. i \in DOMAIN markets
    BY <2>4, <2>6
  <2> QED BY <2>1, <2>7 DEF MatchingIds, HasMarket
<1>2. SyncInvariant /\ AloneOK => (~mixed => DoneMeansCreated)
    BY <1>1
<1>3. SyncSpec => []SyncInvariant /\ []AloneOK
    BY SyncInvariantHolds, AlwaysAlone, PTL
<1> QED BY <1>2, <1>3, PTL

=============================================================================
