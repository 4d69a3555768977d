-------------------------- MODULE DevicePairingProofs --------------------------
(***************************************************************************)
(* Theorems about device pairing, for any number of requests, handlers,    *)
(* keys, codes and accounts.                                               *)
(*                                                                         *)
(* A handler acts on rows it has read some statements ago.  The parts of   *)
(* the inductive invariant say what of that is still true: of a code that  *)
(* nobody has been told (Deciders), of the request it decides on, of a     *)
(* code that has been claimed (Redeemers); and what the columns of a       *)
(* request say of each other and of the approvals there were (Rows).       *)
(***************************************************************************)
EXTENDS DevicePairing, TLAPS

Asking == {"expire", "prune", "insert"}
Deciding == {"created", "found", "accountMinted", "attachMinted", "approved",
             "reissue", "reissueMinted"}
Unspoken == {"accountMinted", "attachMinted", "reissueMinted"}
Redeeming == {"asked", "claimed", "marked", "cleared", "issued", "paired", "refused"}
Claimed == {"claimed", "marked", "cleared"}
Served == {"issued", "paired"}
Owning == {"created", "accountMinted", "undo"}
Open == {"approved", "redeemed"}
Unsent == {"new", "asking"}

(* What a request's columns say of each other, of its card and of the        *)
(* approvals there were.                                                     *)
Rows ==
  \A r \in Requests :
    /\ request[r].code # 0 <=> request[r].status \in Open
    /\ request[r].code <= minted
    /\ request[r].account # NoAccount => request[r].status \in Open
    /\ page[r] \in Unsent => request[r].status = "none"
    /\ request[r].status \in Refused \cup {"pending"} \/ page[r] \in Unsent
         => \A k \in Codes : <<r, k>> \notin granted

(* Only one handler inserts a request.                                       *)
Askers ==
  /\ \A c \in Calls :
       call[c].pc \in Asking /\ call[c].request # NoRequest
         => page[call[c].request] = "asking"
  /\ \A c, d \in Calls :
       call[c].pc \in Asking /\ call[d].pc \in Asking
         /\ call[c].request = call[d].request /\ call[c].request # NoRequest => c = d

(* The code a handler has minted is nobody else's until it is told.          *)
Unshared(c) ==
  LET k == call[c].code IN
  /\ k \in 1..minted /\ code[k].account = call[c].account
  /\ ~code[k].used /\ k \notin told
  /\ \A r \in Requests : request[r].code # k
  /\ \A d \in Calls : d # c => call[d].code # k

(* Between approval and link the request has the approval's code and no      *)
(* account, unless it has been pruned.                                       *)
Unlinked(c) ==
  LET row == request[call[c].request] IN
  /\ call[c].code \in 1..minted /\ code[call[c].code].account = call[c].account
  /\ <<call[c].request, call[c].code>> \in granted
  /\ row.status = "none" \/ (row.code = call[c].code /\ row.account = NoAccount)

Decider(c) ==
  LET h == call[c] IN
  /\ h.pc \in Deciding =>
       h.request \in Requests /\ h.account \in Accounts /\ page[h.request] \notin Unsent
  /\ h.pc = "undo" => h.account \in Accounts
  /\ h.pc = "found" => h.account = Household
  /\ h.pc \in Unspoken => Unshared(c)
  /\ h.pc = "approved" => Unlinked(c)
  /\ h.pc \in {"reissue", "reissueMinted"} =>
       request[h.request].status = "none" \/ request[h.request].account = h.account

Deciders ==
  /\ \A c \in Calls : Decider(c)
  /\ \A c, d \in Calls :
       call[c].pc = "approved" /\ call[d].pc = "approved"
         /\ call[c].request = call[d].request => c = d

(* A claimed code is used, has no session yet, and one handler claims it; an *)
(* answer, given or stored, is that of the session its code has.             *)
Redeemer(c) ==
  LET h == call[c] IN
  /\ h.pc \in Redeeming => h.code \in told /\ h.key \in Keys \cup {NoKey}
  /\ h.pc \in Claimed \cup {"issued"} => h.account \in Accounts
  /\ h.pc \in Claimed => code[h.code].used /\ sessions[h.code] = 0
  /\ h.pc \in Served => sessions[h.code] = 1
  /\ h.barred =>
       suspended /\ h.account = Household /\ h.pc \in {"claimed", "marked", "refused"}

Redeemers ==
  /\ \A c \in Calls : Redeemer(c)
  /\ \A c, d \in Calls :
       call[c].pc \in Claimed /\ call[d].pc \in Claimed /\ call[c].code = call[d].code
         => c = d
  /\ \A k \in Codes : sessions[k] # 0 => sessions[k] = 1 /\ k <= minted /\ code[k].used
  /\ \A m \in memo : sessions[m.code] = 1

(* A used code shows on its request from the handler's second statement on,  *)
(* unless that statement has failed.                                         *)
Shown ==
  \A r \in Requests :
    LET k == request[r].code IN
    k # 0 /\ code[k].used /\ k \notin unmarked /\ request[r].status # "redeemed"
      => \E c \in Calls : call[c].pc = "claimed" /\ call[c].code = k

(* An account made by approval is a handler's that will link or remove it,   *)
(* unless the handler or the removal has failed.                             *)
Owned ==
  \A a \in Accounts \ ({Household} \cup left) :
    account[a] = "active" =>
      \/ \E c \in Calls : call[c].account = a /\ call[c].pc \in Owning
      \/ \E g \in granted : g[2] <= minted /\ code[g[2]].account = a

(* A handler knows no code that has not been minted.                         *)
Coded == \A c \in Calls : call[c].code <= minted

Inv ==
  TypeOK /\ Rows /\ Askers /\ Deciders /\ Redeemers /\ Shown /\ Owned /\ Coded
    /\ ApprovedOnce /\ NamesItsAccount

-----------------------------------------------------------------------------
(* Types.                                                                    *)

LEMMA Bounds ==
  /\ MaxCodes \in Nat /\ MaxAccounts \in Nat /\ MaxActs \in Nat /\ MaxFaults \in Nat
  /\ NoRequest \notin Requests /\ NoKey \notin Keys
  /\ Household \in Accounts /\ NoAccount \notin Accounts /\ NoAccount # Household
  /\ 0 \notin Codes /\ Codes \subseteq 0..MaxCodes
  BY PairingAssumption DEF Household, Accounts, NoAccount, Codes

LEMMA RestTypes == Free \in Call /\ NoRow \in Request /\ NoCode \in Code
  BY Bounds DEF Free, Call, NoRow, Request, NoCode, Code, Statuses, Undecided

LEMMA InitInv == Init => Inv
  <1> SUFFICES ASSUME Init PROVE Inv
    OBVIOUS
  <1>1. TypeOK
    <2>1. /\ request \in [Requests -> Request] /\ code \in [Codes -> Code]
          /\ call \in [Calls -> Call]
      BY RestTypes DEF Init
    <2>2. \A k \in Codes : code[k].account = NoAccount <=> k > minted
      BY DEF Init, NoCode, Codes
    <2>3. /\ minted \in 0..MaxCodes /\ acts \in 0..MaxActs /\ faults \in 0..MaxFaults
          /\ sessions \in [Codes -> Nat]
      BY Bounds DEF Init
    <2> QED BY <2>1, <2>2, <2>3 DEF Init, TypeOK
  <1>2. Rows /\ Shown /\ NamesItsAccount
    BY Bounds DEF Init, Rows, Shown, NamesItsAccount, NoRow, Open
  <1>3. Askers /\ Deciders /\ Redeemers
    BY DEF Init, Askers, Deciders, Decider, Redeemers, Redeemer, Free, Asking, Deciding,
           Unspoken, Redeeming, Claimed, Served
  <1>4. Owned /\ ApprovedOnce /\ Coded
    BY DEF Init, Owned, ApprovedOnce, Coded, Free, Accounts, Household
  <1> QED BY <1>1, <1>2, <1>3, <1>4 DEF Inv

(* A handler whose program counter moves.                                    *)
LEMMA GoesTypes ==
  ASSUME call \in [Calls -> Call], NEW c \in Calls,
         NEW pc \in {"prune", "insert", "approved", "marked", "cleared", "refused", "issued", "paired"},
         Goes(c, pc)
  PROVE  /\ call' \in [Calls -> Call] /\ call'[c].pc = pc
         /\ call'[c].request = call[c].request /\ call'[c].account = call[c].account
         /\ call'[c].code = call[c].code /\ call'[c].key = call[c].key
         /\ call'[c].barred = call[c].barred
         /\ \A d \in Calls \ {c} : call'[d] = call[d]
  <1> DEFINE moved == [call[c] EXCEPT !.pc = pc]
  <1>1. /\ moved \in Call /\ moved.pc = pc /\ moved.request = call[c].request
        /\ moved.account = call[c].account /\ moved.code = call[c].code
        /\ moved.key = call[c].key /\ moved.barred = call[c].barred
    BY DEF Call
  <1>2. call' = [call EXCEPT ![c] = moved]
    BY DEF Goes
  <1> HIDE DEF moved
  <1> QED BY <1>1, <1>2

(* A handler that ends.                                                      *)
LEMMA EndsTypes ==
  ASSUME call \in [Calls -> Call], NEW c \in Calls, Ends(c)
  PROVE  /\ call' \in [Calls -> Call] /\ call'[c] = Free
         /\ Free.pc = "free" /\ Free.code = 0 /\ ~Free.barred
         /\ \A d \in Calls \ {c} : call'[d] = call[d]
  BY RestTypes DEF Ends, Free

(* What the type invariant says of a handler and of a request.               *)
LEMMA Fields ==
  ASSUME TypeOK
  PROVE  /\ \A c \in Calls :
              /\ call[c] \in Call /\ call[c].code \in 0..MaxCodes
              /\ call[c].account \in Accounts \cup {NoAccount}
         /\ \A r \in Requests :
              /\ request[r] \in Request /\ request[r].code \in 0..MaxCodes
              /\ request[r].account \in Accounts \cup {NoAccount}
              /\ request[r].status \in Statuses
         /\ \A k \in Codes : code[k] \in Code
         /\ \A k \in 1..minted : k \in Codes /\ code[k].account \in Accounts
         /\ minted \in Nat /\ \A k \in told : k \in 1..minted
  BY Bounds DEF TypeOK, Call, Request, Code, Codes

-----------------------------------------------------------------------------
(* What keeps the knowledge of a handler that does not move.                 *)

(* The lapses only grow.                                                     *)
Lapse ==
  /\ unmarked \subseteq unmarked' /\ left \subseteq left' /\ faults' \in 0..MaxFaults
  /\ unmarked' \subseteq Codes /\ left' \subseteq Accounts

LEMMA NoLapse == ASSUME Inv, UNCHANGED lapses PROVE Lapse
  BY DEF Inv, TypeOK, lapses, Lapse

LEMMA DeciderKept ==
  ASSUME Inv, TypeOK', NEW d \in Calls, call'[d] = call[d], minted <= minted',
         granted \subseteq granted',
         \A r \in Requests : page'[r] \in Unsent => page[r] \in Unsent,
         \A k \in 1..minted : code'[k].account = code[k].account,
         call[d].pc \in Unspoken =>
           /\ ~code'[call[d].code].used /\ call[d].code \notin told'
           /\ \A r \in Requests : request'[r].code # call[d].code
           /\ \A e \in Calls : e # d => call'[e].code # call[d].code,
         call[d].pc \in {"approved", "reissue", "reissueMinted"} =>
           \/ request'[call[d].request].status = "none"
           \/ /\ request[call[d].request].status # "none"
              /\ request'[call[d].request].account = request[call[d].request].account
              /\ call[d].pc = "approved" =>
                   request'[call[d].request].code = request[call[d].request].code
  PROVE  Decider(d)'
  <1>0. Decider(d) /\ minted \in Nat /\ minted' \in Nat
    BY Fields, Bounds DEF Inv, Deciders, TypeOK
  <1>1. call[d].pc \in Unspoken => Unshared(d)'
    BY <1>0 DEF Decider, Unshared
  <1>2. call[d].pc = "approved" => Unlinked(d)'
    BY <1>0 DEF Decider, Unlinked
  <1> QED BY <1>0, <1>1, <1>2 DEF Decider, Deciding

LEMMA RedeemerKept ==
  ASSUME Inv, NEW d \in Calls, call'[d] = call[d], told \subseteq told',
         suspended => suspended',
         \A k \in 1..minted : code[k].used => code'[k].used,
         call[d].pc \in Claimed \cup Served => sessions'[call[d].code] = sessions[call[d].code]
  PROVE  Redeemer(d)'
  <1>1. Redeemer(d) /\ \A k \in told : k \in 1..minted
    BY Fields DEF Inv, Redeemers
  <1> QED BY <1>1 DEF Redeemer, Claimed, Redeeming, Served

(* A step of c that writes no request, tells nothing and claims at most told *)
(* codes.                                                                    *)
LEMMA CoreStep ==
  ASSUME Inv, TypeOK', NEW c \in Calls, UNCHANGED <<request, minted, told, granted>>,
         \A d \in Calls \ {c} : call'[d] = call[d],
         \A r \in Requests : page'[r] \in Unsent <=> page[r] \in Unsent,
         \A k \in Codes : /\ code'[k].account = code[k].account
                          /\ code'[k].used => code[k].used \/ k \in told,
         call'[c].pc # "approved", call'[c].code \in told \cup {0, call[c].code},
         Decider(c)', Askers', Redeemers', Shown', Owned'
  PROVE  Inv'
  <1>1. Rows' /\ ApprovedOnce'
    BY DEF Inv, Rows, ApprovedOnce
  <1>2. NamesItsAccount'
    <2>1. \A r \in Requests : request[r].code # 0 => request[r].code \in Codes
      BY Fields, Bounds DEF Inv, Codes
    <2> QED BY <2>1 DEF Inv, NamesItsAccount
  <1>3. ASSUME NEW d \in Calls \ {c} PROVE Decider(d)'
    <2>1. call[d].pc \in Unspoken =>
            /\ ~code[call[d].code].used /\ call[d].code \notin told /\ call[d].code # 0
            /\ call[d].code \in Codes
            /\ \A r \in Requests : request[r].code # call[d].code
            /\ \A e \in Calls : e # d => call[e].code # call[d].code
      BY Fields DEF Inv, Deciders, Decider, Unshared
    <2>2. call[d].pc \in Unspoken => \A e \in Calls : e # d => call'[e].code # call[d].code
      BY <2>1
    <2>3. minted <= minted' /\ \A k \in 1..minted : code'[k].account = code[k].account
      BY Fields DEF Inv
    <2>4. call[d].pc \in Unspoken =>
            /\ ~code'[call[d].code].used /\ call[d].code \notin told'
            /\ \A r \in Requests : request'[r].code # call[d].code
      BY <2>1
    <2> QED BY <1>3, <2>2, <2>3, <2>4, DeciderKept
  <1>4. \A d, e \in Calls :
          call'[d].pc = "approved" /\ call'[e].pc = "approved"
            /\ call'[d].request = call'[e].request => d = e
    BY DEF Inv, Deciders
  <1>5. Deciders'
    BY <1>3, <1>4 DEF Deciders
  <1>6. Coded'
    BY Fields DEF Inv, Coded
  <1> QED BY <1>1, <1>2, <1>5, <1>6 DEF Inv

(* A handler's step that writes no request, code or card.                    *)
LEMMA HandlerStep ==
  ASSUME Inv, NEW c \in Calls,
         UNCHANGED <<request, page, code, minted, suspended, told, sessions, granted, renewed>>,
         call' \in [Calls -> Call], \A d \in Calls \ {c} : call'[d] = call[d],
         account' \in [Accounts -> {"none", "active", "deleted"}],
         memo' \subseteq [account: Accounts, key: Keys, code: Codes], acts' \in 0..MaxActs,
         \A m \in memo' : m \in memo \/ sessions[m.code] = 1, Lapse,
         Decider(c)', Redeemer(c)', Owned',
         call'[c].pc \in Asking => call'[c].request = NoRequest,
         call'[c].pc # "approved",
         call'[c].pc \in Claimed => call[c].pc \in Claimed /\ call'[c].code = call[c].code,
         call[c].pc # "claimed",
         call'[c].code \in told \cup {0, call[c].code}
  PROVE  Inv'
  <1>1. TypeOK'
    BY DEF Inv, TypeOK, Lapse
  <1>2. Askers' /\ Shown'
    BY DEF Inv, Askers, Shown, Lapse
  <1>3. Redeemers'
    <2>1. ASSUME NEW d \in Calls \ {c} PROVE Redeemer(d)'
      BY <2>1, RedeemerKept
    <2>2. \A d, e \in Calls :
            call'[d].pc \in Claimed /\ call'[e].pc \in Claimed
              /\ call'[d].code = call'[e].code => d = e
      BY DEF Inv, Redeemers
    <2>3. \A k \in Codes : sessions'[k] # 0 => sessions'[k] = 1 /\ k <= minted' /\ code'[k].used
      BY DEF Inv, Redeemers
    <2>4. \A m \in memo' : sessions'[m.code] = 1
      BY DEF Inv, Redeemers
    <2> QED BY <2>1, <2>2, <2>3, <2>4 DEF Redeemers
  <1> QED BY <1>1, <1>2, <1>3, CoreStep

(* A row stays, is pruned, or changes status only, and its card does not     *)
(* become unsent.  A row appears only for a card that was unsent.            *)
RowMoves(r) ==
  /\ page'[r] \in Unsent => page[r] \in Unsent /\ request'[r].status = "none"
  /\ \/ request'[r] = NoRow
     \/ /\ request'[r].code = request[r].code /\ request'[r].account = request[r].account
        /\ request'[r].status \in Open <=> request[r].status \in Open
        /\ request[r].status = "redeemed" => request'[r].status = "redeemed"
        /\ request[r].status = "none" => request'[r].status = "none" \/ page[r] \in Unsent

(* A handler moves in the middle of a request or of a redemption.            *)
Turns(d) ==
  /\ call[d].pc \in Asking \cup {"claimed"}
  /\ call'[d].pc \in {"prune", "insert", "free", "marked"}
  /\ call'[d].code \in {0, call[d].code}
  /\ call'[d].pc = "marked" => call[d].pc = "claimed" /\ call'[d].code = call[d].code
  /\ Redeemer(d)'

(* A step that writes requests and cards.                                    *)
LEMMA RowsStep ==
  ASSUME Inv,
         UNCHANGED <<code, minted, account, suspended, memo, told, sessions, granted, renewed, acts>>,
         Lapse,
         request' \in [Requests -> Request],
         page' \in [Requests -> {"new", "asking", "waiting", "offered", "withdrawing",
                                 "withdrawn", "over"}],
         call' \in [Calls -> Call],
         \A r \in Requests : RowMoves(r),
         \A d \in Calls : call'[d] = call[d] \/ Turns(d),
         Askers', Shown'
  PROVE  Inv'
  <1>1. TypeOK'
    BY DEF Inv, TypeOK, Lapse
  <1>2. Rows'
    <2> SUFFICES ASSUME NEW r \in Requests
                 PROVE  /\ request'[r].code # 0 <=> request'[r].status \in Open
                        /\ request'[r].code <= minted
                        /\ request'[r].account # NoAccount => request'[r].status \in Open
                        /\ page'[r] \in Unsent => request'[r].status = "none"
                        /\ request'[r].status \in Refused \cup {"pending"} \/ page'[r] \in Unsent
                             => \A k \in Codes : <<r, k>> \notin granted
      BY DEF Rows
    <2>1. /\ request[r].code # 0 <=> request[r].status \in Open
          /\ request[r].code <= minted
          /\ request[r].account # NoAccount => request[r].status \in Open
          /\ page[r] \in Unsent => request[r].status = "none"
          /\ request[r].status \in Refused \cup {"pending"} \/ page[r] \in Unsent
               => \A k \in Codes : <<r, k>> \notin granted
          /\ RowMoves(r) /\ minted \in Nat
      BY Fields DEF Inv, Rows
    <2>2. request[r].status \in Open \cup Refused \cup {"pending", "none"}
      BY Fields DEF Inv, Statuses, Undecided, Open
    <2>3. CASE request'[r] = NoRow
      BY <2>1, <2>3 DEF NoRow, Open, Refused, RowMoves
    <2>4. CASE request'[r] # NoRow
      BY <2>1, <2>2, <2>4 DEF RowMoves, Open, Refused, Unsent
    <2> QED BY <2>3, <2>4
  <1>3. NamesItsAccount' /\ ApprovedOnce'
    BY DEF Inv, NamesItsAccount, ApprovedOnce, RowMoves, NoRow
  <1>4. Deciders'
    <2>1. ASSUME NEW d \in Calls, call'[d] = call[d] PROVE Decider(d)'
      <3>1. call[d].pc \in Unspoken =>
              /\ ~code[call[d].code].used /\ call[d].code \notin told /\ call[d].code # 0
              /\ \A r \in Requests : request[r].code # call[d].code
              /\ \A e \in Calls : e # d => call[e].code # call[d].code
        BY DEF Inv, Deciders, Decider, Unshared
      <3>2. call[d].pc \in Unspoken => \A r \in Requests : request'[r].code # call[d].code
        BY <3>1 DEF RowMoves, NoRow
      <3>3. call[d].pc \in Unspoken => \A e \in Calls : e # d => call'[e].code # call[d].code
        BY <3>1 DEF Turns
      <3>4. call[d].pc \in {"approved", "reissue", "reissueMinted"} =>
              /\ call[d].request \in Requests /\ page[call[d].request] \notin Unsent
        BY DEF Inv, Deciders, Decider, Deciding
      <3>5. call[d].pc \in {"approved", "reissue", "reissueMinted"} =>
              \/ request'[call[d].request].status = "none"
              \/ /\ request[call[d].request].status # "none"
                 /\ request'[call[d].request].account = request[call[d].request].account
                 /\ request'[call[d].request].code = request[call[d].request].code
        BY <3>4 DEF RowMoves, NoRow
      <3>6. minted <= minted' /\ granted \subseteq granted'
        BY Fields DEF Inv
      <3>7. \A r \in Requests : page'[r] \in Unsent => page[r] \in Unsent
        BY DEF RowMoves
      <3>8. \A k \in 1..minted : code'[k].account = code[k].account
        OBVIOUS
      <3> QED BY <1>1, <2>1, <3>1, <3>2, <3>3, <3>5, <3>6, <3>7, <3>8, DeciderKept
    <2>2. ASSUME NEW d \in Calls, Turns(d) PROVE Decider(d)'
      BY <2>2 DEF Turns, Decider, Deciding, Unspoken
    <2>3. \A d, e \in Calls :
            call'[d].pc = "approved" /\ call'[e].pc = "approved"
              /\ call'[d].request = call'[e].request => d = e
      BY DEF Turns, Inv, Deciders
    <2> QED BY <2>1, <2>2, <2>3 DEF Deciders
  <1>5. Redeemers'
    <2>1. ASSUME NEW d \in Calls PROVE Redeemer(d)'
      BY <2>1, RedeemerKept DEF Turns
    <2>2. \A d \in Calls : call'[d].pc \in Claimed
                             => call[d].pc \in Claimed /\ call'[d].code = call[d].code
      BY DEF Turns, Claimed
    <2>3. \A d, e \in Calls :
            call'[d].pc \in Claimed /\ call'[e].pc \in Claimed
              /\ call'[d].code = call'[e].code => d = e
      BY <2>2 DEF Inv, Redeemers
    <2>4. /\ \A k \in Codes : sessions'[k] # 0 => sessions'[k] = 1 /\ k <= minted' /\ code'[k].used
          /\ \A m \in memo' : sessions'[m.code] = 1
      BY DEF Inv, Redeemers
    <2> QED BY <2>1, <2>3, <2>4 DEF Redeemers
  <1>6. Owned'
    BY DEF Turns, Inv, Owned, Owning, Asking, Lapse
  <1>7. Coded'
    BY Fields DEF Turns, Inv, Coded
  <1> QED BY <1>1, <1>2, <1>3, <1>4, <1>5, <1>6, <1>7 DEF Inv

(* A used code still shows when no handler stands after a claim.             *)
LEMMA ShownKept ==
  ASSUME Inv, UNCHANGED code, unmarked \subseteq unmarked', \A r \in Requests : RowMoves(r),
         \A d \in Calls : call[d].pc = "claimed" => call'[d] = call[d]
  PROVE  Shown'
  <1> SUFFICES ASSUME NEW r \in Requests,
                      request'[r].code # 0, code'[request'[r].code].used,
                      request'[r].code \notin unmarked', request'[r].status # "redeemed"
               PROVE  \E c \in Calls : call'[c].pc = "claimed" /\ call'[c].code = request'[r].code
    BY DEF Shown
  <1>1. request'[r].code = request[r].code /\ request[r].status # "redeemed"
    BY DEF RowMoves, NoRow
  <1>2. PICK c \in Calls : call[c].pc = "claimed" /\ call[c].code = request[r].code
    BY <1>1 DEF Inv, Shown
  <1> QED BY <1>1, <1>2

-----------------------------------------------------------------------------
(* The steps that write no request, code or card.                            *)

LEMMA StartsTypes ==
  ASSUME call \in [Calls -> Call], NEW c \in Calls, NEW h \in Call, Starts(c, h)
  PROVE  /\ call' \in [Calls -> Call] /\ call'[c] = h /\ call[c].pc = "free"
         /\ \A d \in Calls \ {c} : call'[d] = call[d]
  BY DEF Starts

(* Handlers that own an account go on owning it.                             *)
LEMMA OwnedKept ==
  ASSUME Inv, NEW c \in Calls, UNCHANGED <<account, granted, minted, code>>,
         \A d \in Calls \ {c} : call'[d] = call[d],
         left \subseteq left', call[c].pc \notin Owning
  PROVE  Owned'
  BY DEF Inv, Owned

LEMMA RequestOtherStep == ASSUME Inv, NEW c \in Calls, RequestOther(c) PROVE Inv'
  <1> DEFINE h == [Free EXCEPT !.pc = "expire"]
  <1>1. /\ h \in Call /\ h.pc = "expire" /\ h.request = NoRequest /\ h.code = 0 /\ ~h.barred
    BY RestTypes DEF Call, Free
  <1>2. Starts(c, h) /\ UNCHANGED <<tables, page, told, history>>
    BY DEF RequestOther
  <1> HIDE DEF h
  <1>3. /\ call' \in [Calls -> Call] /\ call'[c] = h /\ call[c].pc = "free"
        /\ \A d \in Calls \ {c} : call'[d] = call[d]
    BY <1>1, <1>2, StartsTypes DEF Inv, TypeOK
  <1>4. Decider(c)' /\ Redeemer(c)'
    BY <1>1, <1>3 DEF Decider, Redeemer, Deciding, Unspoken, Redeeming, Claimed, Served
  <1>5. Owned'
    BY <1>2, <1>3, OwnedKept DEF Owning, tables, history, lapses
  <1> QED BY <1>1, <1>2, <1>3, <1>4, <1>5, NoLapse, HandlerStep
          DEF tables, history, lapses, Inv, TypeOK, Claimed

(* A handler that ends and owns no account.                                  *)
LEMMA EndsStep ==
  ASSUME Inv, NEW c \in Calls, Ends(c),
         UNCHANGED <<tables, page, told, sessions, granted, renewed, acts>>, Lapse,
         call[c].pc \notin Owning \cup {"claimed"}
  PROVE  Inv'
  <1>1. /\ call' \in [Calls -> Call] /\ call'[c] = Free
        /\ Free.pc = "free" /\ Free.code = 0 /\ ~Free.barred
        /\ \A d \in Calls \ {c} : call'[d] = call[d]
    BY EndsTypes DEF Inv, TypeOK
  <1>2. Decider(c)' /\ Redeemer(c)'
    BY <1>1 DEF Decider, Redeemer, Deciding, Unspoken, Redeeming, Claimed, Served
  <1>3. Owned'
    BY <1>1, OwnedKept DEF Lapse, tables
  <1> QED BY <1>1, <1>2, <1>3, HandlerStep DEF tables, Inv, TypeOK, Claimed, Asking

LEMMA InsertOtherStep == ASSUME Inv, NEW c \in Calls, InsertOther(c) PROVE Inv'
  BY EndsStep, NoLapse DEF InsertOther, At, history, Owning

LEMMA AnswerStep == ASSUME Inv, NEW c \in Calls, Answer(c) PROVE Inv'
  BY EndsStep, NoLapse DEF Answer, history, Owning

LEMMA ApproveCreateStep ==
  ASSUME Inv, NEW c \in Calls, NEW r \in Requests, ApproveCreate(c, r)
  PROVE  Inv'
  <1>1. PICK a \in Accounts \ {Household} :
          /\ page[r] \notin {"new", "asking"}
          /\ Starts(c, [Free EXCEPT !.pc = "created", !.request = r, !.account = a,
                                    !.timely = request[r].age = "fresh"])
          /\ account' = [account EXCEPT ![a] = "active"]
          /\ UNCHANGED <<request, code, minted, suspended, memo, page, told, history>>
    BY DEF ApproveCreate
  <1> DEFINE h == [Free EXCEPT !.pc = "created", !.request = r, !.account = a,
                               !.timely = request[r].age = "fresh"]
  <1>2. /\ h \in Call /\ h.pc = "created" /\ h.request = r /\ h.account = a /\ h.code = 0
        /\ ~h.barred
    BY RestTypes DEF Call, Free
  <1> HIDE DEF h
  <1>3. /\ call' \in [Calls -> Call] /\ call'[c] = h /\ call[c].pc = "free"
        /\ \A d \in Calls \ {c} : call'[d] = call[d]
    BY <1>1, <1>2, StartsTypes DEF Inv, TypeOK, h
  <1>4. Decider(c)' /\ Redeemer(c)'
    BY <1>1, <1>2, <1>3 DEF Decider, Redeemer, Unspoken, Redeeming, Claimed, Served, Unsent
  <1>5. account' \in [Accounts -> {"none", "active", "deleted"}]
        /\ \A b \in Accounts \ {a} : account'[b] = account[b]
    BY <1>1 DEF Inv, TypeOK
  <1>6. Owned'
    BY <1>1, <1>2, <1>3, <1>5 DEF Inv, Owned, Owning, history, lapses
  <1> QED BY <1>1, <1>2, <1>3, <1>4, <1>5, <1>6, NoLapse, HandlerStep
          DEF history, lapses, Inv, TypeOK, Claimed, Asking

LEMMA AttachFindStep ==
  ASSUME Inv, NEW c \in Calls, NEW r \in Requests, AttachFind(c, r)
  PROVE  Inv'
  <1> DEFINE h == [Free EXCEPT !.pc = "found", !.request = r, !.account = Household,
                               !.timely = request[r].age = "fresh"]
  <1>1. /\ h \in Call /\ h.pc = "found" /\ h.request = r /\ h.account = Household /\ h.code = 0
        /\ ~h.barred
    BY RestTypes, Bounds DEF Call, Free
  <1>2. Starts(c, h) /\ page[r] \notin Unsent /\ UNCHANGED <<tables, page, told, history>>
    BY DEF AttachFind, Unsent
  <1> HIDE DEF h
  <1>3. /\ call' \in [Calls -> Call] /\ call'[c] = h /\ call[c].pc = "free"
        /\ \A d \in Calls \ {c} : call'[d] = call[d]
    BY <1>1, <1>2, StartsTypes DEF Inv, TypeOK
  <1>4. Decider(c)' /\ Redeemer(c)'
    BY <1>1, <1>2, <1>3, Bounds DEF Decider, Redeemer, Unspoken, Redeeming, Claimed, Served, tables
  <1>5. Owned'
    BY <1>2, <1>3, OwnedKept DEF Owning, tables, history, lapses
  <1> QED BY <1>1, <1>2, <1>3, <1>4, <1>5, NoLapse, HandlerStep
          DEF tables, history, lapses, Inv, TypeOK, Claimed, Asking

LEMMA ReissueStep ==
  ASSUME Inv, NEW c \in Calls, NEW r \in Requests, Reissue(c, r)
  PROVE  Inv'
  <1> DEFINE h == [Free EXCEPT !.pc = "reissue", !.request = r, !.account = request[r].account]
  <1>0. request[r].account \in Accounts /\ page[r] \notin Unsent
    BY Fields DEF Reissue, Inv, Rows, Open
  <1>1. /\ h \in Call /\ h.pc = "reissue" /\ h.request = r
        /\ h.account = request[r].account /\ h.code = 0 /\ ~h.barred
    BY <1>0, RestTypes DEF Call, Free
  <1>2. Starts(c, h) /\ UNCHANGED <<tables, page, told, sessions, granted, renewed, lapses>>
    BY DEF Reissue
  <1> HIDE DEF h
  <1>3. /\ call' \in [Calls -> Call] /\ call'[c] = h /\ call[c].pc = "free"
        /\ \A d \in Calls \ {c} : call'[d] = call[d]
    BY <1>1, <1>2, StartsTypes DEF Inv, TypeOK
  <1>4. Decider(c)' /\ Redeemer(c)'
    BY <1>0, <1>1, <1>2, <1>3 DEF Decider, Redeemer, Unspoken, Redeeming, Claimed, Served, tables
  <1>5. Owned' /\ acts' \in 0..MaxActs
    <2>1. acts' \in 0..MaxActs
      BY Bounds DEF Reissue, Acts, Inv, TypeOK
    <2> QED BY <1>2, <1>3, <2>1, OwnedKept DEF tables, lapses, Owning
  <1> QED BY <1>1, <1>2, <1>3, <1>4, <1>5, NoLapse, HandlerStep
          DEF tables, Inv, TypeOK, Claimed, Asking

(* A handler of a redemption that goes on without a session, or of any       *)
(* account it does not own.                                                  *)
LEMMA GoesStep ==
  ASSUME Inv, NEW c \in Calls,
         NEW pc \in {"cleared", "refused", "paired"}, Goes(c, pc),
         UNCHANGED <<request, page, code, minted, account, suspended, told>>,
         UNCHANGED <<sessions, granted, renewed, acts>>, Lapse,
         memo' \subseteq [account: Accounts, key: Keys, code: Codes],
         \A m \in memo' : m \in memo \/ sessions[m.code] = 1,
         call[c].pc \in {"asked", "marked", "cleared", "issued"},
         pc = "cleared" => call[c].pc = "marked" /\ ~call[c].barred,
         pc = "paired" => call[c].pc = "issued"
  PROVE  Inv'
  <1>1. /\ call' \in [Calls -> Call] /\ call'[c].pc = pc
        /\ call'[c].request = call[c].request /\ call'[c].account = call[c].account
        /\ call'[c].code = call[c].code /\ call'[c].key = call[c].key
        /\ call'[c].barred = call[c].barred
        /\ \A d \in Calls \ {c} : call'[d] = call[d]
    BY GoesTypes DEF Inv, TypeOK
  <1>2. Decider(c)'
    BY <1>1 DEF Decider, Deciding, Unspoken
  <1>3. Redeemer(c)'
    <2>1. Redeemer(c)
      BY DEF Inv, Redeemers
    <2> QED BY <1>1, <2>1 DEF Redeemer, Redeeming, Claimed, Served
  <1>4. Owned'
    BY <1>1, OwnedKept DEF Owning, Lapse
  <1> QED BY <1>1, <1>2, <1>3, <1>4, HandlerStep DEF Inv, TypeOK, Claimed, Asking

LEMMA CheckStep == ASSUME Inv, NEW c \in Calls, Check(c) PROVE Inv'
  <1>1. Redeemer(c)
    BY DEF Inv, Redeemers
  <1>2. call[c].pc = "marked" /\ UNCHANGED <<tables, page, told, history>> /\ Lapse
    BY NoLapse DEF Check, At, history
  <1>3. CASE Passes(call[c].account) /\ Goes(c, "cleared")
    <2>1. ~call[c].barred
      BY <1>1, <1>3 DEF Redeemer, Passes
    <2> QED BY <1>2, <1>3, <2>1, GoesStep DEF tables, history, Inv, TypeOK
  <1>4. CASE Goes(c, "refused")
    BY <1>2, <1>4, GoesStep DEF tables, history, Inv, TypeOK
  <1> QED BY <1>3, <1>4 DEF Check

LEMMA RememberStep == ASSUME Inv, NEW c \in Calls, Remember(c) PROVE Inv'
  <1> DEFINE h == call[c]
             answer == [account |-> h.account, key |-> h.key, code |-> h.code]
  <1>1. /\ h.pc = "issued" /\ Redeemer(c) /\ h.code \in Codes /\ Lapse
        /\ UNCHANGED <<request, code, minted, account, suspended, page, told>>
        /\ UNCHANGED <<sessions, granted, renewed, acts>>
    BY Fields, NoLapse DEF Remember, Inv, Redeemers, Redeemer, Redeeming, history
  <1>2. h.account \in Accounts /\ h.key \in Keys \cup {NoKey} /\ sessions[h.code] = 1
    BY <1>1 DEF Redeemer, Redeeming, Claimed, Served
  <1>3. CASE Goes(c, "refused") /\ UNCHANGED memo
    BY <1>1, <1>3, GoesStep DEF Inv, TypeOK
  <1>4. CASE Goes(c, "paired") /\ UNCHANGED memo
    BY <1>1, <1>4, GoesStep DEF Inv, TypeOK
  <1>5. CASE Goes(c, "paired") /\ h.key # NoKey /\ memo' = memo \cup {answer}
    <2>1. answer \in [account: Accounts, key: Keys, code: Codes] /\ answer.code = h.code
      BY <1>1, <1>2, <1>5
    <2> HIDE DEF answer
    <2>2. memo' \subseteq [account: Accounts, key: Keys, code: Codes]
      BY <1>5, <2>1 DEF Inv, TypeOK
    <2>3. \A m \in memo' : m \in memo \/ sessions[m.code] = 1
      BY <1>2, <1>5, <2>1
    <2> QED BY <1>1, <1>5, <2>2, <2>3, GoesStep
  <1> QED BY <1>3, <1>4, <1>5 DEF Remember

LEMMA RedeemStep ==
  ASSUME Inv, NEW c \in Calls, NEW k \in told, NEW key \in Keys \cup {NoKey}, Redeem(c, k, key)
  PROVE  Inv'
  <1>1. PICK pc \in {"asked", "paired", "refused"} :
          /\ Starts(c, [Free EXCEPT !.code = k, !.key = key, !.timely = ~code[k].late, !.pc = pc])
          /\ pc = "paired" => \E m \in memo : m.code = k
    BY DEF Redeem
  <1> DEFINE h == [Free EXCEPT !.code = k, !.key = key, !.timely = ~code[k].late, !.pc = pc]
  <1>2. k \in 0..MaxCodes /\ (pc = "paired" => sessions[k] = 1)
    BY <1>1, Fields, Bounds DEF Inv, TypeOK, Redeemers
  <1>3. /\ h \in Call /\ h.pc = pc /\ h.key = key /\ h.code = k /\ ~h.barred
    BY <1>2, RestTypes DEF Call, Free
  <1>4. Starts(c, h) /\ UNCHANGED <<tables, page, told, history>>
    BY <1>1 DEF Redeem
  <1> HIDE DEF h
  <1>5. /\ call' \in [Calls -> Call] /\ call'[c] = h /\ call[c].pc = "free"
        /\ \A d \in Calls \ {c} : call'[d] = call[d]
    BY <1>3, <1>4, StartsTypes DEF Inv, TypeOK
  <1>6. Decider(c)' /\ Redeemer(c)'
    BY <1>2, <1>3, <1>4, <1>5
       DEF Decider, Redeemer, Deciding, Unspoken, Redeeming, Claimed, Served, history
  <1>7. Owned'
    BY <1>4, <1>5, OwnedKept DEF Owning, tables, history, lapses
  <1> QED BY <1>3, <1>4, <1>5, <1>6, <1>7, NoLapse, HandlerStep
          DEF tables, history, Inv, TypeOK, Claimed, Asking

LEMMA UndoStep == ASSUME Inv, NEW c \in Calls, Undo(c) PROVE Inv'
  <1> DEFINE a == call[c].account
  <1>1. /\ call[c].pc = "undo" /\ Ends(c) /\ a \in Accounts
        /\ account' = [account EXCEPT ![a] = "deleted"]
        /\ memo' = {m \in memo : m.account # a}
        /\ UNCHANGED <<request, code, minted, suspended, page, told, history>>
    BY DEF Undo, At, Deleted, Inv, Deciders, Decider
  <1>2. /\ call' \in [Calls -> Call] /\ call'[c] = Free
        /\ Free.pc = "free" /\ Free.code = 0 /\ ~Free.barred
        /\ \A d \in Calls \ {c} : call'[d] = call[d]
    BY <1>1, EndsTypes DEF Inv, TypeOK
  <1>3. Decider(c)' /\ Redeemer(c)'
    BY <1>2 DEF Decider, Redeemer, Deciding, Unspoken, Redeeming, Claimed, Served
  <1>4. account' \in [Accounts -> {"none", "active", "deleted"}] /\ account'[a] = "deleted"
        /\ \A b \in Accounts \ {a} : account'[b] = account[b]
    BY <1>1 DEF Inv, TypeOK
  <1>5. Owned'
    BY <1>1, <1>2, <1>4 DEF Inv, Owned, history, lapses
  <1>6. memo' \subseteq [account: Accounts, key: Keys, code: Codes]
    BY <1>1 DEF Inv, TypeOK
  <1> QED BY <1>1, <1>2, <1>3, <1>4, <1>5, <1>6, NoLapse, HandlerStep
          DEF history, lapses, Inv, TypeOK, Claimed, Asking

(* An approval, with its account made, that turns back.                      *)
LEMMA UndoesStep ==
  ASSUME Inv, NEW c \in Calls, call[c].pc \in {"created", "accountMinted"}, Lapse,
         call' = [call EXCEPT ![c] = [call[c] EXCEPT !.pc = "undo"]],
         UNCHANGED <<tables, page, told, sessions, granted, renewed, acts>>
  PROVE  Inv'
  <1> DEFINE h == [call[c] EXCEPT !.pc = "undo"]
  <1>1. /\ h \in Call /\ h.pc = "undo" /\ h.account = call[c].account
        /\ h.code = call[c].code /\ h.barred = call[c].barred
    BY Fields DEF Inv, Call
  <1>2. call' = [call EXCEPT ![c] = h]
    OBVIOUS
  <1> HIDE DEF h
  <1>3. call' \in [Calls -> Call] /\ call'[c] = h /\ \A d \in Calls \ {c} : call'[d] = call[d]
    BY <1>1, <1>2 DEF Inv, TypeOK
  <1>4. call[c].account \in Accounts /\ ~call[c].barred
    <2>1. Decider(c) /\ Redeemer(c)
      BY DEF Inv, Deciders, Redeemers
    <2> QED BY <2>1 DEF Decider, Deciding, Redeemer
  <1>5. Decider(c)' /\ Redeemer(c)'
    BY <1>1, <1>3, <1>4 DEF Decider, Redeemer, Deciding, Unspoken, Redeeming, Claimed, Served
  <1>6. Owned'
    <2> SUFFICES ASSUME NEW a \in Accounts \ ({Household} \cup left), account[a] = "active"
                 PROVE  \/ \E d \in Calls : call'[d].account = a /\ call'[d].pc \in Owning
                        \/ \E g \in granted : g[2] <= minted /\ code[g[2]].account = a
      BY DEF Owned, tables, Lapse
    <2>1. CASE \E d \in Calls : call[d].account = a /\ call[d].pc \in Owning
      <3>1. PICK d \in Calls : call[d].account = a /\ call[d].pc \in Owning
        BY <2>1
      <3>2. call'[d].account = a /\ call'[d].pc \in Owning
        BY <1>1, <1>3, <3>1 DEF Owning
      <3> QED BY <3>2
    <2>2. CASE \E g \in granted : g[2] <= minted /\ code[g[2]].account = a
      BY <2>2
    <2> QED BY <2>1, <2>2 DEF Inv, Owned
  <1> QED BY <1>1, <1>3, <1>5, <1>6, HandlerStep DEF tables, Inv, TypeOK, Claimed, Asking

(* The handler whose approval came too late.                                 *)
LEMMA LosesStep ==
  ASSUME Inv, NEW c \in Calls, call[c].pc \in {"accountMinted", "attachMinted"},
         call' = [call EXCEPT ![c] = IF AfterLosing(call[c].pc) = "free" THEN Free
                                     ELSE [call[c] EXCEPT !.pc = AfterLosing(call[c].pc)]],
         UNCHANGED <<tables, page, told, history>>
  PROVE  Inv'
  <1>0. Lapse /\ UNCHANGED <<sessions, granted, renewed, acts>>
    BY NoLapse DEF history
  <1>1. CASE call[c].pc = "attachMinted"
    BY <1>0, <1>1, EndsStep DEF AfterLosing, Ends, Owning
  <1>2. CASE call[c].pc = "accountMinted"
    BY <1>0, <1>2, UndoesStep DEF AfterLosing
  <1> QED BY <1>1, <1>2

-----------------------------------------------------------------------------
(* The steps of nobody's handler that write no request: cards, time,         *)
(* deletion and suspension.                                                  *)

LEMMA IdleStep ==
  ASSUME Inv, TypeOK', UNCHANGED <<request, minted, call, sessions, granted, lapses>>,
         memo' \subseteq memo,
         \A r \in Requests : /\ page'[r] \in Unsent => page[r] \in Unsent
                             /\ page[r] = "asking" => page'[r] = "asking",
         told \subseteq told',
         \A k \in told' : k \in told \/ \E r \in Requests : request[r].code = k,
         suspended => suspended',
         \A k \in Codes : code'[k].used = code[k].used /\ code'[k].account = code[k].account,
         \A a \in Accounts : account'[a] = "active" => account[a] = "active"
  PROVE  Inv'
  <1>1. Rows'
    BY DEF Inv, Rows
  <1>2. Askers'
    <2> SUFFICES ASSUME NEW c \in Calls, call[c].pc \in Asking, call[c].request # NoRequest
                 PROVE  page'[call[c].request] = "asking"
      BY DEF Inv, Askers
    <2>1. page[call[c].request] = "asking" /\ call[c].request \in Requests
      BY Fields DEF Inv, Askers, Call
    <2> QED BY <2>1
  <1>3. Deciders'
    <2>1. ASSUME NEW d \in Calls PROVE Decider(d)'
      <3>1. call[d].pc \in Unspoken => Unshared(d)
        BY DEF Inv, Deciders, Decider
      <3>2. call[d].pc \in Unspoken =>
              /\ ~code'[call[d].code].used /\ call[d].code \notin told'
              /\ \A r \in Requests : request'[r].code # call[d].code
              /\ \A e \in Calls : e # d => call'[e].code # call[d].code
        BY <3>1, Fields DEF Inv, Unshared
      <3>3. minted <= minted' /\ \A k \in 1..minted : code'[k].account = code[k].account
        BY Fields DEF Inv
      <3>4. call[d].pc \in {"approved", "reissue", "reissueMinted"} =>
              \/ request'[call[d].request].status = "none"
              \/ /\ request[call[d].request].status # "none"
                 /\ request'[call[d].request].account = request[call[d].request].account
                 /\ request'[call[d].request].code = request[call[d].request].code
        OBVIOUS
      <3> QED BY <3>2, <3>3, <3>4, DeciderKept
    <2> QED BY <2>1 DEF Inv, Deciders
  <1>4. Redeemers'
    <2>1. ASSUME NEW d \in Calls PROVE Redeemer(d)'
      BY <2>1, Fields, RedeemerKept DEF Inv
    <2> QED BY <2>1 DEF Inv, Redeemers
  <1>5. Shown' /\ NamesItsAccount'
    BY Fields, Bounds DEF Inv, Shown, NamesItsAccount, Codes, lapses
  <1>6. Owned' /\ ApprovedOnce' /\ Coded'
    <2>1. \A g \in granted : g[2] \in Codes
      BY DEF Inv, TypeOK
    <2> QED BY <2>1 DEF Inv, Owned, ApprovedOnce, Coded, lapses
  <1> QED BY <1>1, <1>2, <1>3, <1>4, <1>5, <1>6 DEF Inv

LEMMA DeleteAccountStep == ASSUME Inv, DeleteAccount PROVE Inv'
  <1>1. PICK a \in Accounts : Deleted(a)
    BY DEF DeleteAccount
  <1>2. /\ UNCHANGED <<request, code, minted, suspended, page, told, call, sessions, granted, renewed>>
        /\ acts' \in 0..MaxActs /\ UNCHANGED lapses
    BY Bounds DEF DeleteAccount, Acts, Inv, TypeOK
  <1>3. /\ account' \in [Accounts -> {"none", "active", "deleted"}] /\ memo' \subseteq memo
        /\ \A b \in Accounts : account'[b] = "active" => account[b] = "active"
    BY <1>1 DEF Deleted, Inv, TypeOK
  <1>4. TypeOK'
    BY <1>2, <1>3 DEF Inv, TypeOK, lapses
  <1> QED BY <1>2, <1>3, <1>4, IdleStep

LEMMA SuspendStep == ASSUME Inv, Suspend PROVE Inv'
  <1>1. TypeOK'
    BY Bounds DEF Suspend, Acts, Inv, TypeOK, lapses
  <1> QED BY <1>1, IdleStep DEF Suspend

LEMMA CodeAgesStep == ASSUME Inv, NEW k \in Codes, CodeAges(k) PROVE Inv'
  <1> DEFINE moved == [code[k] EXCEPT !.late = TRUE]
  <1>1. moved \in Code /\ moved.used = code[k].used /\ moved.account = code[k].account
    BY Fields DEF Inv, Code
  <1>2. code' = [code EXCEPT ![k] = moved]
    BY DEF CodeAges
  <1> HIDE DEF moved
  <1>3. /\ code' \in [Codes -> Code]
        /\ \A j \in Codes : code'[j].used = code[j].used /\ code'[j].account = code[j].account
    BY <1>1, <1>2 DEF Inv, TypeOK
  <1>4. TypeOK'
    BY <1>3 DEF CodeAges, history, lapses, Inv, TypeOK
  <1> QED BY <1>3, <1>4, IdleStep DEF CodeAges, history

LEMMA WatchStep == ASSUME Inv, NEW r \in Requests, Watch(r) PROVE Inv'
  <1>1. /\ UNCHANGED <<tables, call, history>> /\ page[r] = "waiting"
        /\ page' \in [Requests -> {"new", "asking", "waiting", "offered", "withdrawing",
                                   "withdrawn", "over"}]
        /\ page'[r] \in {"offered", "over"} /\ \A q \in Requests \ {r} : page'[q] = page[q]
    BY DEF Watch, Inv, TypeOK
  <1>2. told' = told \/ (told' = told \cup {request[r].code} /\ request[r].code \in 1..minted)
    BY Fields DEF Watch, Inv, Rows, Open
  <1>3. told' \subseteq 1..minted'
    BY <1>1, <1>2 DEF tables, Inv, TypeOK
  <1>4. TypeOK'
    BY <1>1, <1>3 DEF tables, history, lapses, Inv, TypeOK
  <1> QED BY <1>1, <1>2, <1>4, IdleStep DEF tables, history, lapses, Unsent

LEMMA WithdrawStep == ASSUME Inv, NEW r \in Requests, Withdraw(r) PROVE Inv'
  <1>1. /\ UNCHANGED <<tables, told, call, history>>
        /\ page' \in [Requests -> {"new", "asking", "waiting", "offered", "withdrawing",
                                   "withdrawn", "over"}]
        /\ page[r] # "asking" /\ page'[r] = "withdrawing"
        /\ \A q \in Requests \ {r} : page'[q] = page[q]
    BY DEF Withdraw, Inv, TypeOK
  <1>2. TypeOK'
    BY <1>1 DEF tables, history, lapses, Inv, TypeOK
  <1> QED BY <1>1, <1>2, IdleStep DEF tables, history, lapses, Unsent

-----------------------------------------------------------------------------
(* The steps that write requests.                                            *)

LEMMA RejectStep == ASSUME Inv, NEW r \in Requests, Reject(r) PROVE Inv'
  <1> DEFINE moved == [request[r] EXCEPT !.status = "rejected"]
  <1>1. /\ moved \in Request /\ moved.code = request[r].code
        /\ moved.account = request[r].account /\ moved.status = "rejected"
    BY Fields DEF Inv, Request, Statuses, Refused
  <1>2. request' = [request EXCEPT ![r] = moved] /\ request[r].status = "pending"
    BY DEF Reject, MayResolve
  <1> HIDE DEF moved
  <1>3. request' \in [Requests -> Request] /\ request'[r] = moved
        /\ \A q \in Requests \ {r} : request'[q] = request[q]
    BY <1>1, <1>2 DEF Inv, TypeOK
  <1>4. /\ UNCHANGED <<page, code, minted, account, suspended, memo, told, call, history>>
    BY DEF Reject
  <1>5. \A q \in Requests : RowMoves(q)
    BY <1>1, <1>2, <1>3, <1>4 DEF RowMoves, Inv, Rows, Open
  <1>6. Shown' /\ Askers'
    BY <1>4, <1>5, ShownKept DEF Inv, Askers, history, lapses
  <1> QED BY <1>3, <1>4, <1>5, <1>6, NoLapse, RowsStep DEF Inv, TypeOK, history, lapses

LEMMA CancelStep == ASSUME Inv, NEW r \in Requests, Cancel(r) PROVE Inv'
  <1> DEFINE moved == IF MayResolve(request[r]) THEN [request[r] EXCEPT !.status = "canceled"]
                      ELSE request[r]
  <1>1. /\ moved \in Request /\ moved.code = request[r].code
        /\ moved.account = request[r].account
        /\ moved.status = request[r].status
             \/ (request[r].status = "pending" /\ moved.status = "canceled")
    BY Fields DEF Inv, Request, Statuses, Refused, MayResolve
  <1>2. request' = [request EXCEPT ![r] = moved]
    BY DEF Cancel
  <1> HIDE DEF moved
  <1>3. request' \in [Requests -> Request] /\ request'[r] = moved
        /\ \A q \in Requests \ {r} : request'[q] = request[q]
    BY <1>1, <1>2 DEF Inv, TypeOK
  <1>4. /\ UNCHANGED <<code, minted, account, suspended, memo, told, call, history>>
        /\ page' \in [Requests -> {"new", "asking", "waiting", "offered", "withdrawing",
                                   "withdrawn", "over"}]
        /\ page[r] = "withdrawing" /\ page'[r] = "withdrawn"
        /\ \A q \in Requests \ {r} : page'[q] = page[q]
    BY DEF Cancel, Inv, TypeOK
  <1>5. \A q \in Requests : RowMoves(q)
    BY <1>1, <1>3, <1>4 DEF RowMoves, Inv, Rows, Open, Unsent
  <1>6. Shown' /\ Askers'
    <2>1. Shown'
      BY <1>4, <1>5, ShownKept DEF history, lapses
    <2>2. \A c \in Calls : call[c].request # NoRequest => call[c].request \in Requests
      BY Fields DEF Inv, Call
    <2> QED BY <1>4, <2>1, <2>2 DEF Inv, Askers
  <1> QED BY <1>3, <1>4, <1>5, <1>6, NoLapse, RowsStep DEF history, lapses, Inv, TypeOK

LEMMA RequestAgesStep == ASSUME Inv, NEW r \in Requests, RequestAges(r) PROVE Inv'
  <1>1. PICK age \in {"late", "old"} : request' = [request EXCEPT ![r].age = age]
    BY DEF RequestAges
  <1> DEFINE moved == [request[r] EXCEPT !.age = age]
  <1>2. /\ moved \in Request /\ moved.code = request[r].code
        /\ moved.account = request[r].account /\ moved.status = request[r].status
    BY Fields DEF Inv, Request
  <1>3. request' = [request EXCEPT ![r] = moved]
    BY <1>1
  <1> HIDE DEF moved
  <1>4. request' \in [Requests -> Request] /\ request'[r] = moved
        /\ \A q \in Requests \ {r} : request'[q] = request[q]
    BY <1>2, <1>3 DEF Inv, TypeOK
  <1>5. UNCHANGED <<page, code, minted, account, suspended, memo, told, call, history>>
    BY DEF RequestAges
  <1>6. \A q \in Requests : RowMoves(q)
    BY <1>2, <1>4, <1>5 DEF RowMoves, Inv, Rows
  <1>7. Shown' /\ Askers'
    BY <1>5, <1>6, ShownKept DEF Inv, Askers, history, lapses
  <1> QED BY <1>4, <1>5, <1>6, <1>7, NoLapse, RowsStep DEF Inv, TypeOK, history, lapses

(* A request's handler that goes on.                                         *)
LEMMA AskerGoes ==
  ASSUME Inv, NEW c \in Calls, call[c].pc \in {"expire", "prune"},
         NEW pc \in {"prune", "insert"}, Goes(c, pc), UNCHANGED <<page, told, suspended>>
  PROVE  /\ call' \in [Calls -> Call] /\ Turns(c) /\ call[c].pc # "claimed"
         /\ \A d \in Calls : d # c => call'[d] = call[d]
         /\ Askers'
  <1>1. /\ call' \in [Calls -> Call] /\ call'[c].pc = pc
        /\ call'[c].request = call[c].request /\ call'[c].code = call[c].code
        /\ call'[c].barred = call[c].barred
        /\ \A d \in Calls \ {c} : call'[d] = call[d]
    BY GoesTypes DEF Inv, TypeOK
  <1>2. ~call[c].barred
    BY DEF Inv, Redeemers, Redeemer
  <1>3. Redeemer(c)'
    BY <1>1, <1>2 DEF Redeemer, Redeeming, Claimed, Served
  <1>4. Turns(c)
    BY <1>1, <1>3 DEF Turns, Asking
  <1>5. Askers'
    BY <1>1 DEF Inv, Askers, Asking
  <1> QED BY <1>1, <1>4, <1>5

LEMMA ExpireStep == ASSUME Inv, NEW c \in Calls, ExpirePendingDevices(c) PROVE Inv'
  <1>1. /\ call[c].pc = "expire" /\ Goes(c, "prune")
        /\ UNCHANGED <<page, code, minted, account, suspended, memo, told, history>>
    BY DEF ExpirePendingDevices, At
  <1>2. /\ call' \in [Calls -> Call] /\ Turns(c)
        /\ \A d \in Calls : d # c => call'[d] = call[d]
        /\ Askers'
    BY <1>1, AskerGoes
  <1>3. ASSUME NEW r \in Requests
        PROVE  /\ request'[r] \in Request
               /\ request'[r].code = request[r].code /\ request'[r].account = request[r].account
               /\ request'[r].status = request[r].status
                    \/ (request[r].status = "pending" /\ request'[r].status = "expired")
    <2> DEFINE late == [request[r] EXCEPT !.status = "expired"]
    <2>1. /\ late \in Request /\ late.code = request[r].code
          /\ late.account = request[r].account /\ late.status = "expired"
      BY Fields DEF Inv, Request, Statuses, Refused
    <2>2. \/ request'[r] = request[r]
          \/ request[r].status = "pending" /\ request'[r] = late
      BY DEF ExpirePendingDevices
    <2> HIDE DEF late
    <2> QED BY <2>1, <2>2, Fields DEF Inv
  <1>4. request' \in [Requests -> Request]
    <2>1. request' = [r \in Requests |-> request'[r]]
      BY DEF ExpirePendingDevices
    <2> QED BY <1>3, <2>1
  <1>5. \A r \in Requests : RowMoves(r)
    BY <1>1, <1>3 DEF RowMoves, Inv, Rows, Open
  <1>6. Shown'
    BY <1>1, <1>2, <1>5, ShownKept DEF history, lapses
  <1> QED BY <1>1, <1>2, <1>4, <1>5, <1>6, NoLapse, RowsStep DEF history, lapses, Inv, TypeOK

LEMMA PruneStep == ASSUME Inv, NEW c \in Calls, PruneRetired(c) PROVE Inv'
  <1>1. /\ call[c].pc = "prune" /\ Goes(c, "insert")
        /\ UNCHANGED <<page, code, minted, account, suspended, memo, told, history>>
    BY DEF PruneRetired, At
  <1>2. /\ call' \in [Calls -> Call] /\ Turns(c)
        /\ \A d \in Calls : d # c => call'[d] = call[d]
        /\ Askers'
    BY <1>1, AskerGoes
  <1>3. /\ request' \in [Requests -> Request]
        /\ \A r \in Requests : request'[r] \in {request[r], NoRow}
    BY RestTypes DEF PruneRetired, Inv, TypeOK
  <1>4. \A r \in Requests : RowMoves(r)
    BY <1>1, <1>3 DEF RowMoves, Inv, Rows, NoRow
  <1>5. Shown'
    BY <1>1, <1>2, <1>4, ShownKept DEF history, lapses
  <1> QED BY <1>1, <1>2, <1>3, <1>4, <1>5, NoLapse, RowsStep DEF history, lapses, Inv, TypeOK

LEMMA InsertStep == ASSUME Inv, NEW c \in Calls, Insert(c) PROVE Inv'
  <1> DEFINE r == call[c].request
             row == [NoRow EXCEPT !.status = "pending"]
  <1>1. /\ call[c].pc = "insert" /\ r # NoRequest /\ Ends(c)
        /\ request' = [request EXCEPT ![r] = row]
        /\ page' = [page EXCEPT ![r] = "waiting"]
        /\ UNCHANGED <<code, minted, account, suspended, memo, told, history>>
    BY DEF Insert, At
  <1>2. row \in Request /\ row.code = 0 /\ row.account = NoAccount /\ row.status = "pending"
    BY RestTypes DEF Request, NoRow, Statuses, Undecided
  <1> HIDE DEF row
  <1>3. r \in Requests /\ page[r] = "asking"
    BY <1>1, Fields DEF Inv, Askers, Asking, Call
  <1>4. request[r].status = "none" /\ request[r].code = 0 /\ request[r].account = NoAccount
    BY <1>3 DEF Inv, Rows, Unsent, Open
  <1>5. /\ request' \in [Requests -> Request] /\ request'[r] = row
        /\ \A q \in Requests \ {r} : request'[q] = request[q]
        /\ page' \in [Requests -> {"new", "asking", "waiting", "offered", "withdrawing",
                                   "withdrawn", "over"}]
        /\ page'[r] = "waiting" /\ \A q \in Requests \ {r} : page'[q] = page[q]
    BY <1>1, <1>2, <1>3 DEF Inv, TypeOK
  <1>6. \A q \in Requests : RowMoves(q)
    BY <1>2, <1>3, <1>4, <1>5 DEF RowMoves, Inv, Rows, Open, Unsent
  <1>7. /\ call' \in [Calls -> Call] /\ call'[c] = Free
        /\ Free.pc = "free" /\ Free.code = 0 /\ ~Free.barred
        /\ \A d \in Calls \ {c} : call'[d] = call[d]
    BY <1>1, EndsTypes DEF Inv, TypeOK
  <1>8. Turns(c)
    BY <1>1, <1>7 DEF Turns, Redeemer, Redeeming, Claimed, Served, Asking
  <1>9. Askers'
    <2> SUFFICES ASSUME NEW d \in Calls, call'[d].pc \in Asking, call'[d].request # NoRequest
                 PROVE  page'[call'[d].request] = "asking"
      BY <1>7 DEF Inv, Askers, Asking
    <2>1. d # c /\ call'[d] = call[d] /\ call[d].request \in Requests
      BY <1>7, Fields DEF Asking, Inv, Call
    <2>2. call[d].request # r /\ page[call[d].request] = "asking"
      BY <1>1, <2>1 DEF Inv, Askers, Asking
    <2> QED BY <1>5, <2>1, <2>2
  <1>10. Shown'
    BY <1>1, <1>6, <1>7, ShownKept DEF history, lapses
  <1> QED BY <1>1, <1>5, <1>6, <1>7, <1>8, <1>9, <1>10, NoLapse, RowsStep DEF history, lapses

LEMMA MarkStep == ASSUME Inv, NEW c \in Calls, Mark(c) PROVE Inv'
  <1>1. /\ call[c].pc = "claimed" /\ Goes(c, "marked")
        /\ UNCHANGED <<page, code, minted, account, suspended, memo, told, history>>
    BY DEF Mark, At
  <1>2. /\ call' \in [Calls -> Call] /\ call'[c].pc = "marked"
        /\ call'[c].request = call[c].request /\ call'[c].account = call[c].account
        /\ call'[c].code = call[c].code /\ call'[c].key = call[c].key
        /\ call'[c].barred = call[c].barred
        /\ \A d \in Calls \ {c} : call'[d] = call[d]
    BY <1>1, GoesTypes DEF Inv, TypeOK
  <1>3. Redeemer(c)'
    BY <1>1, <1>2 DEF Inv, Redeemers, Redeemer, Redeeming, Claimed, Served, history, lapses
  <1>4. Turns(c)
    BY <1>1, <1>2, <1>3 DEF Turns
  <1>5. ASSUME NEW r \in Requests
        PROVE  /\ request'[r] \in Request
               /\ request'[r].code = request[r].code /\ request'[r].account = request[r].account
               /\ IF MarkedBy(request[r], call[c].code) THEN request'[r].status = "redeemed"
                                                        ELSE request'[r] = request[r]
    <2> DEFINE marked == [request[r] EXCEPT !.status = "redeemed"]
    <2>1. /\ marked \in Request /\ marked.code = request[r].code
          /\ marked.account = request[r].account /\ marked.status = "redeemed"
      BY Fields DEF Inv, Request, Statuses
    <2>2. request'[r] = IF MarkedBy(request[r], call[c].code) THEN marked ELSE request[r]
      BY DEF Mark
    <2> HIDE DEF marked
    <2> QED BY <2>1, <2>2, Fields DEF Inv
  <1>6. request' \in [Requests -> Request]
    <2>1. request' = [r \in Requests |-> request'[r]]
      BY DEF Mark
    <2> QED BY <1>5, <2>1
  <1>7. \A r \in Requests : RowMoves(r)
    BY <1>1, <1>5 DEF RowMoves, Inv, Rows, Open, MarkedBy
  <1>8. Askers'
    BY <1>1, <1>2 DEF Inv, Askers, Asking
  <1>9. Shown'
    <2> SUFFICES ASSUME NEW r \in Requests,
                        request'[r].code # 0, code'[request'[r].code].used,
                        request'[r].code \notin unmarked', request'[r].status # "redeemed"
                 PROVE  \E d \in Calls : call'[d].pc = "claimed" /\ call'[d].code = request'[r].code
      BY DEF Shown
    <2>1. request'[r] = request[r] /\ ~MarkedBy(request[r], call[c].code)
      BY <1>5
    <2>2. PICK d \in Calls : call[d].pc = "claimed" /\ call[d].code = request[r].code
      BY <1>1, <2>1 DEF Inv, Shown, history, lapses
    <2>3. request[r].status = "approved"
      BY <2>1 DEF Inv, Rows, Open
    <2>4. d # c
      BY <2>1, <2>2, <2>3 DEF MarkedBy
    <2> QED BY <1>2, <2>1, <2>2, <2>4
  <1> QED BY <1>1, <1>2, <1>4, <1>6, <1>7, <1>8, <1>9, NoLapse, RowsStep DEF history, lapses, Inv, TypeOK

LEMMA RequestBeginStep ==
  ASSUME Inv, NEW c \in Calls, NEW r \in Requests, RequestBegin(c, r)
  PROVE  Inv'
  <1> DEFINE h == [Free EXCEPT !.pc = "expire", !.request = r]
  <1>1. /\ h \in Call /\ h.pc = "expire" /\ h.request = r /\ h.code = 0 /\ ~h.barred
    BY RestTypes DEF Call, Free
  <1>2. Starts(c, h) /\ page[r] = "new" /\ page' = [page EXCEPT ![r] = "asking"]
        /\ UNCHANGED <<tables, told, history>>
    BY DEF RequestBegin
  <1> HIDE DEF h
  <1>3. /\ call' \in [Calls -> Call] /\ call'[c] = h /\ call[c].pc = "free"
        /\ \A d \in Calls \ {c} : call'[d] = call[d]
    BY <1>1, <1>2, StartsTypes DEF Inv, TypeOK
  <1>4. /\ page' \in [Requests -> {"new", "asking", "waiting", "offered", "withdrawing",
                                   "withdrawn", "over"}]
        /\ page'[r] = "asking" /\ \A q \in Requests \ {r} : page'[q] = page[q]
    BY <1>2 DEF Inv, TypeOK
  <1>5. TypeOK'
    BY <1>2, <1>3, <1>4 DEF tables, history, lapses, Inv, TypeOK
  <1>6. Decider(c)' /\ Redeemer(c)'
    BY <1>1, <1>3 DEF Decider, Redeemer, Deciding, Unspoken, Redeeming, Claimed, Served
  <1>7. Owned'
    BY <1>2, <1>3, OwnedKept DEF Owning, tables, history, lapses
  <1>8. Askers'
    <2>1. \A d \in Calls \ {c} : call[d].pc \in Asking /\ call[d].request # NoRequest
            => /\ call[d].request \in Requests \ {r} /\ page[call[d].request] = "asking"
               /\ call'[d] = call[d]
      BY <1>2, <1>3, Fields DEF Inv, Askers, Call
    <2> QED BY <1>1, <1>3, <1>4, <2>1 DEF Inv, Askers
  <1>9. Shown'
    BY <1>2, <1>3 DEF Inv, Shown, tables, history, lapses
  <1>10. Redeemers'
    <2>1. ASSUME NEW d \in Calls \ {c} PROVE Redeemer(d)'
      BY <1>2, <1>3, <2>1, RedeemerKept DEF tables, history, lapses
    <2>2. \A d, e \in Calls :
            call'[d].pc \in Claimed /\ call'[e].pc \in Claimed
              /\ call'[d].code = call'[e].code => d = e
      BY <1>1, <1>3 DEF Inv, Redeemers, Claimed
    <2>3. /\ \A k \in Codes : sessions'[k] # 0 => sessions'[k] = 1 /\ k <= minted' /\ code'[k].used
          /\ \A m \in memo' : sessions'[m.code] = 1
      BY <1>2 DEF Inv, Redeemers, tables, history
    <2> QED BY <1>6, <2>1, <2>2, <2>3 DEF Redeemers
  <1>11. /\ UNCHANGED <<request, minted, told, granted, code>>
         /\ \A q \in Requests : page'[q] \in Unsent <=> page[q] \in Unsent
    BY <1>2, <1>4 DEF tables, history, lapses, Unsent
  <1> QED BY <1>1, <1>3, <1>5, <1>6, <1>7, <1>8, <1>9, <1>10, <1>11, CoreStep

-----------------------------------------------------------------------------
(* Claim and session.                                                        *)

LEMMA IssueStep == ASSUME Inv, NEW c \in Calls, Issue(c) PROVE Inv'
  <1> DEFINE k == call[c].code
  <1>0. /\ call[c].pc = "cleared" /\ UNCHANGED <<tables, page, told, granted, renewed, lapses, acts>>
        /\ Redeemer(c) /\ ~call[c].barred /\ k \in Codes /\ k <= minted
        /\ code[k].used /\ sessions[k] = 0 /\ Lapse
    BY Fields, NoLapse DEF Issue, Inv, Redeemers, Redeemer, Redeeming, Claimed, Served
  <1>1. CASE Goes(c, "refused") /\ UNCHANGED sessions
    BY <1>0, <1>1, GoesStep DEF tables, Inv, TypeOK
  <1>2. CASE Goes(c, "issued") /\ sessions' = [sessions EXCEPT ![k] = @ + 1]
    <2>1. /\ call' \in [Calls -> Call] /\ call'[c].pc = "issued"
          /\ call'[c].request = call[c].request /\ call'[c].account = call[c].account
          /\ call'[c].code = k /\ call'[c].key = call[c].key
          /\ call'[c].barred = call[c].barred
          /\ \A d \in Calls \ {c} : call'[d] = call[d]
      BY <1>2, GoesTypes DEF Inv, TypeOK
    <2>2. /\ sessions' \in [Codes -> Nat] /\ sessions'[k] = 1
          /\ \A j \in Codes \ {k} : sessions'[j] = sessions[j]
      BY <1>0, <1>2 DEF Inv, TypeOK
    <2>3. TypeOK'
      BY <1>0, <2>1, <2>2 DEF tables, lapses, Inv, TypeOK
    <2>4. Decider(c)'
      BY <2>1 DEF Decider, Deciding, Unspoken
    <2>5. Redeemers'
      <3>1. Redeemer(c)'
        BY <1>0, <2>1, <2>2 DEF Redeemer, Redeeming, Claimed, Served
      <3>2. ASSUME NEW d \in Calls \ {c} PROVE Redeemer(d)'
        <4>1. call[d].pc \in Claimed \cup Served => call[d].code # k /\ call[d].code \in Codes
          BY <1>0, Fields DEF Inv, Redeemers, Redeemer, Redeeming, Claimed, Served
        <4> QED BY <1>0, <2>1, <2>2, <3>2, <4>1, RedeemerKept DEF tables
      <3>3. \A d, e \in Calls :
              call'[d].pc \in Claimed /\ call'[e].pc \in Claimed
                /\ call'[d].code = call'[e].code => d = e
        BY <2>1 DEF Inv, Redeemers, Claimed
      <3>4. /\ \A j \in Codes : sessions'[j] # 0 => sessions'[j] = 1 /\ j <= minted' /\ code'[j].used
            /\ \A m \in memo' : sessions'[m.code] = 1
        BY <1>0, <2>2 DEF Inv, TypeOK, Redeemers, tables
      <3> QED BY <3>1, <3>2, <3>3, <3>4 DEF Redeemers
    <2>6. Askers' /\ Shown'
      BY <1>0, <2>1 DEF Inv, Askers, Shown, tables, Asking, lapses
    <2>7. Owned'
      BY <1>0, <2>1, OwnedKept DEF Owning, lapses, tables
    <2>8. UNCHANGED <<request, minted, told, granted, page, code>>
      BY <1>0 DEF tables
    <2> QED BY <2>1, <2>3, <2>4, <2>5, <2>6, <2>7, <2>8, CoreStep
  <1> QED BY <1>1, <1>2 DEF Issue

LEMMA ClaimStep == ASSUME Inv, NEW c \in Calls, Claim(c) PROVE Inv'
  <1> DEFINE k == call[c].code
             a == code[k].account
             barred == suspended /\ a = Household
  <1>0. /\ call[c].pc = "asked" /\ Redeemer(c) /\ ~call[c].barred
        /\ k \in Codes /\ k <= minted /\ k \in told /\ a \in Accounts
        /\ call[c].key \in Keys \cup {NoKey}
        /\ UNCHANGED <<request, minted, account, suspended, memo, page, told, history>> /\ Lapse
    BY Fields, NoLapse DEF Claim, Inv, Redeemers, Redeemer, Redeeming, history
  <1>1. CASE Goes(c, "refused") /\ UNCHANGED code
    BY <1>0, <1>1, GoesStep DEF Inv, TypeOK, history
  <1>2. CASE /\ MayClaim(code[k], call[c].timely)
             /\ code' = [code EXCEPT ![k].used = TRUE]
             /\ call' = [call EXCEPT ![c].pc = "claimed", ![c].account = a, ![c].barred = barred]
    <2> DEFINE row == [code[k] EXCEPT !.used = TRUE]
               h == [call[c] EXCEPT !.pc = "claimed", !.account = a, !.barred = barred]
    <2>1. row \in Code /\ row.used /\ row.account = a
      BY <1>0, Fields DEF Inv, Code
    <2>2. code' = [code EXCEPT ![k] = row]
      BY <1>2
    <2>3. barred \in BOOLEAN
      BY DEF Inv, TypeOK
    <2>4. /\ h \in Call /\ h.pc = "claimed" /\ h.account = a /\ h.barred = barred
          /\ h.code = k /\ h.key = call[c].key
      BY <1>0, <2>3, Fields DEF Inv, Call
    <2>5. call' = [call EXCEPT ![c] = h]
      BY <1>2
    <2> HIDE DEF row, h
    <2>6. /\ code' \in [Codes -> Code] /\ code'[k].used /\ code'[k].account = a
          /\ \A j \in Codes \ {k} : code'[j] = code[j]
      BY <1>0, <2>1, <2>2 DEF Inv, TypeOK
    <2>7. /\ call' \in [Calls -> Call] /\ call'[c] = h
          /\ \A d \in Calls \ {c} : call'[d] = call[d]
      BY <2>4, <2>5 DEF Inv, TypeOK
    <2>8. \A j \in Codes : code'[j].account = code[j].account
      BY <2>6
    <2>9. TypeOK'
      BY <1>0, <2>6, <2>7, <2>8 DEF history, lapses, Inv, TypeOK
    <2>10. Decider(c)'
      BY <2>4, <2>7 DEF Decider, Deciding, Unspoken
    <2>11. ~code[k].used /\ sessions[k] = 0
      BY <1>0, <1>2 DEF MayClaim, Inv, Redeemers
    <2>12. Redeemers'
      <3>1. Redeemer(c)'
        BY <1>0, <2>4, <2>6, <2>7, <2>11 DEF Redeemer, Redeeming, Claimed, Served, history, lapses
      <3>2. ASSUME NEW d \in Calls \ {c} PROVE Redeemer(d)'
        <4>1. \A j \in 1..minted : code[j].used => code'[j].used
          BY <2>6, Fields DEF Inv
        <4> QED BY <1>0, <2>7, <3>2, <4>1, RedeemerKept DEF history, lapses
      <3>3. \A d \in Calls : call[d].pc \in Claimed => call[d].code # k
        BY <2>11 DEF Inv, Redeemers, Redeemer
      <3>4. \A d, e \in Calls :
              call'[d].pc \in Claimed /\ call'[e].pc \in Claimed
                /\ call'[d].code = call'[e].code => d = e
        BY <2>4, <2>7, <3>3 DEF Inv, Redeemers
      <3>5. /\ \A j \in Codes : sessions'[j] # 0 => sessions'[j] = 1 /\ j <= minted' /\ code'[j].used
            /\ \A m \in memo' : sessions'[m.code] = 1
        BY <1>0, <2>6 DEF Inv, Redeemers, history
      <3> QED BY <3>1, <3>2, <3>4, <3>5 DEF Redeemers
    <2>13. Askers'
      BY <1>0, <2>4, <2>7 DEF Inv, Askers, Asking
    <2>14. Shown'
      <3> SUFFICES ASSUME NEW r \in Requests, request[r].code # 0,
                          code'[request[r].code].used, request[r].code \notin unmarked,
                          request[r].status # "redeemed"
                   PROVE  \E d \in Calls : call'[d].pc = "claimed" /\ call'[d].code = request[r].code
        BY <1>0 DEF Shown, Lapse
      <3>1. CASE request[r].code = k
        BY <2>4, <2>7, <3>1
      <3>2. CASE request[r].code # k
        <4>1. request[r].code \in Codes
          BY Fields, Bounds DEF Inv, Codes
        <4>2. PICK d \in Calls : call[d].pc = "claimed" /\ call[d].code = request[r].code
          BY <2>6, <3>2, <4>1 DEF Inv, Shown
        <4> QED BY <1>0, <2>7, <4>2
      <3> QED BY <3>1, <3>2
    <2>15. Owned'
      <3>1. \A g \in granted : g[2] \in Codes
        BY DEF Inv, TypeOK
      <3> QED BY <1>0, <2>7, <2>8, <3>1 DEF Inv, Owned, Owning, history, lapses
    <2>16. /\ \A j \in Codes : code'[j].used => code[j].used \/ j \in told
           /\ call'[c].pc # "approved" /\ call'[c].code = call[c].code
           /\ UNCHANGED <<request, minted, told, granted, page>>
      BY <1>0, <2>4, <2>6, <2>7 DEF history, lapses
    <2> QED BY <2>7, <2>8, <2>9, <2>10, <2>12, <2>13, <2>14, <2>15, <2>16, CoreStep
  <1> QED BY <1>1, <1>2 DEF Claim

-----------------------------------------------------------------------------
(* Minting.                                                                  *)

(* What a new code changes, and what it leaves.                              *)
LEMMA Minting ==
  ASSUME Inv, NEW a \in Accounts, minted < MaxCodes, minted' = minted + 1,
         code' = [code EXCEPT ![minted + 1] = [NoCode EXCEPT !.account = a]]
  PROVE  /\ minted + 1 \in Codes /\ minted + 1 \notin told
         /\ minted' \in 0..MaxCodes /\ code' \in [Codes -> Code]
         /\ code'[minted + 1].account = a /\ ~code'[minted + 1].used
         /\ \A k \in Codes \ {minted + 1} : code'[k] = code[k]
         /\ \A k \in 1..minted : code'[k] = code[k]
         /\ \A k \in Codes : code'[k].account = NoAccount <=> k > minted'
         /\ \A r \in Requests : request[r].code # minted + 1
         /\ \A c \in Calls : call[c].code # minted + 1
         /\ minted \in Nat /\ minted' \in Nat
  <1> DEFINE row == [NoCode EXCEPT !.account = a]
  <1>1. row \in Code /\ row.account = a /\ ~row.used
    BY DEF NoCode, Code
  <1>2. code' = [code EXCEPT ![minted + 1] = row]
    OBVIOUS
  <1> HIDE DEF row
  <1>3. /\ minted \in Nat /\ minted + 1 \in Codes /\ minted + 1 \notin told
        /\ minted' \in 0..MaxCodes /\ minted' \in Nat
    <2>1. minted \in Nat /\ \A k \in told : k \in 1..minted
      BY Fields DEF Inv
    <2> QED BY <2>1, Bounds DEF Codes
  <1>4. /\ code' \in [Codes -> Code] /\ code'[minted + 1] = row
        /\ \A k \in Codes \ {minted + 1} : code'[k] = code[k]
    BY <1>1, <1>2, <1>3 DEF Inv, TypeOK
  <1>5. \A k \in 1..minted : k \in Codes /\ code'[k] = code[k]
    BY <1>3, <1>4, Fields DEF Inv
  <1>6. \A k \in Codes : code'[k].account = NoAccount <=> k > minted'
    BY <1>1, <1>3, <1>4, Bounds DEF Inv, TypeOK, Codes
  <1>7. /\ \A r \in Requests : request[r].code # minted + 1
        /\ \A c \in Calls : call[c].code # minted + 1
    BY <1>3, Fields DEF Inv, Rows, Coded
  <1> QED BY <1>1, <1>3, <1>4, <1>5, <1>6, <1>7

(* What ApproveMint, AttachMint, ReissueMint and PortalMint have in common.  *)
Mints(a) ==
  /\ minted < MaxCodes /\ minted' = minted + 1
  /\ code' = [code EXCEPT ![minted + 1] = [NoCode EXCEPT !.account = a]]
  /\ UNCHANGED <<request, account, suspended, memo, page, sessions, granted, lapses>>
  /\ told \subseteq told' /\ \A k \in told' : k \in told \/ k = minted + 1
  /\ \A d \in Calls :
       \/ call'[d] = call[d]
       \/ /\ call[d].pc \in {"created", "found", "reissue"} /\ call'[d].pc \in Unspoken
          /\ call'[d].code = minted + 1

LEMMA MintKeeps ==
  ASSUME Inv, NEW a \in Accounts, Mints(a)
  PROVE  /\ Rows' /\ Askers' /\ Shown' /\ Coded' /\ ApprovedOnce' /\ NamesItsAccount'
         /\ \A k \in Codes : sessions'[k] # 0 => sessions'[k] = 1 /\ k <= minted' /\ code'[k].used
         /\ \A m \in memo' : sessions'[m.code] = 1
  <1>1. /\ minted \in Nat /\ minted' = minted + 1
        /\ \A k \in 1..minted : code'[k] = code[k]
        /\ UNCHANGED <<request, account, suspended, memo, page, sessions, granted, lapses>>
    BY Minting DEF Mints
  <1>2. Rows' /\ ApprovedOnce'
    <2>1. \A r \in Requests : request[r].code \in Nat
      BY Fields, Bounds DEF Inv
    <2> QED BY <1>1, <2>1 DEF Inv, Rows, ApprovedOnce
  <1>3. Askers'
    BY <1>1 DEF Inv, Askers, Mints, Asking, Unspoken
  <1>4. \A r \in Requests : request[r].code # 0 => request[r].code \in 1..minted
    BY <1>1, Fields DEF Inv, Rows
  <1>5. Shown'
    <2> SUFFICES ASSUME NEW r \in Requests, request[r].code # 0,
                        code'[request[r].code].used, request[r].code \notin unmarked,
                        request[r].status # "redeemed"
                 PROVE  \E d \in Calls : call'[d].pc = "claimed" /\ call'[d].code = request[r].code
      BY <1>1 DEF Shown, lapses
    <2>1. PICK d \in Calls : call[d].pc = "claimed" /\ call[d].code = request[r].code
      BY <1>1, <1>4 DEF Inv, Shown
    <2> QED BY <2>1 DEF Mints
  <1>6. Coded'
    BY <1>1, Fields DEF Inv, Coded, Mints
  <1>7. NamesItsAccount'
    BY <1>1, <1>4 DEF Inv, NamesItsAccount
  <1>8. \A k \in Codes : sessions'[k] # 0 => sessions'[k] = 1 /\ k <= minted' /\ code'[k].used
    <2> SUFFICES ASSUME NEW k \in Codes, sessions[k] # 0
                 PROVE  sessions[k] = 1 /\ k <= minted' /\ code'[k].used
      BY <1>1
    <2>1. sessions[k] = 1 /\ k <= minted /\ code[k].used /\ k \in 1..minted
      BY <1>1 DEF Inv, Redeemers, Codes
    <2> QED BY <1>1, <2>1
  <1>9. \A m \in memo' : sessions'[m.code] = 1
    BY <1>1 DEF Inv, Redeemers
  <1> QED BY <1>2, <1>3, <1>5, <1>6, <1>7, <1>8, <1>9

LEMMA MintOthers ==
  ASSUME Inv, NEW a \in Accounts, Mints(a), TypeOK', NEW d \in Calls, call'[d] = call[d]
  PROVE  Decider(d)' /\ Redeemer(d)'
  <1>1. /\ minted \in Nat /\ minted' = minted + 1 /\ call[d].code # minted + 1
        /\ \A k \in 1..minted : code'[k] = code[k]
        /\ UNCHANGED <<request, account, suspended, memo, page, sessions, granted, lapses>>
    BY Minting DEF Mints
  <1>2. call[d].pc \in Unspoken => Unshared(d)
    BY DEF Inv, Deciders, Decider
  <1>3. call[d].pc \in Unspoken =>
          /\ ~code'[call[d].code].used /\ call[d].code \notin told'
          /\ \A r \in Requests : request'[r].code # call[d].code
    BY <1>1, <1>2 DEF Unshared, Mints
  <1>4. call[d].pc \in Unspoken => \A e \in Calls : e # d => call'[e].code # call[d].code
    BY <1>1, <1>2 DEF Unshared, Mints
  <1>5. minted <= minted' /\ \A k \in 1..minted : code'[k].account = code[k].account
    BY <1>1
  <1>6. Decider(d)'
    BY <1>1, <1>3, <1>4, <1>5, DeciderKept
  <1>7. Redeemer(d)'
    BY <1>1, RedeemerKept DEF Mints
  <1> QED BY <1>6, <1>7

(* A handler mints and goes on.                                              *)
LEMMA MintStep ==
  ASSUME Inv, NEW c \in Calls, NEW pc \in Unspoken, Mint(c, call[c].account, pc),
         call[c].pc \in {"created", "found", "reissue"},
         call[c].pc = "created" => pc = "accountMinted",
         call[c].pc = "reissue" <=> pc = "reissueMinted",
         UNCHANGED <<request, account, suspended, memo, page, told, history>>
  PROVE  Inv'
  <1> DEFINE a == call[c].account
             h == [call[c] EXCEPT !.pc = pc, !.code = minted + 1]
  <1>1. Decider(c) /\ a \in Accounts /\ ~call[c].barred /\ call[c].request \in Requests
    BY DEF Inv, Deciders, Decider, Deciding, Redeemers, Redeemer
  <1>2. /\ minted + 1 \in Codes /\ minted + 1 \notin told
        /\ minted' \in 0..MaxCodes /\ code' \in [Codes -> Code]
        /\ code'[minted + 1].account = a /\ ~code'[minted + 1].used
        /\ \A k \in 1..minted : code'[k] = code[k]
        /\ \A k \in Codes : code'[k].account = NoAccount <=> k > minted'
        /\ \A r \in Requests : request[r].code # minted + 1
        /\ \A d \in Calls : call[d].code # minted + 1
        /\ minted \in Nat /\ minted' = minted + 1
    BY <1>1, Minting DEF Mint
  <1>3. /\ h \in Call /\ h.pc = pc /\ h.code = minted + 1 /\ h.account = a
        /\ h.request = call[c].request /\ h.barred = call[c].barred
    <2>1. call[c] \in Call /\ minted + 1 \in 0..MaxCodes
      BY <1>2, Fields, Bounds DEF Inv
    <2> QED BY <2>1 DEF Call, Unspoken
  <1>4. call' = [call EXCEPT ![c] = h]
    BY DEF Mint
  <1> HIDE DEF h
  <1>5. /\ call' \in [Calls -> Call] /\ call'[c] = h
        /\ \A d \in Calls \ {c} : call'[d] = call[d]
    BY <1>3, <1>4 DEF Inv, TypeOK
  <1>6. Mints(a)
    BY <1>3, <1>5 DEF Mints, Mint, history, lapses
  <1>7. TypeOK'
    <2>1. told' \subseteq 1..minted'
      BY <1>2 DEF Inv, TypeOK
    <2> QED BY <1>2, <1>5, <2>1 DEF history, lapses, Inv, TypeOK
  <1>8. \A d \in Calls \ {c} : Decider(d)' /\ Redeemer(d)'
    BY <1>1, <1>5, <1>6, <1>7, MintOthers
  <1>9. Decider(c)'
    <2>1. Unshared(c)'
      BY <1>2, <1>3, <1>5 DEF Unshared
    <2> QED BY <1>1, <1>3, <1>5, <2>1 DEF Decider, Deciding, Unspoken
  <1>10. Redeemer(c)'
    BY <1>1, <1>3, <1>5 DEF Redeemer, Redeeming, Claimed, Served, Unspoken
  <1>11. /\ Rows' /\ Askers' /\ Shown' /\ Coded' /\ ApprovedOnce' /\ NamesItsAccount'
         /\ \A k \in Codes : sessions'[k] # 0 => sessions'[k] = 1 /\ k <= minted' /\ code'[k].used
         /\ \A m \in memo' : sessions'[m.code] = 1
    BY <1>1, <1>6, MintKeeps
  <1>12. Deciders'
    BY <1>3, <1>5, <1>8, <1>9 DEF Inv, Deciders, Unspoken
  <1>13. Redeemers'
    <2>1. \A d, e \in Calls :
            call'[d].pc \in Claimed /\ call'[e].pc \in Claimed
              /\ call'[d].code = call'[e].code => d = e
      BY <1>3, <1>5 DEF Inv, Redeemers, Claimed, Unspoken
    <2> QED BY <1>8, <1>10, <1>11, <2>1 DEF Redeemers
  <1>14. Owned'
    <2> SUFFICES ASSUME NEW b \in Accounts \ ({Household} \cup left), account[b] = "active"
                 PROVE  \/ \E d \in Calls : call'[d].account = b
                             /\ call'[d].pc \in Owning
                        \/ \E g \in granted : g[2] <= minted' /\ code'[g[2]].account = b
      BY DEF Owned, history, lapses
    <2>1. CASE \E d \in Calls : call[d].account = b
                 /\ call[d].pc \in Owning
      BY <1>3, <1>5, <2>1 DEF Owning, Unspoken
    <2>2. CASE \E g \in granted : g[2] <= minted /\ code[g[2]].account = b
      <3>1. PICK g \in granted : g[2] <= minted /\ code[g[2]].account = b
        BY <2>2
      <3>2. g[2] \in 1..minted
        BY <1>2, <3>1 DEF Inv, TypeOK, Codes
      <3> QED BY <1>2, <3>1, <3>2
    <2> QED BY <2>1, <2>2 DEF Inv, Owned
  <1> QED BY <1>7, <1>11, <1>12, <1>13, <1>14 DEF Inv

LEMMA MintSteps ==
  ASSUME Inv, NEW c \in Calls, ApproveMint(c) \/ AttachMint(c) \/ ReissueMint(c)
  PROVE  Inv'
  <1>1. CASE ApproveMint(c)
    BY <1>1, MintStep DEF ApproveMint, At, Unspoken
  <1>2. CASE AttachMint(c)
    <2>1. call[c].account = Household
      BY <1>2 DEF AttachMint, At, Inv, Deciders, Decider
    <2> QED BY <1>2, <2>1, MintStep DEF AttachMint, At, Unspoken
  <1>3. CASE ReissueMint(c)
    BY <1>3, MintStep DEF ReissueMint, At, Unspoken
  <1> QED BY <1>1, <1>2, <1>3

LEMMA PortalMintStep == ASSUME Inv, PortalMint PROVE Inv'
  <1>1. /\ minted + 1 \in Codes
        /\ minted' \in 0..MaxCodes /\ code' \in [Codes -> Code]
        /\ \A k \in 1..minted : code'[k] = code[k]
        /\ \A k \in Codes : code'[k].account = NoAccount <=> k > minted'
        /\ minted \in Nat /\ minted' = minted + 1 /\ told' = told \cup {minted + 1}
    BY Minting, Bounds DEF PortalMint
  <1>2. Mints(Household)
    BY DEF PortalMint, Mints
  <1>3. TypeOK'
    <2>1. told' \subseteq 1..minted' /\ acts' \in 0..MaxActs
      BY <1>1, Bounds DEF PortalMint, Acts, Inv, TypeOK
    <2> QED BY <1>1, <2>1 DEF PortalMint, Inv, TypeOK, lapses
  <1>4. \A d \in Calls : Decider(d)' /\ Redeemer(d)'
    BY <1>2, <1>3, MintOthers, Bounds DEF PortalMint
  <1>5. /\ Rows' /\ Askers' /\ Shown' /\ Coded' /\ ApprovedOnce' /\ NamesItsAccount'
        /\ \A k \in Codes : sessions'[k] # 0 => sessions'[k] = 1 /\ k <= minted' /\ code'[k].used
        /\ \A m \in memo' : sessions'[m.code] = 1
    BY <1>2, MintKeeps, Bounds
  <1>6. Deciders' /\ Redeemers'
    BY <1>4, <1>5 DEF PortalMint, Inv, Deciders, Redeemers
  <1>7. Owned'
    <2>1. \A g \in granted : g[2] <= minted => g[2] \in 1..minted /\ g[2] <= minted'
      BY <1>1 DEF Inv, TypeOK, Codes
    <2> QED BY <1>1, <2>1 DEF PortalMint, Inv, Owned, lapses
  <1> QED BY <1>3, <1>5, <1>6, <1>7 DEF Inv

-----------------------------------------------------------------------------
(* The decision: approval, link and the reissued code.                       *)

(* What the deciding handler knows.                                          *)
LEMMA Knows ==
  ASSUME Inv, NEW c \in Calls,
         call[c].pc \in {"accountMinted", "attachMinted", "approved", "reissueMinted"}
  PROVE  /\ Decider(c) /\ (call[c].pc # "approved" => Unshared(c))
         /\ (call[c].pc = "approved" => Unlinked(c)) /\ ~call[c].barred
         /\ call[c].request \in Requests /\ call[c].account \in Accounts
         /\ page[call[c].request] \notin Unsent /\ request[call[c].request] \in Request
         /\ call[c].code \in 1..minted /\ call[c].code \in Codes /\ call[c].code # 0
         /\ call[c].code \in 0..MaxCodes /\ code[call[c].code].account = call[c].account
  <1>1. Decider(c) /\ Redeemer(c)
    BY DEF Inv, Deciders, Redeemers
  <1>2. /\ call[c].pc # "approved" => Unshared(c)
        /\ call[c].pc = "approved" => Unlinked(c)
    BY <1>1 DEF Decider, Unspoken
  <1>3. /\ call[c].request \in Requests /\ call[c].account \in Accounts
        /\ page[call[c].request] \notin Unsent /\ ~call[c].barred
    BY <1>1 DEF Decider, Deciding, Redeemer
  <1>4. call[c].code \in 1..minted /\ code[call[c].code].account = call[c].account
    BY <1>2 DEF Unshared, Unlinked
  <1> QED BY <1>1, <1>2, <1>3, <1>4, Fields DEF Inv

(* A decision writes one row of a request that has been sent, and tells or   *)
(* grants the code of the handler that makes it.                             *)
Decides(c, r) ==
  /\ UNCHANGED <<page, code, minted, account, suspended, memo, sessions, acts>> /\ Lapse
  /\ request'[r] \in Request /\ request' = [request EXCEPT ![r] = request'[r]]
  /\ request'[r].code \in {request[r].code, call[c].code}
  /\ told \subseteq told' /\ \A k \in told' : k \in told \/ k = call[c].code
  /\ granted \subseteq granted' /\ \A d \in Calls \ {c} : call'[d] = call[d]
  /\ call'[c].code \in {0, call[c].code}

LEMMA DecidesFacts ==
  ASSUME Inv, NEW c \in Calls, NEW r \in Requests, Decides(c, r)
  PROVE  /\ request' \in [Requests -> Request]
         /\ \A q \in Requests \ {r} : request'[q] = request[q]
  BY DEF Decides, Inv, TypeOK

(* What the other handlers know survives when those that decide on the same  *)
(* request find in it what they expect.                                      *)
LEMMA DecidesOthers ==
  ASSUME Inv, NEW c \in Calls, NEW r \in Requests, Decides(c, r), TypeOK',
         NEW d \in Calls \ {c},
         call[d].pc \in {"approved", "reissue", "reissueMinted"} /\ call[d].request = r =>
           \/ request'[r].status = "none"
           \/ /\ request[r].status # "none" /\ request'[r].account = request[r].account
              /\ call[d].pc = "approved" => request'[r].code = request[r].code
  PROVE  Decider(d)' /\ Redeemer(d)'
  <1>1. /\ \A q \in Requests \ {r} : request'[q] = request[q]
        /\ UNCHANGED <<page, code, minted, suspended, sessions>> /\ call'[d] = call[d]
    BY DecidesFacts DEF Decides
  <1>2. Decider(d) /\ (call[d].pc \in Unspoken => Unshared(d))
    BY DEF Inv, Deciders, Decider
  <1>3. call[d].pc \in Unspoken =>
          /\ ~code'[call[d].code].used /\ call[d].code \notin told'
          /\ call[d].code # 0 /\ call[c].code # call[d].code
    BY <1>1, <1>2 DEF Unshared, Decides
  <1>4. call[d].pc \in Unspoken => \A q \in Requests : request'[q].code # call[d].code
    BY <1>1, <1>2, <1>3 DEF Unshared, Decides
  <1>5. call[d].pc \in Unspoken => \A e \in Calls : e # d => call'[e].code # call[d].code
    BY <1>1, <1>2, <1>3 DEF Unshared, Decides
  <1>6. call[d].pc \in {"approved", "reissue", "reissueMinted"} =>
          \/ request'[call[d].request].status = "none"
          \/ /\ request[call[d].request].status # "none"
             /\ request'[call[d].request].account = request[call[d].request].account
             /\ call[d].pc = "approved" =>
                  request'[call[d].request].code = request[call[d].request].code
    <2>1. call[d].pc \in {"approved", "reissue", "reissueMinted"} => call[d].request \in Requests
      BY <1>2 DEF Decider, Deciding
    <2> QED BY <1>1, <2>1
  <1>7. /\ minted <= minted' /\ granted \subseteq granted'
        /\ \A k \in 1..minted : code'[k].account = code[k].account
        /\ \A q \in Requests : page'[q] \in Unsent => page[q] \in Unsent
    BY <1>1, Fields DEF Inv, Decides
  <1>8. Decider(d)'
    BY <1>1, <1>3, <1>4, <1>5, <1>6, <1>7, DeciderKept
  <1>9. Redeemer(d)'
    BY <1>1, RedeemerKept DEF Decides
  <1> QED BY <1>8, <1>9

(* The parts that a decision leaves alone, of a handler that redeems and     *)
(* asks nothing before or after.                                             *)
LEMMA DecidesKeeps ==
  ASSUME Inv, NEW c \in Calls, NEW r \in Requests, Decides(c, r),
         call[c].pc \in Deciding, call'[c].pc \in {"approved", "free"}, ~call'[c].barred,
         \A d \in Calls \ {c} : Redeemer(d)'
  PROVE  Askers' /\ Redeemers' /\ Coded'
  <1>1. /\ UNCHANGED <<page, code, minted, memo, sessions>>
        /\ \A d \in Calls \ {c} : call'[d] = call[d]
    BY DEF Decides
  <1>2. Redeemer(c)'
    BY DEF Redeemer, Redeeming, Claimed, Served
  <1>3. Redeemers'
    BY <1>1, <1>2 DEF Inv, Redeemers, Claimed
  <1>4. Askers' /\ Coded'
    BY <1>1, Fields DEF Inv, Askers, Asking, Coded, Decides
  <1> QED BY <1>3, <1>4

LEMMA ApproveStep == ASSUME Inv, NEW c \in Calls, Approve(c) PROVE Inv'
  <1> DEFINE h == call[c]
             r == h.request
             k == h.code
  <1>1. CASE /\ ~MayApprove(request[r], h.timely)
             /\ call' = [call EXCEPT ![c] =
                  IF AfterLosing(h.pc) = "free" THEN Free ELSE [h EXCEPT !.pc = AfterLosing(h.pc)]]
             /\ UNCHANGED <<request, granted>>
    BY <1>1, LosesStep DEF Approve, tables, history, lapses
  <1>2. CASE /\ MayApprove(request[r], h.timely)
             /\ request' = [request EXCEPT ![r] = [@ EXCEPT !.status = "approved", !.code = k]]
             /\ granted' = granted \cup {<<r, k>>}
             /\ Goes(c, "approved")
    <2>1. /\ h.pc \in {"accountMinted", "attachMinted"} /\ Decider(c) /\ Unshared(c)
          /\ r \in Requests /\ h.account \in Accounts /\ page[r] \notin Unsent
          /\ k \in 1..minted /\ k \in Codes /\ k # 0 /\ ~h.barred
      BY Knows DEF Approve
    <2>2. /\ request[r].status = "pending" /\ request[r].code = 0
          /\ request[r].account = NoAccount /\ \A j \in Codes : <<r, j>> \notin granted
      BY <1>2, <2>1, Fields DEF MayApprove, Inv, Rows, Open
    <2> DEFINE row == [request[r] EXCEPT !.status = "approved", !.code = k]
    <2>3. /\ row \in Request /\ row.status = "approved" /\ row.code = k /\ row.account = NoAccount
      <3>1. request[r] \in Request /\ k \in 0..MaxCodes /\ "approved" \in Statuses
        BY <2>1, Fields DEF Inv, Statuses
      <3> QED BY <2>2, <3>1 DEF Request
    <2>4. request' = [request EXCEPT ![r] = row]
      BY <1>2
    <2> HIDE DEF row
    <2>5. request'[r] = row
      BY <2>1, <2>4 DEF Inv, TypeOK
    <2>6. /\ call' \in [Calls -> Call] /\ call'[c].pc = "approved"
          /\ call'[c].request = r /\ call'[c].account = h.account
          /\ call'[c].code = k /\ call'[c].barred = h.barred
          /\ \A d \in Calls \ {c} : call'[d] = call[d]
      BY <1>2, GoesTypes DEF Inv, TypeOK
    <2>7. Decides(c, r)
      BY <1>2, <2>3, <2>4, <2>5, <2>6, NoLapse DEF Decides, Approve
    <2>8. /\ request' \in [Requests -> Request]
          /\ \A q \in Requests \ {r} : request'[q] = request[q]
      BY <2>1, <2>7, DecidesFacts
    <2>9. /\ UNCHANGED <<page, code, minted, account, suspended, memo, told, sessions, renewed, acts>>
          /\ UNCHANGED <<unmarked, left, faults>>
      BY DEF Approve, lapses
    <2>10. TypeOK'
      <3>1. granted' \subseteq Requests \X Codes
        BY <1>2, <2>1 DEF Inv, TypeOK
      <3> QED BY <2>6, <2>8, <2>9, <3>1 DEF Inv, TypeOK
    <2>11. ASSUME NEW d \in Calls \ {c}, call[d].pc \in {"approved", "reissue", "reissueMinted"}
           PROVE  call[d].request # r
      <3>1. CASE call[d].pc = "approved"
        <4>1. Unlinked(d)
          BY <3>1 DEF Inv, Deciders, Decider
        <4> QED BY <2>2, <4>1, Fields DEF Unlinked, Inv
      <3>2. CASE call[d].pc \in {"reissue", "reissueMinted"}
        BY <2>2, <3>2, Bounds DEF Inv, Deciders, Decider, Deciding
      <3> QED BY <2>11, <3>1, <3>2
    <2>12. \A d \in Calls \ {c} : Decider(d)' /\ Redeemer(d)'
      BY <2>1, <2>7, <2>10, <2>11, DecidesOthers
    <2>13. Decider(c)'
      <3>1. Unlinked(c)'
        BY <1>2, <2>1, <2>3, <2>5, <2>6, <2>9 DEF Unlinked, Unshared
      <3> QED BY <2>1, <2>6, <2>9, <3>1 DEF Decider, Deciding, Unspoken
    <2>14. Deciders'
      BY <2>6, <2>11, <2>12, <2>13 DEF Inv, Deciders
    <2>15. Askers' /\ Redeemers' /\ Coded'
      BY <2>1, <2>6, <2>7, <2>12, DecidesKeeps DEF Deciding
    <2>16. Rows'
      <3> SUFFICES ASSUME NEW q \in Requests
                   PROVE  /\ request'[q].code # 0 <=> request'[q].status \in Open
                          /\ request'[q].code <= minted
                          /\ request'[q].account # NoAccount => request'[q].status \in Open
                          /\ page[q] \in Unsent => request'[q].status = "none"
                          /\ request'[q].status \in Refused \cup {"pending"} \/ page[q] \in Unsent
                               => \A j \in Codes : <<q, j>> \notin granted'
        BY <2>9 DEF Rows
      <3>1. CASE q = r
        BY <2>1, <2>3, <2>5, <3>1, Fields DEF Open, Refused, Inv
      <3>2. CASE q # r
        <4>1. \A j \in Codes : <<q, j>> \in granted' => <<q, j>> \in granted
          BY <1>2, <3>2
        <4> QED BY <2>8, <3>2, <4>1 DEF Inv, Rows
      <3> QED BY <3>1, <3>2
    <2>17. Shown'
      <3>1. \A q \in Requests : request'[q].code # k => request'[q] = request[q]
        BY <2>3, <2>5, <2>8
      <3>2. \A d \in Calls : call[d].pc = "claimed" => call'[d] = call[d]
        BY <2>1, <2>6
      <3>3. ~code[k].used
        BY <2>1 DEF Unshared
      <3> QED BY <2>9, <3>1, <3>2, <3>3 DEF Inv, Shown
    <2>18. Owned'
      <3> SUFFICES ASSUME NEW b \in Accounts \ ({Household} \cup left), account[b] = "active"
                   PROVE  \/ \E d \in Calls : call'[d].account = b
                               /\ call'[d].pc \in Owning
                          \/ \E g \in granted' : g[2] <= minted /\ code[g[2]].account = b
        BY <2>9 DEF Owned
      <3>1. CASE b = h.account
        <4>1. <<r, k>> \in granted' /\ <<r, k>>[2] = k /\ k <= minted /\ code[k].account = b
          BY <1>2, <2>1, <3>1, Fields DEF Unshared, Inv
        <4> QED BY <4>1
      <3>2. CASE b # h.account
        BY <1>2, <2>1, <2>6, <3>2 DEF Inv, Owned, Owning
      <3> QED BY <3>1, <3>2
    <2>19. ApprovedOnce'
      <3> SUFFICES ASSUME NEW q \in Requests, NEW i \in Codes, NEW j \in Codes,
                          <<q, i>> \in granted', <<q, j>> \in granted'
                   PROVE  i = j
        BY DEF ApprovedOnce
      <3>1. CASE q = r
        BY <1>2, <2>2, <3>1
      <3>2. CASE q # r
        BY <1>2, <3>2 DEF Inv, ApprovedOnce
      <3> QED BY <3>1, <3>2
    <2>20. NamesItsAccount'
      BY <2>3, <2>5, <2>8, <2>9 DEF Inv, NamesItsAccount
    <2> QED BY <2>10, <2>14, <2>15, <2>16, <2>17, <2>18, <2>19, <2>20 DEF Inv
  <1> QED BY <1>1, <1>2 DEF Approve

LEMMA LinkStep == ASSUME Inv, NEW c \in Calls, Link(c) PROVE Inv'
  <1> DEFINE h == call[c]
             r == h.request
             k == h.code
             row == IF request[r].status = "none" THEN request[r]
                    ELSE [request[r] EXCEPT !.account = h.account]
  <1>1. /\ h.pc = "approved" /\ Decider(c) /\ Unlinked(c) /\ ~h.barred
        /\ r \in Requests /\ h.account \in Accounts /\ page[r] \notin Unsent
        /\ k \in 1..minted /\ code[k].account = h.account
        /\ request[r].status = "none" \/ (request[r].code = k /\ request[r].account = NoAccount)
        /\ request[r] \in Request /\ k # 0
    BY Knows DEF Link, Unlinked
  <1>2. /\ Ends(c) /\ told' = told \cup {k} /\ request' = [request EXCEPT ![r] = row]
        /\ UNCHANGED <<page, code, minted, account, suspended, memo, history>>
    BY DEF Link
  <1>3. /\ row \in Request /\ row.status = request[r].status /\ row.code = request[r].code
        /\ row.account = IF request[r].status = "none" THEN request[r].account ELSE h.account
    BY <1>1 DEF Request
  <1> HIDE DEF row
  <1>4. request'[r] = row
    BY <1>1, <1>2 DEF Inv, TypeOK
  <1>5. /\ call' \in [Calls -> Call] /\ call'[c] = Free
        /\ Free.pc = "free" /\ Free.code = 0 /\ ~Free.barred
        /\ \A d \in Calls \ {c} : call'[d] = call[d]
    BY <1>2, EndsTypes DEF Inv, TypeOK
  <1>6. Decides(c, r)
    BY <1>2, <1>3, <1>4, <1>5, NoLapse DEF Decides, history
  <1>7. /\ request' \in [Requests -> Request]
        /\ \A q \in Requests \ {r} : request'[q] = request[q]
    BY <1>1, <1>6, DecidesFacts
  <1>8. TypeOK'
    <2>1. told' \subseteq 1..minted'
      BY <1>1, <1>2 DEF Inv, TypeOK
    <2> QED BY <1>2, <1>5, <1>7, <2>1 DEF history, lapses, Inv, TypeOK
  <1>9. ASSUME NEW d \in Calls \ {c}, call[d].pc \in {"approved", "reissue", "reissueMinted"},
               call[d].request = r
        PROVE  request'[r].status = "none"
    <2>1. CASE call[d].pc = "approved"
      BY <1>1, <1>9, <2>1 DEF Inv, Deciders
    <2>2. CASE call[d].pc \in {"reissue", "reissueMinted"}
      <3>1. call[d].account \in Accounts
              /\ (request[r].status = "none" \/ request[r].account = call[d].account)
        BY <1>9, <2>2 DEF Inv, Deciders, Decider, Deciding
      <3> QED BY <1>1, <1>3, <1>4, <3>1, Bounds
    <2> QED BY <1>9, <2>1, <2>2
  <1>10. \A d \in Calls \ {c} : Decider(d)' /\ Redeemer(d)'
    BY <1>1, <1>6, <1>8, <1>9, DecidesOthers
  <1>11. Deciders'
    <2>1. Decider(c)'
      BY <1>5 DEF Decider, Deciding, Unspoken
    <2> QED BY <1>5, <1>10, <2>1 DEF Inv, Deciders
  <1>12. Askers' /\ Redeemers' /\ Coded'
    BY <1>1, <1>5, <1>6, <1>10, DecidesKeeps DEF Deciding
  <1>13. Rows' /\ ApprovedOnce'
    <2>1. Rows'
      <3> SUFFICES ASSUME NEW q \in Requests
                   PROVE  /\ request'[q].code # 0 <=> request'[q].status \in Open
                          /\ request'[q].code <= minted
                          /\ request'[q].account # NoAccount => request'[q].status \in Open
                          /\ page[q] \in Unsent => request'[q].status = "none"
                          /\ request'[q].status \in Refused \cup {"pending"} \/ page[q] \in Unsent
                               => \A j \in Codes : <<q, j>> \notin granted
        BY <1>2 DEF Rows, history, lapses
      <3>1. CASE q = r
        BY <1>1, <1>3, <1>4, <3>1 DEF Inv, Rows
      <3>2. CASE q # r
        BY <1>7, <3>2 DEF Inv, Rows
      <3> QED BY <3>1, <3>2
    <2> QED BY <1>2, <2>1 DEF Inv, ApprovedOnce, history, lapses
  <1>14. Shown'
    <2>1. \A q \in Requests : /\ request'[q].code = request[q].code
                              /\ request'[q].status = request[q].status
      BY <1>3, <1>4, <1>7
    <2>2. \A d \in Calls : call[d].pc = "claimed" => call'[d] = call[d]
      BY <1>1, <1>5
    <2> QED BY <1>2, <2>1, <2>2 DEF Inv, Shown, history, lapses
  <1>15. Owned'
    BY <1>1, <1>2, <1>5, OwnedKept DEF Owning, history, lapses
  <1>16. NamesItsAccount'
    BY <1>1, <1>2, <1>3, <1>4, <1>7 DEF Inv, NamesItsAccount
  <1> QED BY <1>8, <1>11, <1>12, <1>13, <1>14, <1>15, <1>16 DEF Inv

LEMMA ReissueWriteStep == ASSUME Inv, NEW c \in Calls, ReissueWrite(c) PROVE Inv'
  <1> DEFINE h == call[c]
             r == h.request
             k == h.code
             row == IF request[r].status = "none" THEN request[r]
                    ELSE [request[r] EXCEPT !.status = "approved", !.code = k, !.age = "fresh"]
  <1>1. /\ h.pc = "reissueMinted" /\ Decider(c) /\ Unshared(c) /\ ~h.barred
        /\ r \in Requests /\ h.account \in Accounts /\ page[r] \notin Unsent
        /\ k \in 1..minted /\ k \in Codes /\ k # 0 /\ code[k].account = h.account
        /\ request[r].status = "none" \/ request[r].account = h.account
        /\ request[r] \in Request /\ k \in 0..MaxCodes
    <2>1. h.pc = "reissueMinted"
      BY DEF ReissueWrite
    <2>2. Decider(c) => request[r].status = "none" \/ request[r].account = h.account
      BY <2>1 DEF Decider
    <2> QED BY <2>1, <2>2, Knows
  <1>2. /\ Ends(c) /\ told' = told \cup {k} /\ request' = [request EXCEPT ![r] = row]
        /\ renewed' = renewed \cup {<<r, k>>}
        /\ UNCHANGED <<page, code, minted, account, suspended, memo, sessions, granted, lapses, acts>>
    BY DEF ReissueWrite
  <1>3. /\ row \in Request /\ row.account = request[r].account
        /\ \/ request[r].status = "none" /\ row = request[r]
           \/ /\ request[r].status # "none" /\ row.status = "approved" /\ row.code = k
    <2>1. "approved" \in Statuses
      BY DEF Statuses
    <2> QED BY <1>1, <2>1 DEF Request
  <1> HIDE DEF row
  <1>4. request'[r] = row
    BY <1>1, <1>2 DEF Inv, TypeOK
  <1>5. /\ call' \in [Calls -> Call] /\ call'[c] = Free
        /\ Free.pc = "free" /\ Free.code = 0 /\ ~Free.barred
        /\ \A d \in Calls \ {c} : call'[d] = call[d]
    BY <1>2, EndsTypes DEF Inv, TypeOK
  <1>6. Decides(c, r)
    BY <1>2, <1>3, <1>4, <1>5, NoLapse DEF Decides
  <1>7. /\ request' \in [Requests -> Request]
        /\ \A q \in Requests \ {r} : request'[q] = request[q]
    BY <1>1, <1>6, DecidesFacts
  <1>8. TypeOK'
    <2>1. told' \subseteq 1..minted'
      BY <1>1, <1>2 DEF Inv, TypeOK
    <2>2. renewed' \subseteq Requests \X Codes
      BY <1>1, <1>2 DEF Inv, TypeOK
    <2>3. UNCHANGED <<page, code, minted, account, suspended, memo, sessions, granted, lapses, acts>>
      BY <1>2
    <2> QED BY <1>5, <1>7, <2>1, <2>2, <2>3 DEF Inv, TypeOK, lapses
  <1>9. ASSUME NEW d \in Calls \ {c}, call[d].pc = "approved", call[d].request = r
        PROVE  request'[r].status = "none"
    <2>1. Unlinked(d)
      BY <1>9 DEF Inv, Deciders, Decider
    <2>2. request[r].status = "none" \/ request[r].account = NoAccount
      BY <1>9, <2>1 DEF Unlinked
    <2>3. request[r].status = "none"
      BY <1>1, <2>2, Bounds
    <2> QED BY <1>3, <1>4, <2>3
  <1>10. \A d \in Calls \ {c} : Decider(d)' /\ Redeemer(d)'
    BY <1>1, <1>3, <1>4, <1>6, <1>8, <1>9, DecidesOthers
  <1>11. Deciders'
    <2>1. Decider(c)'
      BY <1>5 DEF Decider, Deciding, Unspoken
    <2> QED BY <1>5, <1>10, <2>1 DEF Inv, Deciders
  <1>12. Askers' /\ Redeemers' /\ Coded'
    BY <1>1, <1>5, <1>6, <1>10, DecidesKeeps DEF Deciding
  <1>13. Rows' /\ ApprovedOnce'
    <2>1. Rows'
      <3> SUFFICES ASSUME NEW q \in Requests
                   PROVE  /\ request'[q].code # 0 <=> request'[q].status \in Open
                          /\ request'[q].code <= minted
                          /\ request'[q].account # NoAccount => request'[q].status \in Open
                          /\ page[q] \in Unsent => request'[q].status = "none"
                          /\ request'[q].status \in Refused \cup {"pending"} \/ page[q] \in Unsent
                               => \A j \in Codes : <<q, j>> \notin granted
        BY <1>2 DEF Rows
      <3>1. CASE q = r /\ row = request[r]
        BY <1>4, <3>1 DEF Inv, Rows
      <3>2. CASE q = r /\ row.status = "approved" /\ row.code = k
        BY <1>1, <1>4, <3>2, Fields DEF Inv, Open, Refused
      <3>3. CASE q # r
        BY <1>7, <3>3 DEF Inv, Rows
      <3> QED BY <1>3, <3>1, <3>2, <3>3
    <2> QED BY <1>2, <2>1 DEF Inv, ApprovedOnce
  <1>14. Shown'
    <2>1. \A q \in Requests : request'[q].code # k => request'[q] = request[q]
      BY <1>3, <1>4, <1>7
    <2>2. \A d \in Calls : call[d].pc = "claimed" => call'[d] = call[d]
      BY <1>1, <1>5
    <2>3. ~code[k].used
      BY <1>1 DEF Unshared
    <2> QED BY <1>2, <2>1, <2>2, <2>3 DEF Inv, Shown, lapses
  <1>15. Owned'
    BY <1>1, <1>2, <1>5, OwnedKept DEF Owning, lapses
  <1>16. NamesItsAccount'
    BY <1>1, <1>2, <1>3, <1>4, <1>7, Bounds DEF Inv, NamesItsAccount
  <1> QED BY <1>8, <1>11, <1>12, <1>13, <1>14, <1>15, <1>16 DEF Inv

-----------------------------------------------------------------------------
(* Statements that fail, the server's stop, and the reinstatement.           *)

(* What a failure always leaves.                                             *)
LEMMA FailsLeaves ==
  ASSUME Inv, NEW c \in Calls, Fails(c)
  PROVE  /\ UNCHANGED <<tables, sessions, granted, renewed, acts>> /\ Lapse
         /\ call[c].pc # "insert" => page' = page
         /\ call[c].pc # "approved" => told' = told
  <1>1. /\ UNCHANGED <<tables, sessions, granted, renewed, acts>> /\ faults' \in 0..MaxFaults
        /\ call[c].pc # "insert" => page' = [r \in Requests |-> page[r]]
        /\ call[c].pc # "approved" => told' = told
    BY Bounds DEF Fails, Faults, Inv, TypeOK
  <1>2. call[c].pc = "claimed" => call[c].code \in Codes
    BY Fields DEF Inv, Redeemers, Redeemer, Redeeming
  <1>3. unmarked \subseteq unmarked' /\ unmarked' \subseteq Codes
    BY <1>2 DEF Fails, Inv, TypeOK
  <1>4. left \subseteq left' /\ left' \subseteq Accounts
    BY DEF Fails, Inv, TypeOK, Deciders, Decider
  <1>5. page = [r \in Requests |-> page[r]]
    BY DEF Inv, TypeOK
  <1> QED BY <1>1, <1>3, <1>4, <1>5 DEF Lapse

(* Housekeeping that fails: the request's handler goes on.                   *)
LEMMA FailsAsking ==
  ASSUME Inv, NEW c \in Calls, Fails(c), call[c].pc \in {"expire", "prune"}
  PROVE  Inv'
  <1>1. PICK pc \in {"prune", "insert"} : Goes(c, pc)
    BY DEF Fails, AfterError, Goes
  <1>2. UNCHANGED <<tables, page, told, sessions, granted, renewed, acts>> /\ Lapse
    BY FailsLeaves
  <1>3. /\ call' \in [Calls -> Call] /\ Turns(c) /\ call[c].pc # "claimed"
        /\ \A d \in Calls : d # c => call'[d] = call[d]
        /\ Askers'
    BY <1>1, <1>2, AskerGoes DEF tables
  <1>4. \A r \in Requests : RowMoves(r)
    BY <1>2 DEF RowMoves, tables, Inv, Rows
  <1>5. Shown'
    BY <1>2, <1>3, <1>4, ShownKept DEF Lapse, tables
  <1> QED BY <1>2, <1>3, <1>4, <1>5, RowsStep DEF tables, Inv, TypeOK

(* A request that could not be stored: its card is told.                     *)
LEMMA FailsInsert ==
  ASSUME Inv, NEW c \in Calls, Fails(c), call[c].pc = "insert"
  PROVE  Inv'
  <1>1. Ends(c) /\ page' = [r \in Requests |-> IF call[c].request = r THEN "over" ELSE page[r]]
    BY DEF Fails, AfterError, Ends
  <1>2. UNCHANGED <<tables, told, sessions, granted, renewed, acts>> /\ Lapse
    BY FailsLeaves
  <1>3. /\ call' \in [Calls -> Call] /\ call'[c] = Free
        /\ Free.pc = "free" /\ Free.code = 0 /\ ~Free.barred
        /\ \A d \in Calls \ {c} : call'[d] = call[d]
    BY <1>1, EndsTypes DEF Inv, TypeOK
  <1>4. Turns(c)
    BY <1>3 DEF Turns, Redeemer, Redeeming, Claimed, Served, Asking
  <1>5. /\ page' \in [Requests -> {"new", "asking", "waiting", "offered", "withdrawing",
                                   "withdrawn", "over"}]
        /\ \A r \in Requests : page'[r] = IF call[c].request = r THEN "over" ELSE page[r]
    BY <1>1 DEF Inv, TypeOK
  <1>6. \A r \in Requests : RowMoves(r)
    BY <1>2, <1>5 DEF RowMoves, tables, Inv, Rows, Unsent
  <1>7. Askers'
    <2> SUFFICES ASSUME NEW d \in Calls, call'[d].pc \in Asking, call'[d].request # NoRequest
                 PROVE  page'[call'[d].request] = "asking"
      BY <1>3 DEF Inv, Askers, Asking
    <2>1. d # c /\ call'[d] = call[d] /\ call[d].request \in Requests
      BY <1>3, Fields DEF Asking, Inv, Call
    <2>2. call[d].request # call[c].request /\ page[call[d].request] = "asking"
      BY <2>1 DEF Inv, Askers, Asking
    <2> QED BY <1>5, <2>1, <2>2
  <1>8. Shown'
    BY <1>2, <1>3, <1>6, ShownKept DEF Lapse, tables
  <1> QED BY <1>2, <1>3, <1>4, <1>5, <1>6, <1>7, <1>8, RowsStep DEF tables, Inv, TypeOK

(* The mark that fails: the redemption goes on.                              *)
LEMMA FailsMark ==
  ASSUME Inv, NEW c \in Calls, Fails(c), call[c].pc = "claimed"
  PROVE  Inv'
  <1>1. Goes(c, "marked") /\ call[c].code \in unmarked'
    BY DEF Fails, AfterError, Goes
  <1>2. UNCHANGED <<tables, page, told, sessions, granted, renewed, acts>> /\ Lapse
    BY FailsLeaves
  <1>3. /\ call' \in [Calls -> Call] /\ call'[c].pc = "marked"
        /\ call'[c].request = call[c].request /\ call'[c].account = call[c].account
        /\ call'[c].code = call[c].code /\ call'[c].key = call[c].key
        /\ call'[c].barred = call[c].barred
        /\ \A d \in Calls \ {c} : call'[d] = call[d]
    BY <1>1, GoesTypes DEF Inv, TypeOK
  <1>4. Redeemer(c)'
    BY <1>2, <1>3 DEF Inv, Redeemers, Redeemer, Redeeming, Claimed, Served, tables
  <1>5. Turns(c)
    BY <1>3, <1>4 DEF Turns
  <1>6. \A r \in Requests : RowMoves(r)
    BY <1>2 DEF RowMoves, tables, Inv, Rows
  <1>7. Askers'
    BY <1>2, <1>3 DEF Inv, Askers, Asking
  <1>8. Shown'
    <2> SUFFICES ASSUME NEW r \in Requests,
                        request[r].code # 0, code[request[r].code].used,
                        request[r].code \notin unmarked', request[r].status # "redeemed"
                 PROVE  \E d \in Calls : call'[d].pc = "claimed" /\ call'[d].code = request[r].code
      BY <1>2 DEF Shown, tables
    <2>1. PICK d \in Calls : call[d].pc = "claimed" /\ call[d].code = request[r].code
      BY <1>2 DEF Inv, Shown, Lapse
    <2>2. d # c
      BY <1>1, <2>1
    <2> QED BY <1>3, <2>1, <2>2
  <1> QED BY <1>2, <1>3, <1>5, <1>6, <1>7, <1>8, RowsStep DEF tables, Inv, TypeOK

(* The removal that fails: the account is left.                              *)
LEMMA FailsUndo ==
  ASSUME Inv, NEW c \in Calls, Fails(c), call[c].pc = "undo"
  PROVE  Inv'
  <1>1. Ends(c) /\ call[c].account \in left'
    BY DEF Fails, AfterError, Ends
  <1>2. UNCHANGED <<tables, page, told, sessions, granted, renewed, acts>> /\ Lapse
    BY FailsLeaves
  <1>3. /\ call' \in [Calls -> Call] /\ call'[c] = Free
        /\ Free.pc = "free" /\ Free.code = 0 /\ ~Free.barred
        /\ \A d \in Calls \ {c} : call'[d] = call[d]
    BY <1>1, EndsTypes DEF Inv, TypeOK
  <1>4. Decider(c)' /\ Redeemer(c)'
    BY <1>3 DEF Decider, Redeemer, Deciding, Unspoken, Redeeming, Claimed, Served
  <1>5. Owned'
    BY <1>1, <1>2, <1>3 DEF Inv, Owned, Lapse, tables
  <1> QED BY <1>2, <1>3, <1>4, <1>5, HandlerStep DEF tables, Inv, TypeOK, Claimed, Asking

(* The link that fails: the operator is told the code all the same.          *)
LEMMA FailsLink ==
  ASSUME Inv, NEW c \in Calls, Fails(c), call[c].pc = "approved"
  PROVE  Inv'
  <1> DEFINE r == call[c].request
             k == call[c].code
  <1>1. /\ ~call[c].barred /\ r \in Requests /\ request[r] \in Request /\ k \in 1..minted
    BY Knows
  <1>2. Ends(c) /\ told' = told \cup {k}
    BY DEF Fails, AfterError, Ends
  <1>3. UNCHANGED <<tables, page, sessions, granted, renewed, acts>> /\ Lapse
    BY FailsLeaves
  <1>4. /\ call' \in [Calls -> Call] /\ call'[c] = Free
        /\ Free.pc = "free" /\ Free.code = 0 /\ ~Free.barred
        /\ \A d \in Calls \ {c} : call'[d] = call[d]
    BY <1>2, EndsTypes DEF Inv, TypeOK
  <1>5. Decides(c, r)
    BY <1>1, <1>2, <1>3, <1>4 DEF Decides, tables, Inv, TypeOK
  <1>6. TypeOK'
    <2>1. told' \subseteq 1..minted'
      BY <1>1, <1>2, <1>3 DEF tables, Inv, TypeOK
    <2> QED BY <1>3, <1>4, <2>1 DEF tables, Lapse, Inv, TypeOK
  <1>7. ASSUME NEW d \in Calls \ {c} PROVE Decider(d)' /\ Redeemer(d)'
    BY <1>1, <1>3, <1>5, <1>6, DecidesOthers DEF tables
  <1>8. Deciders'
    <2>1. Decider(c)'
      BY <1>4 DEF Decider, Deciding, Unspoken
    <2> QED BY <1>4, <1>7, <2>1 DEF Inv, Deciders
  <1>9. Askers' /\ Redeemers' /\ Coded'
    BY <1>1, <1>4, <1>5, <1>7, DecidesKeeps DEF Deciding
  <1>10. Rows' /\ ApprovedOnce' /\ NamesItsAccount'
    BY <1>3 DEF tables, Inv, Rows, ApprovedOnce, NamesItsAccount
  <1>11. Shown'
    <2>1. \A d \in Calls : call[d].pc = "claimed" => call'[d] = call[d]
      BY <1>4
    <2> QED BY <1>3, <2>1 DEF tables, Inv, Shown, Lapse
  <1>12. Owned'
    BY <1>3, <1>4, OwnedKept DEF tables, Owning, Lapse
  <1> QED BY <1>6, <1>8, <1>9, <1>10, <1>11, <1>12 DEF Inv

LEMMA FailsStep == ASSUME Inv, NEW c \in Calls, Fails(c) PROVE Inv'
  <1>1. CASE call[c].pc \in {"expire", "prune"}
    BY <1>1, FailsAsking
  <1>2. CASE call[c].pc \in {"insert", "claimed", "undo", "approved"}
    BY <1>2, FailsInsert, FailsMark, FailsUndo, FailsLink
  <1>3. CASE call[c].pc \in {"created", "accountMinted"}
    <2>1. call' = [call EXCEPT ![c] = [call[c] EXCEPT !.pc = "undo"]]
      BY <1>3 DEF Fails, AfterError
    <2> QED BY <1>3, <2>1, FailsLeaves, UndoesStep
  <1>4. CASE call[c].pc \in {"asked", "marked", "cleared", "issued"}
    <2>1. Goes(c, "refused")
      BY <1>4 DEF Fails, AfterError, Goes
    <2> QED BY <1>4, <2>1, FailsLeaves, GoesStep DEF tables, Inv, TypeOK
  <1>5. CASE call[c].pc \in {"found", "attachMinted", "reissue", "reissueMinted"}
    <2>1. Ends(c)
      BY <1>5 DEF Fails, AfterError, Ends
    <2> QED BY <1>5, <2>1, FailsLeaves, EndsStep DEF Owning
  <1>6. call[c].pc \in {"expire", "prune", "insert", "created", "found", "accountMinted",
                        "attachMinted", "approved", "undo", "reissue", "reissueMinted", "asked",
                        "claimed", "marked", "cleared", "issued"}
    BY Fields DEF Fails, Inv, Call
  <1> QED BY <1>1, <1>2, <1>3, <1>4, <1>5, <1>6

LEMMA StopStep == ASSUME Inv, Stop PROVE Inv'
  <1>1. /\ UNCHANGED <<tables, told, sessions, granted, renewed, acts>>
        /\ call' = [c \in Calls |-> Free]
        /\ page' = [r \in Requests |-> IF page[r] = "asking" THEN "over" ELSE page[r]]
    BY DEF Stop
  <1>2. /\ \A c \in Calls : call'[c] = Free
        /\ Free.pc = "free" /\ Free.code = 0 /\ ~Free.barred
    BY <1>1 DEF Free
  <1>3. faults' \in 0..MaxFaults
    BY Bounds DEF Stop, Faults, Inv, TypeOK
  <1>4. /\ unmarked \subseteq unmarked' /\ unmarked' \subseteq Codes
        /\ left \subseteq left' /\ left' \subseteq Accounts
    BY DEF Stop, Inv, TypeOK
  <1>5. TypeOK'
    BY <1>1, <1>3, <1>4, RestTypes DEF tables, Inv, TypeOK
  <1>6. Rows' /\ ApprovedOnce' /\ NamesItsAccount'
    <2>1. \A r \in Requests : page'[r] \in Unsent => page[r] \in Unsent
      BY <1>1 DEF Unsent
    <2> QED BY <1>1, <2>1 DEF tables, Inv, Rows, ApprovedOnce, NamesItsAccount
  <1>7. Askers' /\ Deciders' /\ Coded'
    <2>1. 0 <= minted'
      BY <1>1, Fields DEF tables, Inv
    <2> QED BY <1>2, <2>1 DEF Askers, Deciders, Decider, Coded, Asking, Deciding, Unspoken
  <1>8. Redeemers'
    <2>1. \A c \in Calls : Redeemer(c)'
      BY <1>2 DEF Redeemer, Redeeming, Claimed, Served
    <2>2. /\ \A k \in Codes : sessions'[k] # 0 => sessions'[k] = 1 /\ k <= minted' /\ code'[k].used
          /\ \A m \in memo' : sessions'[m.code] = 1
      BY <1>1 DEF tables, Inv, Redeemers
    <2> QED BY <1>2, <2>1, <2>2 DEF Redeemers, Claimed
  <1>9. Shown'
    <2> SUFFICES ASSUME NEW r \in Requests, request[r].code # 0, code[request[r].code].used,
                        request[r].code \notin unmarked', request[r].status # "redeemed"
                 PROVE  FALSE
      BY <1>1 DEF Shown, tables
    <2>1. PICK c \in Calls : call[c].pc = "claimed" /\ call[c].code = request[r].code
      BY <1>4 DEF Inv, Shown
    <2>2. request[r].code \in Codes
      BY Fields, Bounds DEF Inv, Codes
    <2> QED BY <2>1, <2>2 DEF Stop, At
  <1>10. Owned'
    <2> SUFFICES ASSUME NEW a \in Accounts \ ({Household} \cup left'), account[a] = "active"
                 PROVE  \E g \in granted : g[2] <= minted /\ code[g[2]].account = a
      BY <1>1 DEF Owned, tables
    <2>1. ~ \E c \in Calls : call[c].account = a /\ call[c].pc \in Owning
      BY DEF Stop, Owning
    <2> QED BY <1>4, <2>1 DEF Inv, Owned
  <1> QED BY <1>5, <1>6, <1>7, <1>8, <1>9, <1>10 DEF Inv

LEMMA ReinstateStep == ASSUME Inv, Reinstate PROVE Inv'
  <1>1. /\ UNCHANGED <<request, code, minted, account, memo, page, told>>
        /\ UNCHANGED <<sessions, granted, renewed, unmarked, left, faults>>
        /\ suspended' = FALSE /\ acts' \in 0..MaxActs
        /\ call' = [c \in Calls |-> [call[c] EXCEPT !.barred = FALSE]]
    BY Bounds DEF Reinstate, Acts, lapses, Inv, TypeOK
  <1>2. ASSUME NEW c \in Calls
        PROVE  /\ call'[c] \in Call /\ call'[c].pc = call[c].pc
               /\ call'[c].request = call[c].request /\ call'[c].account = call[c].account
               /\ call'[c].code = call[c].code /\ call'[c].key = call[c].key
               /\ ~call'[c].barred
    <2>1. call'[c] = [call[c] EXCEPT !.barred = FALSE] /\ call[c] \in Call
      BY <1>1, Fields DEF Inv
    <2> QED BY <2>1 DEF Call
  <1>3. call' \in [Calls -> Call]
    <2>1. call' = [c \in Calls |-> call'[c]]
      BY <1>1
    <2> QED BY <1>2, <2>1
  <1>4. TypeOK'
    BY <1>1, <1>3 DEF Inv, TypeOK
  <1>5. Rows' /\ Askers' /\ Shown' /\ Owned' /\ Coded' /\ ApprovedOnce' /\ NamesItsAccount'
    <2>1. Rows' /\ ApprovedOnce' /\ NamesItsAccount'
      BY <1>1 DEF Inv, Rows, ApprovedOnce, NamesItsAccount
    <2>2. Askers' /\ Coded'
      BY <1>1, <1>2 DEF Inv, Askers, Coded
    <2>3. Shown'
      <3> SUFFICES ASSUME NEW r \in Requests, request[r].code # 0, code[request[r].code].used,
                          request[r].code \notin unmarked, request[r].status # "redeemed"
                   PROVE  \E c \in Calls : call'[c].pc = "claimed" /\ call'[c].code = request[r].code
        BY <1>1 DEF Shown
      <3>1. PICK c \in Calls : call[c].pc = "claimed" /\ call[c].code = request[r].code
        BY DEF Inv, Shown
      <3> QED BY <1>2, <3>1
    <2>4. Owned'
      <3> SUFFICES ASSUME NEW a \in Accounts \ ({Household} \cup left), account[a] = "active"
                   PROVE  \/ \E c \in Calls : call'[c].account = a /\ call'[c].pc \in Owning
                          \/ \E g \in granted : g[2] <= minted /\ code[g[2]].account = a
        BY <1>1 DEF Owned
      <3>1. CASE \E c \in Calls : call[c].account = a /\ call[c].pc \in Owning
        BY <1>2, <3>1
      <3>2. CASE \E g \in granted : g[2] <= minted /\ code[g[2]].account = a
        BY <3>2
      <3> QED BY <3>1, <3>2 DEF Inv, Owned
    <2> QED BY <2>1, <2>2, <2>3, <2>4
  <1>6. Deciders'
    <2>1. ASSUME NEW c \in Calls PROVE Decider(c)'
      <3>1. Decider(c)
        BY DEF Inv, Deciders
      <3>2. Unshared(c) => Unshared(c)'
        <4>1. /\ \A d \in Calls : call'[d].code = call[d].code
              /\ call'[c].code = call[c].code /\ call'[c].account = call[c].account
              /\ code' = code /\ minted' = minted /\ told' = told /\ request' = request
          BY <1>1, <1>2
        <4> SUFFICES ASSUME Unshared(c) PROVE Unshared(c)'
          OBVIOUS
        <4> QED BY <4>1 DEF Unshared
      <3>3. Unlinked(c) => Unlinked(c)'
        BY <1>1, <1>2 DEF Unlinked
      <3> QED BY <1>1, <1>2, <3>1, <3>2, <3>3 DEF Decider
    <2> QED BY <1>2, <2>1 DEF Inv, Deciders
  <1>7. Redeemers'
    <2>1. ASSUME NEW c \in Calls PROVE Redeemer(c)'
      <3>1. Redeemer(c)
        BY DEF Inv, Redeemers
      <3> QED BY <1>1, <1>2, <3>1 DEF Redeemer
    <2> QED BY <1>1, <1>2, <2>1 DEF Inv, Redeemers
  <1> QED BY <1>4, <1>5, <1>6, <1>7 DEF Inv

-----------------------------------------------------------------------------
(* The theorems.                                                             *)

LEMMA CallsStep ==
  ASSUME Inv, NEW c \in Calls,
         \/ \E r \in Requests :
              RequestBegin(c, r) \/ ApproveCreate(c, r) \/ AttachFind(c, r) \/ Reissue(c, r)
         \/ RequestOther(c) \/ ExpirePendingDevices(c) \/ PruneRetired(c)
         \/ Insert(c) \/ InsertOther(c)
         \/ ApproveMint(c) \/ AttachMint(c) \/ Approve(c) \/ Link(c) \/ Undo(c)
         \/ ReissueMint(c) \/ ReissueWrite(c)
         \/ \E k \in told, key \in Keys \cup {NoKey} : Redeem(c, k, key)
         \/ Claim(c) \/ Mark(c) \/ Check(c) \/ Issue(c) \/ Remember(c) \/ Answer(c)
         \/ Fails(c)
  PROVE  Inv'
  <1>1. CASE \E r \in Requests :
               RequestBegin(c, r) \/ ApproveCreate(c, r) \/ AttachFind(c, r) \/ Reissue(c, r)
    BY <1>1, RequestBeginStep, ApproveCreateStep, AttachFindStep, ReissueStep
  <1>2. CASE \/ RequestOther(c) \/ ExpirePendingDevices(c) \/ PruneRetired(c)
             \/ Insert(c) \/ InsertOther(c)
    BY <1>2, RequestOtherStep, ExpireStep, PruneStep, InsertStep, InsertOtherStep
  <1>3. CASE \/ ApproveMint(c) \/ AttachMint(c) \/ Approve(c) \/ Link(c) \/ Undo(c)
             \/ ReissueMint(c) \/ ReissueWrite(c)
    BY <1>3, MintSteps, ApproveStep, LinkStep, UndoStep, ReissueWriteStep
  <1>4. CASE \E k \in told, key \in Keys \cup {NoKey} : Redeem(c, k, key)
    BY <1>4, RedeemStep
  <1>5. CASE \/ Claim(c) \/ Mark(c) \/ Check(c) \/ Issue(c) \/ Remember(c) \/ Answer(c)
             \/ Fails(c)
    BY <1>5, ClaimStep, MarkStep, CheckStep, IssueStep, RememberStep, AnswerStep, FailsStep
  <1> QED BY <1>1, <1>2, <1>3, <1>4, <1>5

LEMMA StepInv == Inv /\ [Next]_vars => Inv'
  <1> SUFFICES ASSUME Inv, [Next]_vars PROVE Inv'
    OBVIOUS
  <1>1. CASE \E r \in Requests :
               Reject(r) \/ Watch(r) \/ Withdraw(r) \/ Cancel(r) \/ RequestAges(r)
    BY <1>1, RejectStep, WatchStep, WithdrawStep, CancelStep, RequestAgesStep
  <1>2. CASE \/ \E k \in Codes : CodeAges(k)
             \/ DeleteAccount \/ PortalMint \/ Suspend \/ Reinstate \/ Stop
    BY <1>2, CodeAgesStep, DeleteAccountStep, PortalMintStep, SuspendStep, ReinstateStep, StopStep
  <1>3. CASE UNCHANGED vars
    <2>1. TypeOK'
      BY <1>3 DEF vars, tables, history, lapses, Inv, TypeOK
    <2> QED BY <1>3, <2>1, IdleStep DEF vars, tables, history, lapses
  <1> QED BY <1>1, <1>2, <1>3, CallsStep DEF Next

(* The invariant every theorem rests on.                                     *)
LEMMA InvHolds == Spec => []Inv
  <1> QED BY InitInv, StepInv, PTL DEF Spec

(* Type correctness of tables, cards and handlers.                           *)
THEOREM TypeCorrect == Spec => []TypeOK
  <1>1. Inv => TypeOK
    BY DEF Inv
  <1> QED BY <1>1, InvHolds, PTL

(* However many redemptions of a code run at once, retry, or race its        *)
(* expiry, one session comes of it at most (ConsumePairingCode), and an      *)
(* answer, first or repeated, is that of the code presented                  *)
(* (RedeemPairingCode).                                                      *)
THEOREM OneSessionHolds == Spec => []OneSessionPerCode
  <1>1. Inv => \A k \in Codes : sessions[k] <= 1
    BY DEF Inv, Redeemers
  <1>2. Inv => AnswersItsCode
    BY DEF Inv, Redeemers, Redeemer, Served, AnswersItsCode
  <1>3. Inv => OneSessionPerCode
    BY <1>1, <1>2 DEF OneSessionPerCode
  <1> QED BY <1>3, InvHolds, PTL

(* A request that was refused, withdrawn or timed out has opened no account  *)
(* (ApprovePendingDevice and ResolvePendingDevice move only pending ones).   *)
THEOREM RefusedHolds == Spec => []RefusedGetsNothing
  <1>1. Inv => RefusedGetsNothing
    BY DEF Inv, Rows, RefusedGetsNothing
  <1> QED BY <1>1, InvHolds, PTL

(* Of several operators, or ways to approve, one approval wins.              *)
THEOREM ApprovedOnceHolds == Spec => []ApprovedOnce
  <1>1. Inv => ApprovedOnce
    BY DEF Inv
  <1> QED BY <1>1, InvHolds, PTL

(* An operator who lost the race leaves no account behind, save one whose    *)
(* removal has failed or that the server stopped with                        *)
(* (approvePendingDeviceAsNewUser).                                          *)
THEOREM LosersHolds == Spec => []LosersLeaveNothing
  <1>1. Inv => LosersLeaveNothing
    BY DEF Inv, Owned, LosersLeaveNothing
  <1> QED BY <1>1, InvHolds, PTL

(* Of the two columns that different statements write, account and code, the *)
(* one names what the other opens (SetPendingDeviceAccount,                  *)
(* ReissuePairingCode).                                                      *)
THEOREM NamesHolds == Spec => []NamesItsAccount
  <1>1. Inv => NamesItsAccount
    BY DEF Inv
  <1> QED BY <1>1, InvHolds, PTL

(* A used code shows on its request as soon as its redemption has ended, or  *)
(* the mark of that very code has failed: no other handler, order or failure *)
(* keeps it from showing (MarkPendingDeviceRedeemedByCode).                  *)
THEOREM UsedHolds == Spec => []UsedIsShown
  <1>1. Inv => UsedIsShown
    BY DEF Inv, Shown, UsedIsShown
  <1> QED BY <1>1, InvHolds, PTL

(* A code claimed while the account is suspended gets no session before the  *)
(* account is reinstated (RedeemPairingCode asks after it claims).           *)
THEOREM SuspendedHolds == Spec => []SuspendedGetsNothing
  <1>1. Inv => SuspendedGetsNothing
    BY DEF Inv, Redeemers, Redeemer, SuspendedGetsNothing
  <1> QED BY <1>1, InvHolds, PTL

-----------------------------------------------------------------------------
(* A refusal stands.                                                         *)

Stands(r) == request[r].status \in Refused => request'[r].status \in {request[r].status, "none"}

LEMMA StandsCalls ==
  ASSUME Inv, NEW c \in Calls, NEW r \in Requests,
         \/ ExpirePendingDevices(c) \/ PruneRetired(c) \/ Insert(c)
         \/ Approve(c) \/ Link(c) \/ ReissueWrite(c) \/ Mark(c)
  PROVE  Stands(r)
  <1>0. request \in [Requests -> Request] /\ request[r] \in Request /\ "pending" \notin Refused
    BY Fields DEF Inv, TypeOK, Refused
  <1>1. CASE ExpirePendingDevices(c)
    BY <1>0, <1>1 DEF ExpirePendingDevices, Stands
  <1>2. CASE PruneRetired(c)
    BY <1>0, <1>2 DEF PruneRetired, Stands, NoRow
  <1>3. CASE Insert(c)
    <2>1. /\ request' = [request EXCEPT ![call[c].request] = [NoRow EXCEPT !.status = "pending"]]
          /\ call[c].pc = "insert" /\ call[c].request # NoRequest
      BY <1>3 DEF Insert, At
    <2>2. r = call[c].request => request[r].status = "none"
      BY <2>1 DEF Inv, Askers, Asking, Rows, Unsent
    <2>3. r # call[c].request => request'[r] = request[r]
      BY <1>0, <2>1
    <2> QED BY <2>2, <2>3 DEF Stands, Refused
  <1>4. CASE Approve(c)
    <2>1. request'[r] = request[r] \/ request[r].status = "pending"
      BY <1>0, <1>4 DEF Approve, MayApprove
    <2> QED BY <1>0, <2>1 DEF Stands
  <1>5. CASE Link(c)
    <2> DEFINE linked == [request[r] EXCEPT !.account = call[c].account]
    <2>1. linked.status = request[r].status
      BY <1>0 DEF Request
    <2>2. request'[r] \in {request[r], linked}
      BY <1>0, <1>5 DEF Link
    <2> HIDE DEF linked
    <2> QED BY <2>1, <2>2 DEF Stands
  <1>6. CASE ReissueWrite(c)
    <2> DEFINE h == call[c]
    <2>1. /\ h.account # NoAccount
          /\ request[h.request].status = "none" \/ request[h.request].account = h.account
          /\ h.request \in Requests
      BY <1>6, Bounds DEF ReissueWrite, Inv, Deciders, Decider, Deciding
    <2>2. request[h.request].status = "none" \/ request[h.request].status \in Open
      BY <2>1 DEF Inv, Rows
    <2>3. r # h.request => request'[r] = request[r]
      BY <1>0, <1>6 DEF ReissueWrite
    <2> QED BY <2>2, <2>3 DEF Stands, Refused, Open
  <1>7. CASE Mark(c)
    <2>1. request'[r] = request[r] \/ request[r].status = "approved"
      BY <1>0, <1>7 DEF Mark, MarkedBy
    <2> QED BY <2>1 DEF Stands, Refused
  <1> QED BY <1>1, <1>2, <1>3, <1>4, <1>5, <1>6, <1>7

LEMMA StandsRequests ==
  ASSUME Inv, NEW q \in Requests, NEW r \in Requests,
         Reject(q) \/ Watch(q) \/ Withdraw(q) \/ Cancel(q) \/ RequestAges(q)
  PROVE  Stands(r)
  <1>0. request \in [Requests -> Request] /\ request[r] \in Request /\ "pending" \notin Refused
    BY Fields DEF Inv, TypeOK, Refused
  <1>1. CASE Reject(q)
    <2>1. request'[r] = request[r] \/ request[r].status = "pending"
      BY <1>0, <1>1 DEF Reject, MayResolve
    <2> QED BY <1>0, <2>1 DEF Stands
  <1>2. CASE Watch(q) \/ Withdraw(q)
    BY <1>2 DEF Watch, Withdraw, tables, Stands
  <1>3. CASE Cancel(q)
    <2>1. request'[r] = request[r] \/ request[r].status = "pending"
      BY <1>0, <1>3 DEF Cancel, MayResolve
    <2> QED BY <1>0, <2>1 DEF Stands
  <1>4. CASE RequestAges(q)
    <2>1. PICK age \in {"late", "old"} : request' = [request EXCEPT ![q].age = age]
      BY <1>4 DEF RequestAges
    <2> DEFINE older == [request[r] EXCEPT !.age = age]
    <2>2. older.status = request[r].status
      BY <1>0 DEF Request
    <2>3. request'[r] \in {request[r], older}
      BY <1>0, <2>1
    <2> HIDE DEF older
    <2> QED BY <2>2, <2>3 DEF Stands
  <1> QED BY <1>1, <1>2, <1>3, <1>4

LEMMA StandsStep == Inv /\ [Next]_vars => \A r \in Requests : Stands(r)
  <1> SUFFICES ASSUME Inv, [Next]_vars, NEW r \in Requests PROVE Stands(r)
    OBVIOUS
  <1>1. CASE UNCHANGED request
    BY <1>1 DEF Stands
  <1>2. ASSUME NEW c \in Calls,
               \/ \E q \in Requests :
                    RequestBegin(c, q) \/ ApproveCreate(c, q) \/ AttachFind(c, q) \/ Reissue(c, q)
               \/ RequestOther(c) \/ InsertOther(c) \/ ApproveMint(c) \/ AttachMint(c)
               \/ Undo(c) \/ ReissueMint(c)
               \/ \E k \in told, key \in Keys \cup {NoKey} : Redeem(c, k, key)
               \/ Claim(c) \/ Check(c) \/ Issue(c) \/ Remember(c) \/ Answer(c) \/ Fails(c)
        PROVE  UNCHANGED request
    BY <1>2 DEF RequestBegin, ApproveCreate, AttachFind, Reissue, RequestOther, InsertOther,
                ApproveMint, AttachMint, Undo, ReissueMint, Redeem, Claim, Check, Issue,
                Remember, Answer, Fails, tables
  <1>3. ASSUME \/ \E k \in Codes : CodeAges(k)
               \/ DeleteAccount \/ PortalMint \/ Suspend \/ Reinstate \/ Stop
               \/ UNCHANGED vars
        PROVE  UNCHANGED request
    BY <1>3 DEF CodeAges, DeleteAccount, PortalMint, Suspend, Reinstate, Stop, vars, tables
  <1> QED BY <1>1, <1>2, <1>3, StandsCalls, StandsRequests DEF Next

(* A refusal, a withdrawal or a timeout is final, although approvals,        *)
(* reissues and links write what they read before (ApprovePendingDevice).    *)
THEOREM RefusalHolds == Spec => RefusalStands
  <1>1. Inv /\ [Next]_vars =>
          [\A r \in Requests :
             request[r].status \in Refused =>
               request'[r].status \in {request[r].status, "none"}]_vars
    BY StandsStep DEF Stands
  <1> QED BY <1>1, InvHolds, PTL DEF Spec, RefusalStands
=============================================================================
