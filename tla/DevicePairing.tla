---------------------------- MODULE DevicePairing ----------------------------
(***************************************************************************)
(* Pairing a device without credentials: it asks, an operator approves the *)
(* request as a new account or onto the household's, or rejects it, or     *)
(* reissues a lapsed code; the device watches for the decision, withdraws, *)
(* or redeems the code it is given for a session.  Redeeming again with    *)
(* the same idempotency key repeats the answer.                            *)
(*                                                                         *)
(* Each handler is its database statements, one action each; statements of *)
(* other handlers come in between, any of them may fail, and the server    *)
(* may stop.  Two neighbouring reads whose facts cannot change, or whose   *)
(* change the next statement notices, are one.  Ten minutes, five minutes  *)
(* and thirty days are ages of the rows, looked at when a handler starts.  *)
(***************************************************************************)
EXTENDS Naturals, FiniteSets

CONSTANTS
  Requests,    \* the requests followed
  Calls,       \* handlers the server can have at once
  Keys,        \* idempotency keys
  MaxCodes,    \* bound on the codes minted, for model checking
  MaxAccounts, \* bound on the accounts made by approval
  MaxActs,     \* bound on reissues, deletions, suspensions, reinstatements,
               \* portal codes and faults
  MaxFaults,   \* bound on failing statements and stops of the server
  NoRequest, NoKey

ASSUME PairingAssumption ==
  /\ MaxCodes \in Nat /\ MaxAccounts \in Nat /\ MaxActs \in Nat /\ MaxFaults \in Nat
  /\ NoRequest \notin Requests /\ NoKey \notin Keys

VARIABLES
  request,   \* [Requests -> the row of pending_devices]
  page,      \* [Requests -> the card the requesting device shows]
  code,      \* [Codes -> the row of pairing_codes]
  minted,    \* codes minted so far
  account,   \* [Accounts -> the row of users]
  suspended, \* the household's account is suspended
  memo,      \* rows of idempotency_keys
  told,      \* codes a device or an operator has been told
  call,      \* [Calls -> the handler]
  sessions,  \* [Codes -> sessions issued for the code]
  granted,   \* history variable: <<request, code>> of every approval
  renewed,   \* history variable: <<request, code>> of every reissue
  unmarked,  \* history variable: used codes whose marking failed
  left,      \* history variable: accounts whose removal or handler failed
  acts,      \* history variable: acts counted by MaxActs
  faults     \* history variable: faults counted by MaxFaults

tables == <<request, code, minted, account, suspended, memo>>
lapses == <<unmarked, left, faults>>
history == <<sessions, granted, renewed, lapses, acts>>
vars == <<tables, page, told, call, history>>

Codes == 1..MaxCodes
Household == 0
NoAccount == MaxAccounts + 1
Accounts == Household..MaxAccounts

Undecided == {"none", "pending"}
Refused == {"rejected", "canceled", "expired"}
Statuses == Undecided \cup Refused \cup {"approved", "redeemed"}

(* `age': "late" past expires_at, "old" past its retention.                  *)
Request == [status: Statuses, age: {"fresh", "late", "old"},
            code: 0..MaxCodes, account: Accounts \cup {NoAccount}]
NoRow == [status |-> "none", age |-> "fresh", code |-> 0, account |-> NoAccount]

Code == [account: Accounts \cup {NoAccount}, used: BOOLEAN, late: BOOLEAN]
NoCode == [account |-> NoAccount, used |-> FALSE, late |-> FALSE]

(* A handler; `timely': what it decides on was in time when it started.      *)
(* `barred' is history: the account has been suspended since before the code *)
(* was claimed.                                                              *)
Call == [pc: {"free",
              "expire", "prune", "insert",
              "created", "found", "accountMinted", "attachMinted",
              "approved", "undo",
              "reissue", "reissueMinted",
              "asked", "claimed", "marked", "cleared", "issued",
              "paired", "refused"},
         request: Requests \cup {NoRequest}, account: Accounts \cup {NoAccount},
         code: 0..MaxCodes, key: Keys \cup {NoKey}, timely: BOOLEAN, barred: BOOLEAN]
Free == [pc |-> "free", request |-> NoRequest, account |-> NoAccount,
         code |-> 0, key |-> NoKey, timely |-> FALSE, barred |-> FALSE]

Init ==
  /\ request = [r \in Requests |-> NoRow]
  /\ page = [r \in Requests |-> "new"]
  /\ code = [k \in Codes |-> NoCode]
  /\ minted = 0
  /\ account = [a \in Accounts |-> IF a = Household THEN "active" ELSE "none"]
  /\ suspended = FALSE
  /\ memo = {} /\ told = {}
  /\ call = [c \in Calls |-> Free]
  /\ sessions = [k \in Codes |-> 0]
  /\ granted = {} /\ renewed = {} /\ unmarked = {} /\ left = {}
  /\ acts = 0 /\ faults = 0

Starts(c, h) == call[c].pc = "free" /\ call' = [call EXCEPT ![c] = h]
At(c, pc) == call[c].pc = pc
Goes(c, pc) == call' = [call EXCEPT ![c].pc = pc]
Ends(c) == call' = [call EXCEPT ![c] = Free]
Acts == acts + faults < MaxActs /\ acts' = acts + 1
Faults == faults < MaxFaults /\ acts + faults < MaxActs /\ faults' = faults + 1

-----------------------------------------------------------------------------
(* RequestDevicePairing: MintPendingDevice times out and prunes other        *)
(* requests before it inserts its own.  NoRequest stands for the request of  *)
(* a device whose row is not followed.                                       *)

RequestBegin(c, r) ==
  /\ page[r] = "new"
  /\ Starts(c, [Free EXCEPT !.pc = "expire", !.request = r])
  /\ page' = [page EXCEPT ![r] = "asking"]
  /\ UNCHANGED <<tables, told, history>>

ExpirePendingDevices(c) ==
  /\ At(c, "expire") /\ Goes(c, "prune")
  /\ request' = [r \in Requests |->
       IF request[r].status = "pending" /\ request[r].age # "fresh"
         THEN [request[r] EXCEPT !.status = "expired"] ELSE request[r]]
  /\ UNCHANGED <<page, code, minted, account, suspended, memo, told, history>>

PruneRetired(c) ==
  /\ At(c, "prune") /\ Goes(c, "insert")
  /\ request' = [r \in Requests |->
       IF request[r].status # "pending" /\ request[r].age = "old"
         THEN NoRow ELSE request[r]]
  /\ UNCHANGED <<page, code, minted, account, suspended, memo, told, history>>

RequestOther(c) ==
  /\ Starts(c, [Free EXCEPT !.pc = "expire"])
  /\ UNCHANGED <<tables, page, told, history>>

Insert(c) ==
  /\ At(c, "insert") /\ call[c].request # NoRequest /\ Ends(c)
  /\ request' = [request EXCEPT ![call[c].request] = [NoRow EXCEPT !.status = "pending"]]
  /\ page' = [page EXCEPT ![call[c].request] = "waiting"]
  /\ UNCHANGED <<code, minted, account, suspended, memo, told, history>>

InsertOther(c) ==
  /\ At(c, "insert") /\ call[c].request = NoRequest /\ Ends(c)
  /\ UNCHANGED <<tables, page, told, history>>

-----------------------------------------------------------------------------
(* Approval.                                                                 *)

(* Fault: the code is stored without its account.                            *)
Mint_Unowned(c, a, pc) ==
  /\ minted < MaxCodes
  /\ minted' = minted + 1
  /\ code' = [code EXCEPT ![minted + 1] = NoCode]
  /\ call' = [call EXCEPT ![c].pc = pc, ![c].code = minted + 1]

(* MintPairingCode for account a, by handler c, which goes on at pc.         *)
Mint(c, a, pc) ==
  /\ minted < MaxCodes
  /\ minted' = minted + 1
  /\ code' = [code EXCEPT ![minted + 1] = [NoCode EXCEPT !.account = a]]
  /\ call' = [call EXCEPT ![c].pc = pc, ![c].code = minted + 1]

(* approvePendingDeviceAsNewUser: the account first.                         *)
ApproveCreate(c, r) ==
  \E a \in Accounts \ {Household} :
    /\ account[a] = "none" /\ \A b \in 1..(a - 1) : account[b] # "none"
    /\ page[r] \notin {"new", "asking"}
    /\ Starts(c, [Free EXCEPT !.pc = "created", !.request = r, !.account = a,
                              !.timely = request[r].age = "fresh"])
    /\ account' = [account EXCEPT ![a] = "active"]
    /\ UNCHANGED <<request, code, minted, suspended, memo, page, told, history>>
ApproveMint(c) ==
  /\ At(c, "created") /\ Mint(c, call[c].account, "accountMinted")
  /\ UNCHANGED <<request, account, suspended, memo, page, told, history>>

(* attachPendingDeviceToUser: the household's account must not be suspended. *)
AttachFind(c, r) ==
  /\ page[r] \notin {"new", "asking"} /\ account[Household] = "active" /\ ~suspended
  /\ Starts(c, [Free EXCEPT !.pc = "found", !.request = r, !.account = Household,
                            !.timely = request[r].age = "fresh"])
  /\ UNCHANGED <<tables, page, told, history>>
AttachMint(c) ==
  /\ At(c, "found") /\ Mint(c, Household, "attachMinted")
  /\ UNCHANGED <<request, account, suspended, memo, page, told, history>>

(* Fault: the request is approved in whatever state it is.                   *)
MayApprove_Any(row, timely) == row.status # "none"

MayApprove(row, timely) == row.status = "pending" /\ timely

(* Fault: it goes on and names its account on the request.                   *)
AfterLosing_Links(pc) == "approved"

(* The handler that lost removes the account it made.                        *)
AfterLosing(pc) == IF pc = "accountMinted" THEN "undo" ELSE "free"

(* ApprovePendingDevice: only while pending and in time.                     *)
Approve(c) ==
  LET h == call[c] IN
  /\ h.pc \in {"accountMinted", "attachMinted"}
  /\ \/ /\ MayApprove(request[h.request], h.timely)
        /\ request' = [request EXCEPT
             ![h.request] = [@ EXCEPT !.status = "approved", !.code = h.code]]
        /\ granted' = granted \cup {<<h.request, h.code>>}
        /\ Goes(c, "approved")
     \/ /\ ~MayApprove(request[h.request], h.timely)
        /\ call' = [call EXCEPT ![c] =
             IF AfterLosing(h.pc) = "free" THEN Free ELSE [h EXCEPT !.pc = AfterLosing(h.pc)]]
        /\ UNCHANGED <<request, granted>>
  /\ UNCHANGED <<page, code, minted, account, suspended, memo, told, sessions, renewed, lapses, acts>>

(* SetPendingDeviceAccount, whatever the row is by now; the operator is      *)
(* told the code.                                                            *)
Link(c) ==
  LET h == call[c] IN
  /\ h.pc = "approved" /\ Ends(c)
  /\ request' = [request EXCEPT
       ![h.request] = IF @.status = "none" THEN @ ELSE [@ EXCEPT !.account = h.account]]
  /\ told' = told \cup {h.code}
  /\ UNCHANGED <<page, code, minted, account, suspended, memo, history>>

(* DeleteAccount, here and from the console; pairing codes are kept.         *)
Deleted(a) ==
  /\ account' = [account EXCEPT ![a] = "deleted"]
  /\ memo' = {m \in memo : m.account # a}
Undo(c) ==
  /\ At(c, "undo") /\ Ends(c) /\ Deleted(call[c].account)
  /\ UNCHANGED <<request, code, minted, suspended, page, told, history>>
DeleteAccount ==
  /\ \E a \in Accounts : account[a] = "active" /\ Deleted(a)
  /\ Acts
  /\ UNCHANGED <<request, code, minted, suspended, page, told, call, sessions, granted, renewed,
                 lapses>>

(* Fault: a decision is recorded over an approval.                           *)
MayResolve_Approved(row) == row.status \in {"pending", "approved"}

(* ResolvePendingDevice's condition.                                         *)
MayResolve(row) == row.status = "pending"

(* RejectPendingDevice: only while pending, late or not.                     *)
Reject(r) ==
  /\ MayResolve(request[r])
  /\ request' = [request EXCEPT ![r].status = "rejected"]
  /\ UNCHANGED <<page, code, minted, account, suspended, memo, told, call, history>>

-----------------------------------------------------------------------------
(* ReissuePairingCode: the row is read, a code minted, and the row written   *)
(* whatever it has become.                                                   *)

Reissue(c, r) ==
  /\ request[r].account # NoAccount
  /\ request[r].status \in {"approved", "expired"}
  /\ Starts(c, [Free EXCEPT !.pc = "reissue", !.request = r,
                            !.account = request[r].account])
  /\ Acts
  /\ UNCHANGED <<tables, page, told, sessions, granted, renewed, lapses>>
ReissueMint(c) ==
  /\ At(c, "reissue") /\ Mint(c, call[c].account, "reissueMinted")
  /\ UNCHANGED <<request, account, suspended, memo, page, told, history>>
ReissueWrite(c) ==
  LET h == call[c] IN
  /\ h.pc = "reissueMinted" /\ Ends(c)
  /\ request' = [request EXCEPT
       ![h.request] = IF @.status = "none" THEN @
                      ELSE [@ EXCEPT !.status = "approved", !.code = h.code, !.age = "fresh"]]
  /\ told' = told \cup {h.code}
  /\ renewed' = renewed \cup {<<h.request, h.code>>}
  /\ UNCHANGED <<page, code, minted, account, suspended, memo, sessions, granted, lapses, acts>>

-----------------------------------------------------------------------------
(* The device's card: one watch, one decision, and a way out.                *)

(* WatchPairingStatus tells the decision, with the code.                     *)
Watch(r) ==
  /\ page[r] = "waiting"
  /\ \/ /\ request[r].status \in {"approved", "redeemed"}
        /\ page' = [page EXCEPT ![r] = "offered"]
        /\ told' = told \cup {request[r].code}
     \/ /\ request[r].status \in Refused \cup {"none"} \/ request[r].age # "fresh"
        /\ request[r].status \notin {"approved", "redeemed"}
        /\ page' = [page EXCEPT ![r] = "over"]
        /\ UNCHANGED told
  /\ UNCHANGED <<tables, call, history>>

(* The user withdraws, while waiting or because the code looks wrong; then   *)
(* CancelPendingDevice, which acts only on a pending request.                *)
Withdraw(r) ==
  /\ page[r] \in {"waiting", "offered"}
  /\ page' = [page EXCEPT ![r] = "withdrawing"]
  /\ UNCHANGED <<tables, told, call, history>>
Cancel(r) ==
  /\ page[r] = "withdrawing"
  /\ page' = [page EXCEPT ![r] = "withdrawn"]
  /\ request' = [request EXCEPT
       ![r] = IF MayResolve(@) THEN [@ EXCEPT !.status = "canceled"] ELSE @]
  /\ UNCHANGED <<code, minted, account, suspended, memo, told, call, history>>

-----------------------------------------------------------------------------
(* RedeemPairingCode.                                                        *)

(* A code minted in the portal for the signed-in household.                  *)
PortalMint ==
  /\ minted < MaxCodes /\ account[Household] = "active"
  /\ minted' = minted + 1
  /\ code' = [code EXCEPT ![minted + 1] = [NoCode EXCEPT !.account = Household]]
  /\ told' = told \cup {minted + 1}
  /\ Acts
  /\ UNCHANGED <<request, account, suspended, memo, page, call, sessions, granted, renewed,
                 lapses>>

(* Fault: a stored answer is given for whatever code the key comes with.     *)
Redeem_AnyCode(c, k, key) ==
  LET stored == {m \in memo : m.account = code[k].account /\ m.key = key} IN
  /\ k \in told
  /\ Starts(c, [Free EXCEPT !.code = k, !.key = key, !.timely = ~code[k].late,
                            !.pc = IF stored = {} THEN "asked" ELSE "paired"])
  /\ UNCHANGED <<tables, page, told, history>>

(* The code's account and the key are looked up: a stored answer is given    *)
(* again, and a key stored for another code refused.  Without a key, nothing *)
(* is looked up or stored.                                                   *)
Redeem(c, k, key) ==
  LET stored == {m \in memo : m.account = code[k].account /\ m.key = key} IN
  /\ k \in told
  /\ Starts(c, [Free EXCEPT
       !.code = k, !.key = key, !.timely = ~code[k].late,
       !.pc = CASE stored = {} -> "asked"
                [] \E m \in stored : m.code = k -> "paired"
                [] OTHER -> "refused"])
  /\ UNCHANGED <<tables, page, told, history>>

(* Fault: the code is read, and not claimed.                                 *)
MayClaim_Used(row, timely) == timely

(* ConsumePairingCode's condition.                                           *)
MayClaim(row, timely) == ~row.used /\ timely

Claim(c) ==
  LET h == call[c] IN
  /\ h.pc = "asked"
  /\ \/ /\ MayClaim(code[h.code], h.timely)
        /\ code' = [code EXCEPT ![h.code].used = TRUE]
        /\ call' = [call EXCEPT ![c].pc = "claimed", ![c].account = code[h.code].account,
                                ![c].barred = suspended /\ code[h.code].account = Household]
     \/ /\ ~MayClaim(code[h.code], h.timely)
        /\ Goes(c, "refused") /\ UNCHANGED code
  /\ UNCHANGED <<request, minted, account, suspended, memo, page, told, history>>

(* Fault: the request is not marked when another handler has touched it.     *)
MarkedBy_Unlinked(row, k) == row.code = k /\ row.status = "approved" /\ row.account # NoAccount

MarkedBy(row, k) == row.code = k /\ row.status = "approved"

(* MarkPendingDeviceRedeemedByCode.                                          *)
Mark(c) ==
  /\ At(c, "claimed") /\ Goes(c, "marked")
  /\ request' = [r \in Requests |->
       IF MarkedBy(request[r], call[c].code)
         THEN [request[r] EXCEPT !.status = "redeemed"] ELSE request[r]]
  /\ UNCHANGED <<page, code, minted, account, suspended, memo, told, history>>

(* Fault: only the account's existence is asked.                             *)
Passes_Suspended(a) == account[a] = "active"

(* The account must exist and must not be suspended.                         *)
Passes(a) == account[a] = "active" /\ (a = Household => ~suspended)

Check(c) ==
  /\ At(c, "marked")
  /\ Goes(c, IF Passes(call[c].account) THEN "cleared" ELSE "refused")
  /\ UNCHANGED <<tables, page, told, history>>

(* The session's user_id references users, so a deleted account gets none.   *)
Issue(c) ==
  LET h == call[c] IN
  /\ h.pc = "cleared"
  /\ IF account[h.account] = "active"
       THEN /\ sessions' = [sessions EXCEPT ![h.code] = @ + 1]
            /\ Goes(c, "issued")
       ELSE Goes(c, "refused") /\ UNCHANGED sessions
  /\ UNCHANGED <<tables, page, told, granted, renewed, lapses, acts>>

(* PutIdempotencyResult: the first answer of a key stays.                    *)
Remember(c) ==
  LET h == call[c] IN
  /\ h.pc = "issued"
  /\ IF h.key # NoKey /\ account[h.account] # "active"
       THEN Goes(c, "refused") /\ UNCHANGED memo
       ELSE /\ memo' = IF h.key = NoKey \/ \E m \in memo : m.account = h.account /\ m.key = h.key
                         THEN memo
                       ELSE memo \cup {[account |-> h.account, key |-> h.key, code |-> h.code]}
            /\ Goes(c, "paired")
  /\ UNCHANGED <<request, code, minted, account, suspended, page, told, history>>

(* The answer arrives or gets lost; the device may ask again.                *)
Answer(c) ==
  /\ call[c].pc \in {"paired", "refused"} /\ Ends(c)
  /\ UNCHANGED <<tables, page, told, history>>

-----------------------------------------------------------------------------
(* Statements that fail, and a server that stops.                            *)

(* Fault: an approval that fails leaves the account it made.                 *)
AfterError_NoCleanup(pc) ==
  CASE pc = "expire" -> "prune"
    [] pc = "prune" -> "insert"
    [] pc = "claimed" -> "marked"
    [] pc \in {"asked", "marked", "cleared", "issued"} -> "refused"
    [] OTHER -> "free"

(* Where a handler goes on after an error: an approval removes the account   *)
(* it made; housekeeping, the link and the mark are best-effort.             *)
AfterError(pc) ==
  CASE pc = "expire" -> "prune"
    [] pc = "prune" -> "insert"
    [] pc \in {"created", "accountMinted"} -> "undo"
    [] pc = "claimed" -> "marked"
    [] pc \in {"asked", "marked", "cleared", "issued"} -> "refused"
    [] OTHER -> "free"

Fails(c) ==
  LET h == call[c] IN
  /\ h.pc \notin {"free", "paired", "refused"} /\ Faults
  /\ call' = [call EXCEPT
       ![c] = IF AfterError(h.pc) = "free" THEN Free ELSE [h EXCEPT !.pc = AfterError(h.pc)]]
  /\ page' = [r \in Requests |-> IF h.pc = "insert" /\ h.request = r THEN "over" ELSE page[r]]
  /\ told' = told \cup {k \in {h.code} : h.pc = "approved"}
  /\ unmarked' = unmarked \cup {k \in {h.code} : h.pc = "claimed"}
  /\ left' = left \cup {a \in {h.account} : h.pc = "undo"}
  /\ UNCHANGED <<tables, sessions, granted, renewed, acts>>

(* Handlers are gone, rows stay.                                             *)
Stop ==
  /\ \E c \in Calls : call[c].pc # "free"
  /\ Faults
  /\ call' = [c \in Calls |-> Free]
  /\ page' = [r \in Requests |-> IF page[r] = "asking" THEN "over" ELSE page[r]]
  /\ unmarked' = unmarked \cup {k \in Codes : \E c \in Calls : At(c, "claimed") /\ call[c].code = k}
  /\ left' = left \cup {a \in Accounts : \E c \in Calls :
       call[c].pc \in {"created", "accountMinted", "undo"} /\ call[c].account = a}
  /\ UNCHANGED <<tables, told, sessions, granted, renewed, acts>>

-----------------------------------------------------------------------------
(* Time, as far as a statement can tell, and the operator's suspension of    *)
(* the household.                                                            *)

CodeAges(k) ==
  /\ k <= minted /\ ~code[k].late /\ ~code[k].used
  /\ code' = [code EXCEPT ![k].late = TRUE]
  /\ UNCHANGED <<request, minted, account, suspended, memo, page, told, call, history>>

RequestAges(r) ==
  /\ \/ /\ request[r].status # "none" /\ request[r].age = "fresh"
        /\ request' = [request EXCEPT ![r].age = "late"]
     \/ /\ request[r].status \notin Undecided /\ request[r].age = "late"
        /\ request' = [request EXCEPT ![r].age = "old"]
  /\ UNCHANGED <<page, code, minted, account, suspended, memo, told, call, history>>

Suspend ==
  /\ account[Household] = "active" /\ ~suspended /\ suspended' = TRUE
  /\ Acts
  /\ UNCHANGED <<request, code, minted, account, memo, page, told, call,
                 sessions, granted, renewed, lapses>>

(* SetUserSuspended(false).                                                  *)
Reinstate ==
  /\ account[Household] = "active" /\ suspended /\ suspended' = FALSE
  /\ call' = [c \in Calls |-> [call[c] EXCEPT !.barred = FALSE]]
  /\ Acts
  /\ UNCHANGED <<request, code, minted, account, memo, page, told,
                 sessions, granted, renewed, lapses>>

Next ==
  \/ \E c \in Calls :
       \/ \E r \in Requests :
            RequestBegin(c, r) \/ ApproveCreate(c, r) \/ AttachFind(c, r) \/ Reissue(c, r)
       \/ RequestOther(c) \/ ExpirePendingDevices(c) \/ PruneRetired(c)
       \/ Insert(c) \/ InsertOther(c)
       \/ ApproveMint(c) \/ AttachMint(c) \/ Approve(c) \/ Link(c) \/ Undo(c)
       \/ ReissueMint(c) \/ ReissueWrite(c)
       \/ \E k \in told, key \in Keys \cup {NoKey} : Redeem(c, k, key)
       \/ Claim(c) \/ Mark(c) \/ Check(c) \/ Issue(c) \/ Remember(c) \/ Answer(c)
       \/ Fails(c)
  \/ \E r \in Requests :
       Reject(r) \/ Watch(r) \/ Withdraw(r) \/ Cancel(r) \/ RequestAges(r)
  \/ \E k \in Codes : CodeAges(k)
  \/ DeleteAccount \/ PortalMint \/ Suspend \/ Reinstate \/ Stop

Spec == Init /\ [][Next]_vars

-----------------------------------------------------------------------------
(* Type invariant of the tables, the cards and the handlers; the codes       *)
(* minted are the first ones.                                                *)
TypeOK ==
  /\ request \in [Requests -> Request]
  /\ page \in [Requests -> {"new", "asking", "waiting", "offered", "withdrawing",
                            "withdrawn", "over"}]
  /\ code \in [Codes -> Code]
  /\ minted \in 0..MaxCodes
  /\ \A k \in Codes : code[k].account = NoAccount <=> k > minted
  /\ account \in [Accounts -> {"none", "active", "deleted"}]
  /\ suspended \in BOOLEAN
  /\ memo \subseteq [account: Accounts, key: Keys, code: Codes]
  /\ told \subseteq 1..minted
  /\ call \in [Calls -> Call]
  /\ sessions \in [Codes -> Nat]
  /\ granted \subseteq Requests \X Codes /\ renewed \subseteq Requests \X Codes
  /\ unmarked \subseteq Codes /\ left \subseteq Accounts
  /\ acts \in 0..MaxActs /\ faults \in 0..MaxFaults

(* Whoever is answered with a session is answered with that of the code it   *)
(* presented: a repeated answer repeats it, and a key stored with another    *)
(* code gets none (RedeemPairingCode compares the stored request hash).      *)
AnswersItsCode == \A c \in Calls : call[c].pc = "paired" => sessions[call[c].code] = 1

(* However redemptions of a code interleave, retry and race its expiry, one  *)
(* session comes of it at most, and a device is told of none but its code's  *)
(* (ConsumePairingCode: "a second redemption of the same code ... always     *)
(* fails").                                                                  *)
OneSessionPerCode == (\A k \in Codes : sessions[k] <= 1) /\ AnswersItsCode

(* A refusal, a withdrawal or a timeout is final: no approval or reissue     *)
(* that read the request before overwrites it (ApprovePendingDevice: "never  *)
(* overwrites a decision already made").                                     *)
RefusalStands ==
  [][\A r \in Requests :
       request[r].status \in Refused =>
         request'[r].status \in {request[r].status, "none"}]_vars

(* A request that shows as refused, withdrawn or timed out has never opened  *)
(* an account, however its decision raced an approval (ResolvePendingDevice  *)
(* moves only a still-pending request).                                      *)
RefusedGetsNothing ==
  \A r \in Requests :
    request[r].status \in Refused => \A k \in Codes : <<r, k>> \notin granted

(* One approval per request: of two operators, or two ways to approve, one   *)
(* wins.                                                                     *)
ApprovedOnce ==
  \A r \in Requests : \A j, k \in Codes :
    <<r, j>> \in granted /\ <<r, k>> \in granted => j = k

(* The operator who lost leaves no account behind: one made by approval that *)
(* still exists belongs to a handler in progress or to an approved request,  *)
(* unless its removal failed or the server stopped with it in hand           *)
(* (approvePendingDeviceAsNewUser: every provisional "row/code created here  *)
(* is removed"; of the two, codes are not).                                  *)
LosersLeaveNothing ==
  \A a \in Accounts \ ({Household} \cup left) :
    account[a] = "active" =>
      \/ \E c \in Calls : call[c].account = a
      \/ \E g \in granted : code[g[2]].account = a

(* The account a request names is the one its code opens, whatever handlers  *)
(* wrote the two columns (SetPendingDeviceAccount: "WHICH account").         *)
NamesItsAccount ==
  \A r \in Requests :
    request[r].code # 0 /\ request[r].account # NoAccount =>
      request[r].account = code[request[r].code].account

(* Once no handler has it in hand, a used code shows on its request, whoever *)
(* linked or reissued the request meanwhile, unless the one statement that   *)
(* records it failed or the server stopped before it                         *)
(* (MarkPendingDeviceRedeemedByCode, which is best-effort).                  *)
UsedIsShown ==
  \A r \in Requests :
    LET k == request[r].code IN
    k # 0 /\ code[k].used /\ k \notin unmarked /\ (\A c \in Calls : call[c].code # k)
      => request[r].status = "redeemed"

(* A code claimed while its account is suspended gives no session before the *)
(* account is reinstated, wherever the suspension and the reinstatement fall *)
(* between the statements (RedeemPairingCode asks after it claims).          *)
SuspendedGetsNothing ==
  \A c \in Calls : call[c].barred => call[c].pc \notin {"cleared", "issued", "paired"}

-----------------------------------------------------------------------------
(* Claims of the source that the code does not keep; each has a              *)
(* configuration that refutes it.                                            *)

(* One approval gives one session, reissued codes or not (ReissuePairingCode *)
(* refuses a redeemed request, as that would "hand out a second credential   *)
(* ... without an approval decision").                                       *)
OneSessionPerApproval ==
  \A r \in Requests : \A j, k \in Codes :
    {<<r, j>>, <<r, k>>} \subseteq granted \cup renewed
      /\ sessions[j] > 0 /\ sessions[k] > 0 => j = k

(* After the device has withdrawn, the code it was given is dead             *)
(* (CancelDevicePairing: a code that does not match is "worth killing        *)
(* immediately").                                                            *)
WithdrawnIsDead ==
  [][\A g \in granted :
       page[g[1]] = "withdrawn" => code'[g[2]].used = code[g[2]].used]_vars

(* A retry with the key that claimed the code is not refused                 *)
(* (RedeemPairingCode: it "must not fail with 'already used' for a code IT   *)
(* successfully consumed").                                                  *)
RetryNotRefused ==
  \A c, d \in Calls :
    call[d].pc \in {"claimed", "marked", "cleared", "issued"}
      /\ call[c].code = call[d].code /\ call[c].key = call[d].key /\ call[c].key # NoKey
      => call[c].pc # "refused"
=============================================================================
