--------------------------- MODULE RefreshSessions ---------------------------
(***************************************************************************)
(* Refresh tokens: the server's session families and one browser that      *)
(* keeps the current token in an encrypted record shared by its tabs.      *)
(*                                                                         *)
(* The server rotates a token once, in a transaction that uses it up and   *)
(* adds its successor.  A token presented again is answered with the       *)
(* successor when the same device asks within a grace period and the       *)
(* successor is still unused; otherwise the whole family is revoked.  A    *)
(* handler is its statements, between which other handlers run.            *)
(*                                                                         *)
(* A tab reads the record, asks for the rotation and saves the successor   *)
(* while it holds the browser's lock.  Answers get lost, tabs close, users *)
(* sign in and out, an operator suspends the account or revokes a device,  *)
(* and a copy of the record may be used on another device.                 *)
(*                                                                         *)
(* One account and one server; tokens do not reach their 30-day expiry.    *)
(* The cookie mode differs in who stores the token, not in the server.     *)
(***************************************************************************)
EXTENDS Naturals, FiniteSets

CONSTANTS
  Tabs,      \* pages of the browser
  Calls,     \* requests the server can have at once
  WebLocks,  \* whether the browser has navigator.locks
  MaxTokens, \* bound on the tokens issued, for model checking
  MaxCalls,  \* bound on the refresh requests
  MaxFaults, \* bound on abandoned exchanges and copies
  MaxActs,   \* bound on sign-outs and acts of the operator
  NoTab

ASSUME SessionsAssumption ==
  /\ WebLocks \in BOOLEAN
  /\ MaxTokens \in Nat \ {0} /\ MaxCalls \in Nat
  /\ MaxFaults \in Nat /\ MaxActs \in Nat
  /\ NoTab \notin Tabs

VARIABLES
  rows,      \* [Tokens -> the row of refresh_tokens]
  minted,    \* tokens issued so far
  call,      \* [Calls -> the RefreshToken handler]
  clock,     \* requests arrived so far, their time stamps
  stale,     \* requests up to this one are past the grace period
  suspended, \* users.suspended_at
  sweeping,  \* the suspension is set and the sessions not yet revoked
  store,     \* the token in the browser's record, 0 without one
  lock,      \* the tab that holds the refresh lock
  tab,       \* [Tabs -> the page]
  copy,      \* the token a second device holds, 0 without one
  faults,    \* history variable: abandoned exchanges and copies
  acts,      \* history variable: sign-outs and acts of the operator
  shown,     \* history variable: [Tokens -> devices whose request was judged]
  ended      \* history variable: families revoked by reuse detection

tokens == <<rows, minted>>
time == <<clock, stale>>
account == <<suspended, sweeping, acts>>
history == <<shown, ended>>
server == <<tokens, call, time, account, history>>
browser == <<store, lock, tab, copy, faults>>
vars == <<server, browser>>

Tokens == 1..MaxTokens
Devices == {"browser", "second"}

(* A row: `fam' is the first token of its family, 0 for a token not yet      *)
(* issued; `usedAt' 0 while unused; `bind' the device that rotated it.       *)
Row == [fam: 0..MaxTokens, usedAt: 0..MaxCalls, succ: 0..MaxTokens,
        bind: Devices \cup {"none"}, revoked: BOOLEAN]
Unissued == [fam |-> 0, usedAt |-> 0, succ |-> 0, bind |-> "none", revoked |-> FALSE]
NewRow(f) == [Unissued EXCEPT !.fam = f]

Unused(k) == rows[k].fam # 0 /\ rows[k].usedAt = 0
Live(k) == Unused(k) /\ ~rows[k].revoked
SameFamily(j, k) == rows[j].fam = rows[k].fam /\ rows[j].fam # 0
RevokedAll(f) == [k \in Tokens |->
  IF rows[k].fam = f /\ f # 0 THEN [rows[k] EXCEPT !.revoked = TRUE] ELSE rows[k]]

(* A request: `by' the device, `for' the tab that waits for it, `at' its     *)
(* arrival; uses after `since' are within grace of it.  `barred' is history: *)
(* the account was suspended when it arrived and has been ever since.        *)
Call == [pc: {"free", "sent", "arrived", "rotated", "replayed", "paired",
              "reused", "barred", "answered", "denied"},
         by: Devices, for: Tabs \cup {NoTab}, token: 0..MaxTokens,
         at: 0..MaxCalls, since: 0..MaxCalls, got: 0..MaxTokens, barred: BOOLEAN]
Free == [pc |-> "free", by |-> "browser", for |-> NoTab, token |-> 0,
         at |-> 0, since |-> 0, got |-> 0, barred |-> FALSE]

Page == [pc: {"idle", "waiting", "saving", "leaving", "clearing", "login", "joining"},
         read: 0..MaxTokens, got: 0..MaxTokens]
Idle == [pc |-> "idle", read |-> 0, got |-> 0]

(* The browser starts signed in, with the first token of a family.           *)
Init ==
  /\ rows = [k \in Tokens |-> IF k = 1 THEN NewRow(1) ELSE Unissued]
  /\ minted = 1
  /\ call = [c \in Calls |-> Free]
  /\ clock = 0 /\ stale = 0
  /\ suspended = FALSE /\ sweeping = FALSE
  /\ store = 1 /\ lock = NoTab
  /\ tab = [t \in Tabs |-> Idle]
  /\ copy = 0 /\ faults = 0 /\ acts = 0
  /\ shown = [k \in Tokens |-> {}] /\ ended = {}

-----------------------------------------------------------------------------
(* The server's RefreshToken handler.                                        *)

Goes(c, pc) == call' = [call EXCEPT ![c].pc = pc]

Arrive(c) ==
  /\ call[c].pc = "sent" /\ clock < MaxCalls
  /\ clock' = clock + 1
  /\ call' = [call EXCEPT ![c].pc = "arrived", ![c].at = clock + 1,
                          ![c].since = stale, ![c].barred = suspended]
  /\ UNCHANGED <<tokens, stale, account, history, browser>>

(* Fault: whichever device asks is given the successor.                      *)
WithinGrace_AnyDevice(row, req) ==
  /\ row.usedAt # 0 /\ row.succ # 0
  /\ row.usedAt <= req.at /\ row.usedAt > req.since
  /\ ~row.revoked

(* What RefreshToken asks of a used token before it repeats the answer.      *)
WithinGrace(row, req) ==
  /\ row.bind = req.by
  /\ row.usedAt # 0 /\ row.succ # 0
  /\ row.usedAt <= req.at /\ row.usedAt > req.since
  /\ ~row.revoked

(* Fault: the revocation is not part of the condition of the update.         *)
MayRotate_Revoked(row) == row.fam # 0 /\ row.usedAt = 0

(* Fault: the token is looked up, and not claimed.                           *)
MayRotate_Used(row) == row.fam # 0 /\ ~row.revoked

MayRotate(row) == row.fam # 0 /\ row.usedAt = 0 /\ ~row.revoked

(* Fault: the successor does not take over the family.                       *)
Rotated_NoFamily(k, req, n) ==
  [rows EXCEPT ![k] = [@ EXCEPT !.usedAt = req.at, !.succ = n, !.bind = req.by],
               ![n] = NewRow(0)]

(* The token is used up by the request and n added to its family.            *)
Rotated(k, req, n) ==
  [rows EXCEPT ![k] = [@ EXCEPT !.usedAt = req.at, !.succ = n, !.bind = req.by],
               ![n] = NewRow(rows[k].fam)]

(* RotateRefreshSessionBound: one transaction uses the token up and adds its *)
(* successor, or reads the row as it is.                                     *)
Claim(c) ==
  LET k == call[c].token IN
  /\ call[c].pc = "arrived"
  /\ \/ /\ MayRotate(rows[k]) /\ minted < MaxTokens
        /\ minted' = minted + 1
        /\ rows' = Rotated(k, call[c], minted + 1)
        /\ call' = [call EXCEPT ![c].pc = "rotated", ![c].got = minted + 1]
     \/ /\ ~MayRotate(rows[k])
        /\ Goes(c, IF WithinGrace(rows[k], call[c]) THEN "replayed" ELSE "reused")
        /\ UNCHANGED <<tokens>>
  /\ shown' = [shown EXCEPT ![k] = @ \cup {call[c].by}]
  /\ UNCHANGED <<time, account, ended, browser>>

(* refreshSuccessorPair: the successor must not have been used or revoked.   *)
Successor(c) ==
  LET n == rows[call[c].token].succ IN
  /\ call[c].pc = "replayed"
  /\ IF Live(n) THEN call' = [call EXCEPT ![c].pc = "paired", ![c].got = n]
                ELSE Goes(c, "reused")
  /\ UNCHANGED <<tokens, time, account, history, browser>>

(* Fault: the account is not looked up again after the rotation.             *)
Suspension_NotAsked(c) ==
  /\ call[c].pc \in {"rotated", "paired"}
  /\ Goes(c, "answered")
  /\ UNCHANGED <<tokens, time, account, history, browser>>

Suspension(c) ==
  /\ call[c].pc \in {"rotated", "paired"}
  /\ Goes(c, IF suspended THEN "barred" ELSE "answered")
  /\ UNCHANGED <<tokens, time, account, history, browser>>

RevokeFamily(c) ==
  LET f == rows[call[c].token].fam IN
  /\ call[c].pc \in {"reused", "barred"}
  /\ rows' = RevokedAll(f)
  /\ ended' = IF call[c].pc = "reused" /\ ~rows[call[c].token].revoked
                THEN ended \cup {f} ELSE ended
  /\ Goes(c, "denied")
  /\ UNCHANGED <<minted, time, account, shown, browser>>

(* Nobody waits for the answer any more.                                     *)
Forget(c) ==
  /\ call[c].pc \in {"answered", "denied"}
  /\ call[c].for = NoTab /\ call[c].by = "browser"
  /\ call' = [call EXCEPT ![c] = Free]
  /\ UNCHANGED <<tokens, time, account, history, browser>>

-----------------------------------------------------------------------------
(* What else the server does with sessions.                                  *)

(* refreshReuseGrace passes.                                                 *)
GracePasses ==
  /\ stale < clock /\ stale' = clock
  /\ UNCHANGED <<tokens, call, clock, account, history, browser>>

Acts == acts < MaxActs /\ acts' = acts + 1

(* RevokeDevice: the user's list of devices.                                 *)
RevokeDevice ==
  /\ \E f \in {rows[k].fam : k \in Tokens} \ {0} : rows' = RevokedAll(f)
  /\ rows' # rows
  /\ Acts
  /\ UNCHANGED <<minted, call, time, suspended, sweeping, history, browser>>

(* handleAdminUserSuspend: the mark, then the sessions.                      *)
Suspend ==
  /\ ~suspended /\ ~sweeping
  /\ suspended' = TRUE /\ sweeping' = TRUE
  /\ Acts
  /\ UNCHANGED <<tokens, call, time, history, browser>>
Sweep ==
  /\ sweeping /\ sweeping' = FALSE
  /\ rows' = [k \in Tokens |-> IF rows[k].fam # 0 THEN [rows[k] EXCEPT !.revoked = TRUE]
                               ELSE rows[k]]
  /\ UNCHANGED <<minted, call, time, suspended, acts, history, browser>>
Reinstate ==
  /\ suspended /\ ~sweeping
  /\ suspended' = FALSE
  /\ call' = [c \in Calls |-> [call[c] EXCEPT !.barred = FALSE]]
  /\ UNCHANGED <<tokens, time, sweeping, acts, history, browser>>

-----------------------------------------------------------------------------
(* A tab.                                                                    *)

(* withTokenRefreshLock; without navigator.locks everyone runs at once.      *)
CanLock(t) == ~WebLocks \/ lock = NoTab
Taken(t) == IF WebLocks THEN t ELSE NoTab
SetPage(t, p) == tab' = [tab EXCEPT ![t] = p]

(* refreshFirst: read the record and send the token.                         *)
Begin(t) ==
  /\ tab[t].pc = "idle" /\ CanLock(t) /\ store # 0 /\ clock < MaxCalls
  /\ lock' = Taken(t)
  /\ \E c \in Calls :
       /\ call[c].pc = "free"
       /\ call' = [call EXCEPT ![c] = [Free EXCEPT !.pc = "sent", !.for = t, !.token = store]]
  /\ SetPage(t, [pc |-> "waiting", read |-> store, got |-> 0])
  /\ UNCHANGED <<tokens, time, account, history, store, copy, faults>>

(* Fault: the lock is released when the answer comes, before it is saved.    *)
Answer_Unlocks(t) ==
  \E c \in Calls :
    /\ call[c].for = t /\ call[c].pc \in {"answered", "denied"}
    /\ call' = [call EXCEPT ![c] = Free]
    /\ lock' = NoTab
    /\ IF call[c].pc = "answered"
         THEN SetPage(t, [tab[t] EXCEPT !.pc = "saving", !.got = call[c].got])
         ELSE SetPage(t, [Idle EXCEPT !.pc = "leaving"])
    /\ UNCHANGED <<tokens, time, account, history, store, copy, faults>>

Answer(t) ==
  \E c \in Calls :
    /\ call[c].for = t /\ call[c].pc \in {"answered", "denied"}
    /\ call' = [call EXCEPT ![c] = Free]
    /\ IF call[c].pc = "answered"
         THEN /\ SetPage(t, [tab[t] EXCEPT !.pc = "saving", !.got = call[c].got])
              /\ UNCHANGED lock
         ELSE /\ SetPage(t, [Idle EXCEPT !.pc = "leaving"])
              /\ lock' = NoTab
    /\ UNCHANGED <<tokens, time, account, history, store, copy, faults>>

(* saveRefreshCredential: only over the record that was read.                *)
Save(t) ==
  /\ tab[t].pc = "saving"
  /\ store' = IF store = tab[t].read THEN tab[t].got ELSE store
  /\ SetPage(t, Idle) /\ lock' = NoTab
  /\ UNCHANGED <<server, copy, faults>>

(* endPageSessionThen, after a refusal or because the user signs out: with   *)
(* the lock, whatever token is stored is logged out; then, with the lock     *)
(* again, the record is removed.                                             *)
SignOut(t) ==
  /\ tab[t].pc = "idle" /\ store # 0
  /\ SetPage(t, [Idle EXCEPT !.pc = "leaving"])
  /\ Acts
  /\ UNCHANGED <<tokens, call, time, suspended, sweeping, history, store, lock, copy, faults>>
Logout(t) ==
  /\ tab[t].pc = "leaving" /\ CanLock(t)
  /\ rows' \in {rows, IF store = 0 THEN rows ELSE RevokedAll(rows[store].fam)}
  /\ SetPage(t, [tab[t] EXCEPT !.pc = "clearing"])
  /\ UNCHANGED <<minted, call, time, account, history, store, lock, copy, faults>>
Clear(t) ==
  /\ tab[t].pc = "clearing" /\ CanLock(t)
  /\ store' = 0
  /\ SetPage(t, Idle)
  /\ UNCHANGED <<server, lock, copy, faults>>

(* Login: the suspension is looked up, the session stored, and the tab saves *)
(* its token with the lock (saveScopedSessionThen).                          *)
Login(t) ==
  /\ tab[t].pc = "idle" /\ store = 0 /\ ~suspended
  /\ SetPage(t, [Idle EXCEPT !.pc = "login"])
  /\ UNCHANGED <<server, store, lock, copy, faults>>
Issue(t) ==
  /\ tab[t].pc = "login" /\ minted < MaxTokens
  /\ minted' = minted + 1
  /\ rows' = [rows EXCEPT ![minted + 1] = NewRow(minted + 1)]
  /\ SetPage(t, [Idle EXCEPT !.pc = "joining", !.got = minted + 1])
  /\ UNCHANGED <<call, time, account, history, store, lock, copy, faults>>
Join(t) ==
  /\ tab[t].pc = "joining" /\ CanLock(t)
  /\ store' = tab[t].got
  /\ SetPage(t, Idle)
  /\ UNCHANGED <<server, lock, copy, faults>>

(* The answer is late or lost, or the page closes; its request goes on.      *)
Abandon(t) ==
  /\ tab[t].pc # "idle" /\ faults < MaxFaults
  /\ faults' = faults + 1
  /\ SetPage(t, Idle)
  /\ lock' = IF lock = t THEN NoTab ELSE lock
  /\ call' = [c \in Calls |-> IF call[c].for = t THEN [call[c] EXCEPT !.for = NoTab]
                              ELSE call[c]]
  /\ UNCHANGED <<tokens, time, account, history, store, copy>>

-----------------------------------------------------------------------------
(* A second device works from a copy of the browser's record.                *)
CopyMade ==
  /\ copy = 0 /\ store # 0 /\ faults < MaxFaults
  /\ faults' = faults + 1
  /\ copy' = store
  /\ UNCHANGED <<server, store, lock, tab>>
CopySends ==
  /\ copy # 0 /\ clock < MaxCalls /\ \A c \in Calls : call[c].by = "browser"
  /\ \E c \in Calls :
       /\ call[c].pc = "free"
       /\ call' = [call EXCEPT ![c] = [Free EXCEPT !.pc = "sent", !.by = "second",
                                                   !.token = copy]]
  /\ UNCHANGED <<tokens, time, account, history, browser>>
CopyAnswer ==
  \E c \in Calls :
    /\ call[c].by = "second" /\ call[c].pc \in {"answered", "denied"}
    /\ copy' = IF call[c].pc = "answered" THEN call[c].got ELSE copy
    /\ call' = [call EXCEPT ![c] = Free]
    /\ UNCHANGED <<tokens, time, account, history, store, lock, tab, faults>>

-----------------------------------------------------------------------------
Next ==
  \/ \E c \in Calls :
       \/ Arrive(c) \/ Claim(c) \/ Successor(c) \/ Suspension(c)
       \/ RevokeFamily(c) \/ Forget(c)
  \/ GracePasses \/ RevokeDevice \/ Suspend \/ Sweep \/ Reinstate
  \/ \E t \in Tabs :
       \/ Begin(t) \/ Answer(t) \/ Save(t)
       \/ SignOut(t) \/ Logout(t) \/ Clear(t)
       \/ Login(t) \/ Issue(t) \/ Join(t) \/ Abandon(t)
  \/ CopyMade \/ CopySends \/ CopyAnswer

Spec == Init /\ [][Next]_vars

-----------------------------------------------------------------------------
(* Type invariant of the rows, the handlers and the browser.                 *)
TypeOK ==
  /\ rows \in [Tokens -> Row]
  /\ minted \in Tokens
  /\ \A k \in Tokens : rows[k].fam # 0 <=> k <= minted
  /\ call \in [Calls -> Call]
  /\ clock \in 0..MaxCalls /\ stale \in 0..MaxCalls
  /\ suspended \in BOOLEAN /\ sweeping \in BOOLEAN
  /\ store \in 0..MaxTokens
  /\ lock \in Tabs \cup {NoTab}
  /\ tab \in [Tabs -> Page]
  /\ copy \in 0..MaxTokens
  /\ faults \in 0..MaxFaults /\ acts \in 0..MaxActs
  /\ shown \in [Tokens -> SUBSET Devices]
  /\ ended \in SUBSET Tokens

(* However handlers interleave, a family has at most one token that still    *)
(* rotates (RotateRefreshSessionBound: "one consumes the token; the other    *)
(* sees zero rows").                                                         *)
OneLive == \A j, k \in Tokens : Live(j) /\ Live(k) /\ SameFamily(j, k) => j = k

(* A family is revoked as a whole and for good: no rotation in flight leaves *)
(* a token the revocation missed (RevokeRefreshSessionFamily).               *)
RevokedWhole ==
  \A j, k \in Tokens : SameFamily(j, k) => rows[j].revoked = rows[k].revoked

(* When two devices have presented the same token, its family ends: the      *)
(* second of them is never given a successor (RefreshToken: "any other reuse *)
(* revokes the family").                                                     *)
ReuseEndsFamily ==
  \A k \in Tokens :
    shown[k] = Devices =>
      \/ rows[k].revoked
      \/ \E c \in Calls : call[c].token = k /\ call[c].pc = "reused"

(* Reuse detection never ends a session whose token only the browser's own   *)
(* tabs used and whose exchanges all completed (withTokenRefreshLock:        *)
(* "serializes" refreshes of all tabs).                                      *)
OwnTabsKept == WebLocks /\ faults = 0 => ended = {}

(* Between exchanges the browser's record holds the token that still         *)
(* rotates, unless the family was revoked (refreshFirst: "durably saves the  *)
(* rotated refresh token before exposing either token").                     *)
StoredIsLive ==
  WebLocks /\ lock = NoTab /\ faults = 0 /\ store # 0
    => Live(store) \/ rows[store].revoked

(* A request that arrives while the account is suspended gets no tokens, at  *)
(* whatever statement it meets the suspension.                               *)
NoneWhileSuspended ==
  \A c \in Calls : call[c].pc = "answered" => ~call[c].barred
=============================================================================
