------------------------ MODULE RefreshSessionsProofs ------------------------
(***************************************************************************)
(* Theorems about refresh tokens, for any number of tabs, handlers, tokens *)
(* and faults.                                                             *)
(*                                                                         *)
(* The rows change in three ways only (RowSteps): a rotation, a revocation *)
(* and a sign-in.  That gives what concerns families.  Judged and Barred   *)
(* say what a handler between two statements relies on.  What concerns the *)
(* browser's own tabs needs to know where the stored token is while a tab  *)
(* holds the lock: see Alone.                                              *)
(***************************************************************************)
EXTENDS RefreshSessions, TLAPS

-----------------------------------------------------------------------------
(* The strengthenings.                                                       *)

(* Nobody names a token that was not issued, and a handler names one.        *)
Issued ==
  /\ \A k \in Tokens : /\ rows[k].fam <= minted /\ rows[k].succ <= minted
                       /\ shown[k] # {} => k <= minted
  /\ store <= minted /\ copy <= minted
  /\ \A c \in Calls : /\ call[c].token <= minted /\ call[c].got <= minted
                      /\ call[c].pc # "free" => call[c].token # 0
                      /\ call[c].pc = "arrived" => call[c].at # 0
  /\ \A t \in Tabs : tab[t].read <= minted /\ tab[t].got <= minted

(* Until its family ends, a token was judged for the device that used it up  *)
(* and for no other.                                                         *)
Ending(k) ==
  rows[k].revoked \/ \E c \in Calls : call[c].token = k /\ call[c].pc = "reused"
Judged ==
  \A k \in Tokens :
    Ending(k) \/ shown[k] = {} \/ (rows[k].usedAt # 0 /\ shown[k] = {rows[k].bind})

(* A request under suspension has not got past the look at the account.      *)
Barred ==
  \A c \in Calls :
    call[c].barred => suspended /\ call[c].pc # "answered"

(* The row of a token that was not used up, or whose family is revoked.      *)
Fit(row) == row.revoked \/ (row.fam # 0 /\ row.usedAt = 0)

(* While no exchange was lost and the record not copied, at most one request *)
(* is on its way, for the tab that holds the lock and with the stored token; *)
(* a successor that is not saved yet, or a new sign-in's token, is known to  *)
(* its tab alone.                                                            *)
OneRequest ==
  \A c \in Calls : call[c].pc # "free" =>
    /\ call[c].by = "browser" /\ call[c].for \in Tabs
    /\ lock = call[c].for /\ tab[lock].pc = "waiting" /\ call[c].token = store
    /\ \A d \in Calls : call[d].pc # "free" => d = c
    /\ call[c].pc \in {"sent", "arrived"} => Fit(rows[store])
    /\ call[c].pc # "replayed"
    /\ call[c].pc \in {"rotated", "paired", "barred", "answered"} =>
         call[c].got # 0 /\ Fit(rows[call[c].got])
    /\ call[c].pc \in {"reused", "denied"} => rows[store].revoked
HoldsLock ==
  \A t \in Tabs :
    /\ tab[t].pc \in {"waiting", "saving"} => lock = t /\ tab[t].read = store /\ store # 0
    /\ tab[t].pc = "saving" =>
         tab[t].got # 0 /\ Fit(rows[tab[t].got]) /\ \A c \in Calls : call[c].pc = "free"
Joining ==
  \A t \in Tabs : tab[t].pc = "joining" =>
    /\ tab[t].got # 0 /\ Fit(rows[tab[t].got])
    /\ tab[t].got # store
    /\ \A c \in Calls : call[c].pc # "free" => call[c].got # tab[t].got
    /\ \A u \in Tabs \ {t} : tab[u].pc \in {"saving", "joining"} => tab[u].got # tab[t].got
Own ==
  /\ copy = 0 /\ ended = {}
  /\ OneRequest /\ HoldsLock /\ Joining
  /\ lock = NoTab /\ store # 0 => Fit(rows[store])
Alone == WebLocks /\ faults = 0 => Own

-----------------------------------------------------------------------------
(* Types.                                                                    *)

(* The resting states of a handler and a tab, and a fresh row, are such.     *)
LEMMA RestTypes ==
  /\ Free \in Call /\ Idle \in Page /\ Unissued \in Row
  /\ \A f \in 0..MaxTokens : NewRow(f) \in Row /\ NewRow(f).fam = f
  /\ 1 \in Tokens /\ 0 \in 0..MaxTokens /\ 0 \in 0..MaxCalls
  <1>0. 1 \in Tokens /\ 0 \in 0..MaxTokens /\ 0 \in 0..MaxCalls
    BY SessionsAssumption DEF Tokens
  <1>1. Free \in Call
    BY <1>0 DEF Free, Call, Devices
  <1>2. Idle \in Page
    BY <1>0 DEF Idle, Page
  <1>3. Unissued \in Row
    BY <1>0 DEF Unissued, Row, Devices
  <1>4. \A f \in 0..MaxTokens : NewRow(f) \in Row /\ NewRow(f).fam = f
    BY <1>3 DEF NewRow, Row
  <1> QED BY <1>0, <1>1, <1>2, <1>3, <1>4

LEMMA InitType == Init => TypeOK /\ Issued
  <1> SUFFICES ASSUME Init PROVE TypeOK /\ Issued
    OBVIOUS
  <1>1. \A k \in Tokens : rows[k] = IF k = 1 THEN NewRow(1) ELSE Unissued
    BY DEF Init
  <1>2. /\ rows \in [Tokens -> Row]
        /\ \A k \in Tokens : rows[k].fam # 0 <=> k <= minted
    BY <1>1, RestTypes, SessionsAssumption DEF Init, Tokens, Unissued
  <1>3. TypeOK
    <2>1. call \in [Calls -> Call] /\ tab \in [Tabs -> Page]
      BY RestTypes DEF Init
    <2>2. /\ clock \in 0..MaxCalls /\ stale \in 0..MaxCalls
          /\ store \in 0..MaxTokens /\ copy \in 0..MaxTokens
          /\ faults \in 0..MaxFaults /\ acts \in 0..MaxActs
      BY SessionsAssumption DEF Init
    <2>3. shown \in [Tokens -> SUBSET Devices]
      BY DEF Init
    <2> QED BY <1>2, <2>1, <2>2, <2>3, RestTypes DEF Init, TypeOK
  <1>4. \A k \in Tokens : rows[k].fam <= 1 /\ rows[k].succ <= 1 /\ shown[k] = {}
    BY <1>1 DEF Init, NewRow, Unissued
  <1> QED BY <1>3, <1>4 DEF Init, Issued, Free, Idle

(* A handler that moves on is a handler.                                     *)
LEMMA GoesType ==
  ASSUME TypeOK, NEW c \in Calls,
         NEW pc \in {"replayed", "reused", "barred", "answered", "denied"}, Goes(c, pc)
  PROVE  call' \in [Calls -> Call]
  BY DEF TypeOK, Goes, Call

(* A handler that is given a token is a handler.                             *)
LEMMA GivenType ==
  ASSUME TypeOK, NEW c \in Calls, NEW pc \in {"rotated", "paired"}, NEW n \in 0..MaxTokens,
         call' = [call EXCEPT ![c].pc = pc, ![c].got = n]
  PROVE  /\ call' \in [Calls -> Call]
         /\ call'[c].pc = pc /\ call'[c].got = n
         /\ call'[c].by = call[c].by /\ call'[c].for = call[c].for
         /\ call'[c].token = call[c].token /\ call'[c].barred = call[c].barred
         /\ \A d \in Calls \ {c} : call'[d] = call[d]
  <1> DEFINE given == [call[c] EXCEPT !.pc = pc, !.got = n]
  <1>1. call \in [Calls -> Call] /\ call[c] \in Call
    BY DEF TypeOK
  <1>2. call' = [call EXCEPT ![c] = given]
    BY <1>1
  <1>3. /\ given \in Call /\ given.pc = pc /\ given.got = n
        /\ given.by = call[c].by /\ given.for = call[c].for
        /\ given.token = call[c].token /\ given.barred = call[c].barred
    <2> DEFINE moved == [call[c] EXCEPT !.pc = pc]
    <2>1. /\ moved \in Call /\ moved.pc = pc /\ moved.by = call[c].by
          /\ moved.for = call[c].for /\ moved.token = call[c].token
          /\ moved.barred = call[c].barred
      BY <1>1 DEF Call
    <2>2. given = [moved EXCEPT !.got = n]
      BY <1>1 DEF Call
    <2> HIDE DEF moved
    <2>3. LET r == [moved EXCEPT !.got = n] IN
            /\ r \in Call /\ r.pc = moved.pc /\ r.got = n /\ r.by = moved.by
            /\ r.for = moved.for /\ r.token = moved.token /\ r.barred = moved.barred
      BY <2>1 DEF Call
    <2> HIDE DEF given
    <2> QED BY <2>1, <2>2, <2>3
  <1> HIDE DEF given
  <1> QED BY <1>1, <1>2, <1>3

(* The three ways the rows change.                                           *)
Rotates(c) ==
  LET k == call[c].token IN
  /\ k \in Tokens /\ MayRotate(rows[k]) /\ minted < MaxTokens
  /\ minted' = minted + 1
  /\ rows' = Rotated(k, call[c], minted + 1)
Revokes(F) ==
  /\ minted' = minted
  /\ rows' = [k \in Tokens |-> IF rows[k].fam \in F THEN [rows[k] EXCEPT !.revoked = TRUE]
                               ELSE rows[k]]
SignsIn ==
  /\ minted < MaxTokens /\ minted' = minted + 1
  /\ rows' = [rows EXCEPT ![minted + 1] = NewRow(minted + 1)]

LEMMA RowsSame ==
  ASSUME TypeOK, UNCHANGED tokens
  PROVE  /\ rows' \in [Tokens -> Row] /\ minted' \in Tokens
         /\ \A k \in Tokens : rows'[k].fam # 0 <=> k <= minted'
  BY DEF TypeOK, tokens

LEMMA RotatesTypes ==
  ASSUME TypeOK, Issued, NEW c \in Calls, Rotates(c), call[c].at # 0
  PROVE  /\ rows' \in [Tokens -> Row] /\ minted' \in Tokens
         /\ \A k \in Tokens : rows'[k].fam # 0 <=> k <= minted'
         /\ \A k \in Tokens :
              /\ k = call[c].token => /\ rows'[k].fam = rows[k].fam
                                      /\ rows'[k].usedAt = call[c].at
                                      /\ rows'[k].succ = minted + 1
                                      /\ rows'[k].bind = call[c].by
                                      /\ rows'[k].revoked = rows[k].revoked
              /\ k = minted + 1 => /\ rows'[k] = NewRow(rows[call[c].token].fam)
                                   /\ k # call[c].token
              /\ k # call[c].token /\ k # minted + 1 => rows'[k] = rows[k]
  <1> DEFINE k == call[c].token
             n == minted + 1
             row == [rows[k] EXCEPT !.usedAt = call[c].at, !.succ = n, !.bind = call[c].by]
  <1>1. /\ k \in Tokens /\ n \in Tokens /\ minted \in Tokens /\ k # n /\ k <= minted
        /\ rows[k] \in Row /\ call[c] \in Call /\ n \in 0..MaxTokens
    BY SessionsAssumption DEF Rotates, TypeOK, Issued, Tokens
  <1>2. rows' = [rows EXCEPT ![k] = row, ![n] = NewRow(rows[k].fam)]
    BY <1>1 DEF Rotates, Rotated
  <1>3. row \in Row /\ NewRow(rows[k].fam) \in Row /\ NewRow(rows[k].fam).fam = rows[k].fam
    BY <1>1, RestTypes DEF Row, Call
  <1>4. rows'[k] = row /\ rows'[n] = NewRow(rows[k].fam)
        /\ \A j \in Tokens : j # k /\ j # n => rows'[j] = rows[j]
    BY <1>1, <1>2 DEF TypeOK
  <1>5. /\ row.fam = rows[k].fam /\ row.usedAt = call[c].at /\ row.succ = n
        /\ row.bind = call[c].by /\ row.revoked = rows[k].revoked
    BY <1>1 DEF Row
  <1>6. rows' \in [Tokens -> Row]
    BY <1>1, <1>2, <1>3 DEF TypeOK
  <1>7. rows[k].fam # 0
    BY DEF Rotates, MayRotate
  <1>8. \A j \in Tokens : rows'[j].fam # 0 <=> j <= minted'
    <2> TAKE j \in Tokens
    <2>1. (j <= minted' <=> j <= minted \/ j = n) /\ (rows[j].fam # 0 <=> j <= minted)
      BY <1>1 DEF Rotates, TypeOK, Tokens
    <2> QED BY <1>1, <1>3, <1>4, <1>5, <1>7, <2>1
  <1> QED BY <1>1, <1>4, <1>5, <1>6, <1>8 DEF Rotates

LEMMA RevokesTypes ==
  ASSUME TypeOK, NEW F, Revokes(F)
  PROVE  /\ rows' \in [Tokens -> Row] /\ minted' \in Tokens
         /\ \A k \in Tokens : rows'[k].fam # 0 <=> k <= minted'
         /\ \A k \in Tokens :
              /\ rows'[k].fam = rows[k].fam /\ rows'[k].usedAt = rows[k].usedAt
              /\ rows'[k].succ = rows[k].succ /\ rows'[k].bind = rows[k].bind
              /\ rows'[k].revoked = (rows[k].revoked \/ rows[k].fam \in F)
  <1>1. \A k \in Tokens : rows[k] \in Row
    BY DEF TypeOK
  <1>2. \A k \in Tokens : rows'[k] = IF rows[k].fam \in F
                                     THEN [rows[k] EXCEPT !.revoked = TRUE] ELSE rows[k]
    BY DEF Revokes
  <1>3. \A k \in Tokens :
          /\ rows'[k] \in Row
          /\ rows'[k].fam = rows[k].fam /\ rows'[k].usedAt = rows[k].usedAt
          /\ rows'[k].succ = rows[k].succ /\ rows'[k].bind = rows[k].bind
          /\ rows'[k].revoked = (rows[k].revoked \/ rows[k].fam \in F)
    <2> TAKE k \in Tokens
    <2>1. CASE rows[k].fam \in F
      BY <1>1, <1>2, <2>1 DEF Row
    <2>2. CASE rows[k].fam \notin F
      BY <1>1, <1>2, <2>2 DEF Row
    <2> QED BY <2>1, <2>2
  <1>4. rows' \in [Tokens -> Row] /\ minted' = minted
    BY <1>3 DEF Revokes
  <1> QED BY <1>3, <1>4 DEF TypeOK

LEMMA SignsInTypes ==
  ASSUME TypeOK, Issued, SignsIn
  PROVE  /\ rows' \in [Tokens -> Row] /\ minted' \in Tokens
         /\ \A k \in Tokens : rows'[k].fam # 0 <=> k <= minted'
         /\ rows'[minted + 1] = NewRow(minted + 1)
         /\ \A k \in Tokens : k # minted + 1 => rows'[k] = rows[k]
  <1> DEFINE n == minted + 1
  <1>1. n \in Tokens /\ minted \in Tokens /\ n \in 0..MaxTokens /\ n # 0 /\ minted' = n
    BY SessionsAssumption DEF SignsIn, TypeOK, Tokens
  <1>2. rows'[n] = NewRow(n) /\ \A k \in Tokens : k # n => rows'[k] = rows[k]
    BY <1>1 DEF SignsIn, TypeOK
  <1>3. rows' \in [Tokens -> Row]
    BY <1>1, RestTypes DEF SignsIn, TypeOK
  <1>4. \A k \in Tokens : rows'[k].fam # 0 <=> k <= minted'
    <2> TAKE k \in Tokens
    <2>1. (k <= minted' <=> k <= minted \/ k = n) /\ (rows[k].fam # 0 <=> k <= minted)
      BY <1>1 DEF TypeOK, Tokens
    <2> QED BY <1>1, <1>2, <2>1, RestTypes
  <1> QED BY <1>1, <1>2, <1>3, <1>4

LEMMA RevokedAllRevokes ==
  ASSUME NEW f \in 0..MaxTokens, rows' = RevokedAll(f), minted' = minted
  PROVE  Revokes({f} \ {0}) /\ {f} \ {0} \subseteq Tokens
  BY SessionsAssumption DEF RevokedAll, Revokes, Tokens

(* Every step leaves the rows, rotates a token for an arrived request,       *)
(* revokes whole families, or adds the first token of a family.              *)
RowStep ==
  \/ UNCHANGED tokens
  \/ \E c \in Calls : call[c].pc = "arrived" /\ Claim(c) /\ Rotates(c)
  \/ \E F \in SUBSET Tokens : Revokes(F)
  \/ SignsIn

LEMMA ClaimStep ==
  ASSUME TypeOK, Issued, NEW c \in Calls, Claim(c)
  PROVE  /\ call[c].token \in Tokens /\ call[c] \in Call /\ call[c].at # 0
         /\ shown' = [shown EXCEPT ![call[c].token] = @ \cup {call[c].by}]
         /\ UNCHANGED <<time, account, ended, browser>>
         /\ \/ /\ Rotates(c)
               /\ call' = [call EXCEPT ![c].pc = "rotated", ![c].got = minted + 1]
            \/ /\ ~MayRotate(rows[call[c].token]) /\ UNCHANGED tokens
               /\ WithinGrace(rows[call[c].token], call[c]) /\ Goes(c, "replayed")
            \/ /\ ~MayRotate(rows[call[c].token]) /\ UNCHANGED tokens
               /\ ~WithinGrace(rows[call[c].token], call[c]) /\ Goes(c, "reused")
  <1>1. call[c].pc = "arrived" /\ call[c] \in Call
    BY DEF Claim, TypeOK
  <1>2. call[c].token \in Tokens /\ call[c].at # 0
    BY <1>1, SessionsAssumption DEF Issued, Call, Tokens
  <1> QED BY <1>1, <1>2 DEF Claim, Rotates

LEMMA FamilyInRange ==
  ASSUME TypeOK
  PROVE  /\ \A k \in Tokens : rows[k] \in Row /\ rows[k].fam \in 0..MaxTokens
         /\ \A c \in Calls : call[c] \in Call
         /\ \A t \in Tabs : tab[t] \in Page
  BY DEF TypeOK, Row

LEMMA RowSteps ==
  ASSUME TypeOK, Issued, [Next]_vars
  PROVE  RowStep
  <1>1. ASSUME NEW c \in Calls, Claim(c) PROVE RowStep
    BY <1>1, ClaimStep DEF RowStep, Claim
  <1>2. ASSUME NEW c \in Calls, RevokeFamily(c) PROVE RowStep
    <2>1. call[c] \in Call /\ call[c].token # 0
      BY <1>2, FamilyInRange DEF RevokeFamily, Issued
    <2>2. call[c].token \in Tokens
      BY <2>1, SessionsAssumption DEF Call, Tokens
    <2>3. rows[call[c].token].fam \in 0..MaxTokens
      BY <2>2, FamilyInRange
    <2> QED BY <1>2, <2>3, RevokedAllRevokes DEF RevokeFamily, RowStep
  <1>3. ASSUME NEW c \in Calls,
               Arrive(c) \/ Successor(c) \/ Suspension(c) \/ Forget(c)
        PROVE  RowStep
    BY <1>3 DEF Arrive, Successor, Suspension, Forget, RowStep
  <1>4. ASSUME GracePasses \/ Suspend \/ Reinstate \/ CopyMade \/ CopySends \/ CopyAnswer
        PROVE  RowStep
    BY <1>4 DEF GracePasses, Suspend, Reinstate, CopyMade, CopySends, CopyAnswer, RowStep, server
  <1>5. ASSUME RevokeDevice PROVE RowStep
    <2>1. PICK f \in {rows[k].fam : k \in Tokens} \ {0} : rows' = RevokedAll(f)
      BY <1>5 DEF RevokeDevice
    <2>2. f \in 0..MaxTokens
      BY <2>1, FamilyInRange
    <2> QED BY <1>5, <2>1, <2>2, RevokedAllRevokes DEF RevokeDevice, RowStep
  <1>6. ASSUME Sweep PROVE RowStep
    <2>1. \A k \in Tokens : rows[k].fam # 0 <=> rows[k].fam \in Tokens
      BY FamilyInRange, SessionsAssumption DEF Tokens
    <2>2. Revokes(Tokens)
      BY <1>6, <2>1 DEF Sweep, Revokes
    <2> QED BY <2>2 DEF RowStep
  <1>7. ASSUME NEW t \in Tabs, Logout(t) PROVE RowStep
    <2>1. CASE rows' = rows
      BY <1>7, <2>1 DEF Logout, RowStep, tokens
    <2>2. CASE rows' = RevokedAll(rows[store].fam) /\ store # 0
      <3>1. store \in Tokens
        BY <2>2, SessionsAssumption DEF TypeOK, Tokens
      <3> QED BY <1>7, <2>2, <3>1, FamilyInRange, RevokedAllRevokes DEF Logout, RowStep
    <2> QED BY <1>7, <2>1, <2>2 DEF Logout
  <1>8. ASSUME NEW t \in Tabs, Issue(t) PROVE RowStep
    BY <1>8 DEF Issue, SignsIn, RowStep
  <1>9. ASSUME NEW t \in Tabs,
               Begin(t) \/ Answer(t) \/ Save(t) \/ SignOut(t) \/ Clear(t)
                 \/ Login(t) \/ Join(t) \/ Abandon(t)
        PROVE  RowStep
    BY <1>9 DEF Begin, Answer, Save, SignOut, Clear, Login, Join, Abandon, RowStep, server
  <1>10. ASSUME UNCHANGED vars PROVE RowStep
    BY <1>10 DEF vars, server, RowStep
  <1> QED BY <1>1, <1>2, <1>3, <1>4, <1>5, <1>6, <1>7, <1>8, <1>9, <1>10 DEF Next

(* What every way of changing the rows keeps.                                *)
LEMMA RowTypes ==
  ASSUME TypeOK, Issued, RowStep
  PROVE  /\ rows' \in [Tokens -> Row] /\ minted' \in Tokens /\ minted <= minted'
         /\ \A k \in Tokens : rows'[k].fam # 0 <=> k <= minted'
         /\ \A k \in Tokens : rows'[k].fam <= minted' /\ rows'[k].succ <= minted'
  <1>0. minted \in Nat /\ minted + 1 \in Nat /\ minted <= minted + 1
    BY SessionsAssumption DEF TypeOK, Tokens
  <1>1. CASE UNCHANGED tokens
    BY <1>0, <1>1, RowsSame DEF tokens, Issued
  <1>2. ASSUME NEW c \in Calls, call[c].pc = "arrived", Claim(c), Rotates(c)
        PROVE  /\ rows' \in [Tokens -> Row] /\ minted' \in Tokens /\ minted <= minted'
               /\ \A k \in Tokens : rows'[k].fam # 0 <=> k <= minted'
               /\ \A k \in Tokens : rows'[k].fam <= minted' /\ rows'[k].succ <= minted'
    <2>1. call[c].at # 0 /\ minted' = minted + 1 /\ call[c].token \in Tokens
      BY <1>2 DEF Issued, Rotates
    <2>2. rows[call[c].token].fam \in 0..MaxTokens /\ rows[call[c].token].fam <= minted
      BY <2>1, FamilyInRange DEF Issued
    <2>3. \A k \in Tokens : rows'[k].fam <= minted' /\ rows'[k].succ <= minted'
      <3> TAKE k \in Tokens
      <3>0. /\ rows[k].fam <= minted /\ rows[k].succ <= minted
            /\ rows[k].fam \in Nat /\ rows[k].succ \in Nat
        BY FamilyInRange, SessionsAssumption DEF Issued, Row
      <3>1. CASE k = call[c].token
        BY <1>0, <1>2, <2>1, <3>0, <3>1, RotatesTypes
      <3>2. CASE k = minted + 1
        <4>1. rows'[k] = NewRow(rows[call[c].token].fam)
          BY <1>2, <2>1, <3>2, RotatesTypes
        <4>2. NewRow(rows[call[c].token].fam).succ = 0
          BY DEF NewRow, Unissued
        <4> QED BY <1>0, <2>1, <2>2, <4>1, <4>2, RestTypes
      <3>3. CASE k # call[c].token /\ k # minted + 1
        BY <1>0, <1>2, <2>1, <3>0, <3>3, RotatesTypes
      <3> QED BY <3>1, <3>2, <3>3
    <2> QED BY <1>0, <1>2, <2>1, <2>3, RotatesTypes
  <1>3. ASSUME NEW F \in SUBSET Tokens, Revokes(F)
        PROVE  /\ rows' \in [Tokens -> Row] /\ minted' \in Tokens /\ minted <= minted'
               /\ \A k \in Tokens : rows'[k].fam # 0 <=> k <= minted'
               /\ \A k \in Tokens : rows'[k].fam <= minted' /\ rows'[k].succ <= minted'
    <2>1. minted' = minted
      BY <1>3 DEF Revokes
    <2> QED BY <1>0, <1>3, <2>1, RevokesTypes DEF Issued
  <1>4. CASE SignsIn
    <2>1. minted' = minted + 1
      BY <1>4 DEF SignsIn
    <2>2. \A k \in Tokens : rows'[k].fam <= minted' /\ rows'[k].succ <= minted'
      <3> TAKE k \in Tokens
      <3>0. /\ rows[k].fam <= minted /\ rows[k].succ <= minted
            /\ rows[k].fam \in Nat /\ rows[k].succ \in Nat
        BY FamilyInRange, SessionsAssumption DEF Issued, Row
      <3>1. CASE k = minted + 1
        <4>1. rows'[k] = NewRow(minted + 1) /\ minted + 1 \in 0..MaxTokens
          BY <1>4, <3>1, SignsInTypes, SessionsAssumption DEF Tokens
        <4>2. NewRow(minted + 1).succ = 0
          BY DEF NewRow, Unissued
        <4> QED BY <1>0, <2>1, <4>1, <4>2, RestTypes
      <3>2. CASE k # minted + 1
        BY <1>0, <1>4, <2>1, <3>0, <3>2, SignsInTypes
      <3> QED BY <3>1, <3>2
    <2> QED BY <1>0, <1>4, <2>1, <2>2, SignsInTypes
  <1> QED BY <1>1, <1>2, <1>3, <1>4 DEF RowStep

(* The handlers and the pages keep their shape.                              *)
LEMMA CallTypes ==
  ASSUME TypeOK, Issued, [Next]_vars
  PROVE  call' \in [Calls -> Call]
  <1>1. ASSUME NEW c \in Calls, Arrive(c) PROVE call' \in [Calls -> Call]
    <2>1. clock + 1 \in 0..MaxCalls /\ stale \in 0..MaxCalls /\ suspended \in BOOLEAN
      BY <1>1, SessionsAssumption DEF Arrive, TypeOK
    <2>2. call \in [Calls -> Call] /\ call[c] \in Call
      BY DEF TypeOK
    <2>3. [call[c] EXCEPT !.pc = "arrived", !.at = clock + 1, !.since = stale,
                          !.barred = suspended] \in Call
      BY <2>1, <2>2 DEF Call
    <2>4. call' = [call EXCEPT ![c] = [call[c] EXCEPT !.pc = "arrived", !.at = clock + 1,
                                         !.since = stale, !.barred = suspended]]
      BY <1>1, <2>2 DEF Arrive
    <2> QED BY <2>2, <2>3, <2>4
  <1>2. ASSUME NEW c \in Calls, Claim(c) PROVE call' \in [Calls -> Call]
    <2>1. CASE Rotates(c) /\ call' = [call EXCEPT ![c].pc = "rotated", ![c].got = minted + 1]
      <3>1. minted + 1 \in 0..MaxTokens
        BY <2>1, SessionsAssumption DEF Rotates, TypeOK, Tokens
      <3> QED BY <2>1, <3>1, GivenType
    <2> QED BY <1>2, <2>1, ClaimStep, GoesType
  <1>3. ASSUME NEW c \in Calls, Successor(c) PROVE call' \in [Calls -> Call]
    <2>1. CASE Goes(c, "reused")
      BY <2>1, GoesType
    <2>2. CASE call' = [call EXCEPT ![c].pc = "paired", ![c].got = rows[call[c].token].succ]
      <3>1. call[c].token \in Tokens
        BY <1>3, FamilyInRange, SessionsAssumption DEF Successor, Issued, Call, Tokens
      <3>2. rows[call[c].token].succ \in 0..MaxTokens
        BY <3>1, FamilyInRange DEF Row
      <3> QED BY <2>2, <3>2, GivenType
    <2> QED BY <1>3, <2>1, <2>2 DEF Successor
  <1>4. ASSUME NEW c \in Calls, Suspension(c) \/ RevokeFamily(c) \/ Forget(c)
        PROVE  call' \in [Calls -> Call]
    <2>1. CASE Forget(c)
      BY <2>1, RestTypes DEF Forget, TypeOK
    <2> QED BY <1>4, <2>1, GoesType DEF Suspension, RevokeFamily
  <1>5. ASSUME Reinstate PROVE call' \in [Calls -> Call]
    <2>1. \A c \in Calls : [call[c] EXCEPT !.barred = FALSE] \in Call
      BY FamilyInRange DEF Call
    <2> QED BY <1>5, <2>1 DEF Reinstate
  <1>6. ASSUME NEW t \in Tabs, Begin(t) \/ Answer(t) \/ Abandon(t)
        PROVE  call' \in [Calls -> Call]
    <2>1. CASE Begin(t)
      <3>1. [Free EXCEPT !.pc = "sent", !.for = t, !.token = store] \in Call
        BY RestTypes DEF TypeOK, Call
      <3> QED BY <2>1, <3>1 DEF Begin, TypeOK
    <2>2. CASE Answer(t)
      BY <2>2, RestTypes DEF Answer, TypeOK
    <2>3. CASE Abandon(t)
      <3>1. \A c \in Calls : [call[c] EXCEPT !.for = NoTab] \in Call
        BY FamilyInRange DEF Call
      <3> QED BY <2>3, <3>1, FamilyInRange DEF Abandon
    <2> QED BY <1>6, <2>1, <2>2, <2>3
  <1>7. ASSUME CopySends \/ CopyAnswer PROVE call' \in [Calls -> Call]
    <2>1. CASE CopySends
      <3>1. [Free EXCEPT !.pc = "sent", !.by = "second", !.token = copy] \in Call
        BY RestTypes DEF TypeOK, Call, Devices
      <3> QED BY <2>1, <3>1 DEF CopySends, TypeOK
    <2>2. CASE CopyAnswer
      BY <2>2, RestTypes DEF CopyAnswer, TypeOK
    <2> QED BY <1>7, <2>1, <2>2
  <1>8. ASSUME \/ GracePasses \/ RevokeDevice \/ Suspend \/ Sweep \/ CopyMade
               \/ UNCHANGED vars
        PROVE  call' = call
    BY <1>8 DEF GracePasses, RevokeDevice, Suspend, Sweep, CopyMade, vars, server
  <1>9. ASSUME NEW t \in Tabs,
               Save(t) \/ SignOut(t) \/ Logout(t) \/ Clear(t) \/ Login(t) \/ Issue(t) \/ Join(t)
        PROVE  call' = call
    BY <1>9 DEF Save, SignOut, Logout, Clear, Login, Issue, Join, server
  <1>10. call \in [Calls -> Call]
    BY DEF TypeOK
  <1> QED BY <1>1, <1>2, <1>3, <1>4, <1>5, <1>6, <1>7, <1>8, <1>9, <1>10 DEF Next

(* What a tab and its record hold.                                           *)
LEMMA PageTypes ==
  ASSUME TypeOK, Issued, [Next]_vars
  PROVE  /\ tab' \in [Tabs -> Page] /\ lock' \in Tabs \cup {NoTab}
         /\ store' \in 0..MaxTokens /\ copy' \in 0..MaxTokens
  <1> DEFINE Good == /\ tab' \in [Tabs -> Page] /\ lock' \in Tabs \cup {NoTab}
                     /\ store' \in 0..MaxTokens /\ copy' \in 0..MaxTokens
  <1>0. /\ tab \in [Tabs -> Page] /\ lock \in Tabs \cup {NoTab}
        /\ store \in 0..MaxTokens /\ copy \in 0..MaxTokens
        /\ minted \in Nat /\ Idle \in Page
    BY RestTypes, SessionsAssumption DEF TypeOK, Tokens
  <1>1. ASSUME NEW t \in Tabs, Begin(t) PROVE Good
    <2>1. [pc |-> "waiting", read |-> store, got |-> 0] \in Page
      BY <1>0, RestTypes DEF Page
    <2> QED BY <1>0, <1>1, <2>1 DEF Begin, SetPage, Taken
  <1>2. ASSUME NEW t \in Tabs, Answer(t) PROVE Good
    <2>1. PICK c \in Calls :
            /\ IF call[c].pc = "answered"
                 THEN /\ SetPage(t, [tab[t] EXCEPT !.pc = "saving", !.got = call[c].got])
                      /\ UNCHANGED lock
                 ELSE /\ SetPage(t, [Idle EXCEPT !.pc = "leaving"])
                      /\ lock' = NoTab
            /\ UNCHANGED <<store, copy>>
      BY <1>2 DEF Answer
    <2>2. /\ [tab[t] EXCEPT !.pc = "saving", !.got = call[c].got] \in Page
          /\ [Idle EXCEPT !.pc = "leaving"] \in Page
      BY <1>0, FamilyInRange DEF Page, Call
    <2> QED BY <1>0, <2>1, <2>2 DEF SetPage
  <1>3. ASSUME NEW t \in Tabs, Save(t) \/ Clear(t) \/ Join(t) PROVE Good
    <2>1. tab[t].got \in 0..MaxTokens /\ 0 \in 0..MaxTokens
      BY <1>0, RestTypes DEF Page
    <2> QED BY <1>0, <1>3, <2>1 DEF Save, Clear, Join, SetPage
  <1>4. ASSUME NEW t \in Tabs, SignOut(t) \/ Logout(t) \/ Login(t) PROVE Good
    <2>1. /\ [Idle EXCEPT !.pc = "leaving"] \in Page /\ [Idle EXCEPT !.pc = "login"] \in Page
          /\ [tab[t] EXCEPT !.pc = "clearing"] \in Page
      BY <1>0 DEF Page
    <2> QED BY <1>0, <1>4, <2>1 DEF SignOut, Logout, Login, SetPage
  <1>5. ASSUME NEW t \in Tabs, Issue(t) PROVE Good
    <2>1. minted + 1 \in 0..MaxTokens
      BY <1>0, <1>5, SessionsAssumption DEF Issue
    <2>2. [Idle EXCEPT !.pc = "joining", !.got = minted + 1] \in Page
      BY <1>0, <2>1 DEF Page
    <2> QED BY <1>0, <1>5, <2>2 DEF Issue, SetPage
  <1>6. ASSUME NEW t \in Tabs, Abandon(t) PROVE Good
    BY <1>0, <1>6 DEF Abandon, SetPage
  <1>7. ASSUME CopyMade \/ CopySends PROVE Good
    BY <1>0, <1>7 DEF CopyMade, CopySends, browser
  <1>8. ASSUME CopyAnswer PROVE Good
    <2>1. PICK c \in Calls : /\ copy' = IF call[c].pc = "answered" THEN call[c].got ELSE copy
                             /\ UNCHANGED <<store, lock, tab>>
      BY <1>8 DEF CopyAnswer
    <2>2. call[c].got \in 0..MaxTokens
      BY FamilyInRange DEF Call
    <2> QED BY <1>0, <2>1, <2>2
  <1>9. ASSUME NEW c \in Calls,
               \/ Arrive(c) \/ Claim(c) \/ Successor(c) \/ Suspension(c)
               \/ RevokeFamily(c) \/ Forget(c)
        PROVE  Good
    BY <1>0, <1>9 DEF Arrive, Claim, Successor, Suspension, RevokeFamily, Forget, browser
  <1>10. ASSUME \/ GracePasses \/ RevokeDevice \/ Suspend \/ Sweep \/ Reinstate
                \/ UNCHANGED vars
         PROVE  Good
    BY <1>0, <1>10 DEF GracePasses, RevokeDevice, Suspend, Sweep, Reinstate, vars, browser
  <1> HIDE DEF Good
  <1>11. Good
    BY <1>1, <1>2, <1>3, <1>4, <1>5, <1>6, <1>7, <1>8, <1>9, <1>10 DEF Next
  <1> QED BY <1>11 DEF Good

(* Time, the account, the counters and the history variables.                *)
LEMMA OtherTypes ==
  ASSUME TypeOK, Issued, [Next]_vars
  PROVE  /\ clock' \in 0..MaxCalls /\ stale' \in 0..MaxCalls
         /\ suspended' \in BOOLEAN /\ sweeping' \in BOOLEAN
         /\ faults' \in 0..MaxFaults /\ acts' \in 0..MaxActs
         /\ shown' \in [Tokens -> SUBSET Devices] /\ ended' \in SUBSET Tokens
  <1> DEFINE Good == /\ clock' \in 0..MaxCalls /\ stale' \in 0..MaxCalls
                     /\ suspended' \in BOOLEAN /\ sweeping' \in BOOLEAN
                     /\ faults' \in 0..MaxFaults /\ acts' \in 0..MaxActs
                     /\ shown' \in [Tokens -> SUBSET Devices] /\ ended' \in SUBSET Tokens
  <1>0. /\ clock \in 0..MaxCalls /\ stale \in 0..MaxCalls
        /\ suspended \in BOOLEAN /\ sweeping \in BOOLEAN
        /\ faults \in 0..MaxFaults /\ acts \in 0..MaxActs
        /\ shown \in [Tokens -> SUBSET Devices] /\ ended \in SUBSET Tokens
        /\ MaxCalls \in Nat /\ MaxFaults \in Nat /\ MaxActs \in Nat
    BY SessionsAssumption DEF TypeOK
  <1>1. ASSUME NEW c \in Calls, Arrive(c) PROVE Good
    BY <1>0, <1>1 DEF Arrive, account, history, browser
  <1>2. ASSUME NEW c \in Calls, Claim(c) PROVE Good
    <2>1. call[c].by \in Devices /\ call[c].token \in Tokens
      BY <1>2, ClaimStep DEF Call
    <2>2. shown' \in [Tokens -> SUBSET Devices]
      BY <1>0, <1>2, <2>1 DEF Claim
    <2> QED BY <1>0, <1>2, <2>2 DEF Claim, time, account, browser
  <1>3. ASSUME NEW c \in Calls, RevokeFamily(c) PROVE Good
    <2>1. call[c] \in Call /\ call[c].token # 0
      BY <1>3, FamilyInRange DEF RevokeFamily, Issued
    <2>2. call[c].token \in Tokens /\ call[c].token <= minted
      BY <2>1, SessionsAssumption DEF Call, Tokens, Issued
    <2>3. rows[call[c].token].fam \in Tokens
      BY <2>2, FamilyInRange, SessionsAssumption DEF TypeOK, Tokens
    <2> QED BY <1>0, <1>3, <2>3 DEF RevokeFamily, time, account, browser
  <1>4. ASSUME NEW c \in Calls, Successor(c) \/ Suspension(c) \/ Forget(c) PROVE Good
    BY <1>0, <1>4 DEF Successor, Suspension, Forget, time, account, history, browser
  <1>5. ASSUME GracePasses \/ RevokeDevice \/ Suspend \/ Sweep \/ Reinstate PROVE Good
    <2>1. CASE GracePasses
      BY <1>0, <2>1 DEF GracePasses, account, history, browser
    <2>2. CASE RevokeDevice
      BY <1>0, <2>2 DEF RevokeDevice, Acts, time, history, browser
    <2>3. CASE Suspend
      BY <1>0, <2>3 DEF Suspend, Acts, time, history, browser
    <2>4. CASE Sweep \/ Reinstate
      BY <1>0, <2>4 DEF Sweep, Reinstate, time, history, browser
    <2> QED BY <1>5, <2>1, <2>2, <2>3, <2>4
  <1>6. ASSUME NEW t \in Tabs, Begin(t) \/ Answer(t) \/ Save(t) \/ SignOut(t) \/ Logout(t)
        PROVE  Good
    <2>1. CASE SignOut(t)
      BY <1>0, <2>1 DEF SignOut, Acts, time, history
    <2> QED BY <1>0, <1>6, <2>1 DEF Begin, Answer, Save, Logout, time, account, history, server
  <1>7. ASSUME NEW t \in Tabs, Clear(t) \/ Login(t) \/ Issue(t) \/ Join(t) \/ Abandon(t)
        PROVE  Good
    <2>1. CASE Abandon(t)
      BY <1>0, <2>1 DEF Abandon, time, account, history
    <2> QED BY <1>0, <1>7, <2>1 DEF Clear, Login, Issue, Join, time, account, history, server
  <1>8. ASSUME CopyMade \/ CopySends \/ CopyAnswer \/ UNCHANGED vars PROVE Good
    BY <1>0, <1>8 DEF CopyMade, CopySends, CopyAnswer, vars, time, account, history, server,
                      browser
  <1> HIDE DEF Good
  <1>9. Good
    BY <1>1, <1>2, <1>3, <1>4, <1>5, <1>6, <1>7, <1>8 DEF Next
  <1> QED BY <1>9 DEF Good

LEMMA TypeStep ==
  ASSUME TypeOK, Issued, [Next]_vars
  PROVE  TypeOK'
  <1>1. RowStep
    BY RowSteps
  <1>2. /\ rows' \in [Tokens -> Row] /\ minted' \in Tokens
        /\ \A k \in Tokens : rows'[k].fam # 0 <=> k <= minted'
    BY <1>1, RowTypes
  <1> QED BY <1>2, CallTypes, PageTypes, OtherTypes DEF TypeOK

(* Names of tokens stay names of issued tokens.                              *)
LEMMA IssuedStep ==
  ASSUME TypeOK, Issued, [Next]_vars
  PROVE  Issued'
  <1> DEFINE Calm == \A c \in Calls : /\ call'[c].token <= minted' /\ call'[c].got <= minted'
                                      /\ call'[c].pc # "free" => call'[c].token # 0
                                      /\ call'[c].pc = "arrived" => call'[c].at # 0
             Held == /\ store' <= minted' /\ copy' <= minted'
                     /\ \A t \in Tabs : tab'[t].read <= minted' /\ tab'[t].got <= minted'
             Seen == \A k \in Tokens : shown'[k] # {} => k <= minted'
  <1>0. /\ minted \in Nat /\ minted' \in Nat /\ minted <= minted'
        /\ \A k \in Tokens : rows'[k].fam <= minted' /\ rows'[k].succ <= minted'
    BY RowSteps, RowTypes, SessionsAssumption DEF TypeOK, Tokens
  <1>1. \A v \in 0..MaxTokens : v <= minted => v <= minted'
    BY <1>0, SessionsAssumption
  <1>2. /\ \A c \in Calls : /\ call[c] \in Call
                            /\ call[c].token <= minted' /\ call[c].got <= minted'
                            /\ call[c].pc # "free" => call[c].token # 0
                            /\ call[c].pc = "arrived" => call[c].at # 0
        /\ \A t \in Tabs : tab[t].read <= minted' /\ tab[t].got <= minted'
        /\ store <= minted' /\ copy <= minted' /\ 0 <= minted'
        /\ \A k \in Tokens : shown[k] # {} => k <= minted'
    <2>1. /\ \A c \in Calls : call[c].token \in 0..MaxTokens /\ call[c].got \in 0..MaxTokens
          /\ \A t \in Tabs : tab[t].read \in 0..MaxTokens /\ tab[t].got \in 0..MaxTokens
      BY FamilyInRange DEF Call, Page
    <2>2. /\ store \in 0..MaxTokens /\ copy \in 0..MaxTokens /\ 0 <= minted'
          /\ \A k \in Tokens : k \in 0..MaxTokens
      BY <1>0, SessionsAssumption DEF TypeOK, Tokens
    <2> QED BY <1>1, <2>1, <2>2, FamilyInRange DEF Issued
  <1>3. ASSUME NEW c \in Calls, Claim(c) PROVE Calm /\ Held /\ Seen
    <2>1. call[c].token \in Tokens /\ call[c].token <= minted
      BY <1>3, ClaimStep DEF Issued
    <2>2. Seen
      BY <1>2, <1>3, <2>1, <1>0 DEF Claim, TypeOK, Tokens
    <2>3. Calm
      <3>1. CASE /\ Rotates(c)
                 /\ call' = [call EXCEPT ![c].pc = "rotated", ![c].got = minted + 1]
        <4>1. minted + 1 \in 0..MaxTokens /\ minted' = minted + 1
          BY <1>0, <3>1, SessionsAssumption DEF Rotates
        <4>2. /\ call'[c].pc = "rotated" /\ call'[c].got = minted + 1
              /\ call'[c].token = call[c].token
              /\ \A d \in Calls \ {c} : call'[d] = call[d]
          BY <3>1, <4>1, GivenType
        <4> QED BY <1>0, <1>2, <2>1, <4>1, <4>2, SessionsAssumption DEF Tokens
      <3>2. CASE Goes(c, "replayed") \/ Goes(c, "reused")
        <4>1. /\ \A d \in Calls : /\ call'[d].token = call[d].token /\ call'[d].got = call[d].got
                                  /\ call'[d].at = call[d].at
                                  /\ d # c => call'[d] = call[d]
              /\ call'[c].pc \notin {"free", "arrived"} /\ call[c].pc = "arrived"
          BY <1>3, <3>2 DEF Goes, TypeOK, Call, Claim
        <4> QED BY <1>2, <4>1
      <3> QED BY <1>3, <3>1, <3>2, ClaimStep
    <2> QED BY <1>2, <1>3, <2>2, <2>3 DEF Claim, browser
  <1>4. ASSUME NEW c \in Calls, Successor(c) PROVE Calm /\ Held /\ Seen
    <2>1. call[c].token \in Tokens
      BY <1>2, <1>4, SessionsAssumption DEF Successor, Call, Tokens
    <2>2. /\ rows[call[c].token].succ \in 0..MaxTokens
          /\ rows[call[c].token].succ <= minted'
      BY <1>1, <2>1, FamilyInRange DEF Issued, Row
    <2>3. CASE Goes(c, "reused")
      BY <1>2, <1>4, <2>3 DEF Goes, Successor, TypeOK, history, browser
    <2>4. CASE call' = [call EXCEPT ![c].pc = "paired",
                                    ![c].got = rows[call[c].token].succ]
      <3>1. /\ call'[c].pc = "paired" /\ call'[c].got = rows[call[c].token].succ
            /\ call'[c].token = call[c].token
            /\ \A d \in Calls \ {c} : call'[d] = call[d]
        BY <2>2, <2>4, GivenType
      <3>2. Calm
        BY <1>2, <1>4, <2>2, <3>1 DEF Successor
      <3> QED BY <1>2, <1>4, <3>2 DEF Successor, history, browser
    <2> QED BY <1>4, <2>3, <2>4 DEF Successor
  <1>5. ASSUME NEW c \in Calls, Arrive(c) PROVE Calm /\ Held /\ Seen
    <2>1. clock + 1 # 0 /\ call \in [Calls -> Call] /\ call[c] \in Call
      BY SessionsAssumption DEF TypeOK
    <2>2. call' = [call EXCEPT ![c] = [call[c] EXCEPT !.pc = "arrived", !.at = clock + 1,
                                         !.since = stale, !.barred = suspended]]
      BY <1>5, <2>1 DEF Arrive
    <2>3. /\ call'[c].token = call[c].token /\ call'[c].got = call[c].got
          /\ call'[c].at = clock + 1
          /\ \A d \in Calls \ {c} : call'[d] = call[d]
      BY <2>1, <2>2 DEF Call
    <2> QED BY <1>2, <1>5, <2>1, <2>3 DEF Arrive, history, browser
  <1>6. ASSUME NEW c \in Calls, Suspension(c) \/ RevokeFamily(c) \/ Forget(c)
        PROVE  Calm /\ Held /\ Seen
    <2>1. CASE Suspension(c)
      BY <1>2, <2>1 DEF Suspension, Goes, TypeOK, history, browser
    <2>2. CASE RevokeFamily(c)
      BY <1>2, <2>2 DEF RevokeFamily, Goes, TypeOK, browser
    <2>3. CASE Forget(c)
      BY <1>2, <2>3 DEF Forget, Free, TypeOK, history, browser
    <2> QED BY <1>6, <2>1, <2>2, <2>3
  <1>7. ASSUME NEW t \in Tabs, Begin(t) PROVE Calm /\ Held /\ Seen
    <2>1. /\ tab' = [tab EXCEPT ![t] = [pc |-> "waiting", read |-> store, got |-> 0]]
          /\ UNCHANGED <<store, copy, shown>>
      BY <1>7 DEF Begin, SetPage, history
    <2>2. PICK c \in Calls : call' = [call EXCEPT ![c] =
                               [Free EXCEPT !.pc = "sent", !.for = t, !.token = store]]
      BY <1>7 DEF Begin
    <2>3. Calm
      BY <1>2, <1>7, <2>2 DEF Begin, Free, TypeOK
    <2> QED BY <1>2, <2>1, <2>3 DEF TypeOK
  <1>8. ASSUME NEW t \in Tabs, Answer(t) PROVE Calm /\ Held /\ Seen
    <2>1. PICK c \in Calls :
            /\ call' = [call EXCEPT ![c] = Free]
            /\ IF call[c].pc = "answered"
                 THEN SetPage(t, [tab[t] EXCEPT !.pc = "saving", !.got = call[c].got])
                 ELSE SetPage(t, [Idle EXCEPT !.pc = "leaving"])
            /\ UNCHANGED <<store, copy, shown>>
      BY <1>8 DEF Answer, history
    <2>2. Calm
      BY <1>2, <2>1 DEF Free, TypeOK
    <2>3. \/ tab' = [tab EXCEPT ![t] = [tab[t] EXCEPT !.pc = "saving", !.got = call[c].got]]
          \/ tab' = [tab EXCEPT ![t] = [Idle EXCEPT !.pc = "leaving"]]
      BY <2>1 DEF SetPage
    <2>4. /\ [tab[t] EXCEPT !.pc = "saving", !.got = call[c].got].read = tab[t].read
          /\ [tab[t] EXCEPT !.pc = "saving", !.got = call[c].got].got = call[c].got
          /\ [Idle EXCEPT !.pc = "leaving"].read = 0 /\ [Idle EXCEPT !.pc = "leaving"].got = 0
      BY FamilyInRange DEF Page, Idle
    <2>5. \A u \in Tabs : tab'[u].read <= minted' /\ tab'[u].got <= minted'
      BY <1>2, <2>3, <2>4 DEF TypeOK
    <2> QED BY <1>2, <2>1, <2>2, <2>5
  <1>9. ASSUME NEW t \in Tabs,
               Save(t) \/ SignOut(t) \/ Logout(t) \/ Clear(t) \/ Login(t) \/ Join(t)
        PROVE  Calm /\ Held /\ Seen
    <2>1. Calm /\ Seen /\ copy' <= minted' /\ store' <= minted'
      BY <1>2, <1>9 DEF Save, SignOut, Logout, Clear, Login, Join, server, history, browser
    <2>2. \E p : /\ tab' = [tab EXCEPT ![t] = p]
                 /\ p.read <= minted' /\ p.got <= minted'
      <3>1. CASE Logout(t)
        <4>1. /\ [tab[t] EXCEPT !.pc = "clearing"].read = tab[t].read
              /\ [tab[t] EXCEPT !.pc = "clearing"].got = tab[t].got
          BY FamilyInRange DEF Page
        <4> QED BY <1>2, <3>1, <4>1 DEF Logout, SetPage
      <3> QED BY <1>2, <1>9, <3>1 DEF Save, SignOut, Clear, Login, Join, SetPage, Idle
    <2> QED BY <1>2, <2>1, <2>2 DEF TypeOK
  <1>10. ASSUME NEW t \in Tabs, Issue(t) PROVE Calm /\ Held /\ Seen
    <2>1. minted' = minted + 1
      BY <1>10 DEF Issue
    <2>2. [Idle EXCEPT !.pc = "joining", !.got = minted + 1].read = 0
          /\ [Idle EXCEPT !.pc = "joining", !.got = minted + 1].got = minted + 1
      BY DEF Idle
    <2> QED BY <1>0, <1>2, <1>10, <2>1, <2>2 DEF Issue, SetPage, TypeOK, history
  <1>11. ASSUME NEW t \in Tabs, Abandon(t) PROVE Calm /\ Held /\ Seen
    <2>1. \A c \in Calls :
            /\ call'[c].token = call[c].token /\ call'[c].got = call[c].got
            /\ call'[c].pc = call[c].pc /\ call'[c].at = call[c].at
      BY <1>11, FamilyInRange DEF Abandon, Call
    <2> QED BY <1>2, <1>11, <2>1 DEF Abandon, SetPage, Idle, TypeOK, history
  <1>12. ASSUME CopyMade \/ CopySends \/ CopyAnswer PROVE Calm /\ Held /\ Seen
    <2>1. CASE CopyMade
      BY <1>2, <2>1 DEF CopyMade, server, history
    <2>2. CASE CopySends
      <3>1. PICK c \in Calls : call' = [call EXCEPT ![c] =
                                 [Free EXCEPT !.pc = "sent", !.by = "second", !.token = copy]]
        BY <2>2 DEF CopySends
      <3>2. Calm
        BY <1>2, <2>2, <3>1 DEF CopySends, Free, TypeOK
      <3> QED BY <1>2, <2>2, <3>2 DEF CopySends, history, browser
    <2>3. CASE CopyAnswer
      BY <1>2, <2>3 DEF CopyAnswer, Free, TypeOK, history
    <2> QED BY <1>12, <2>1, <2>2, <2>3
  <1>13. ASSUME \/ GracePasses \/ RevokeDevice \/ Suspend \/ Sweep \/ UNCHANGED vars
         PROVE  Calm /\ Held /\ Seen
    BY <1>2, <1>13 DEF GracePasses, RevokeDevice, Suspend, Sweep, vars, server, history, browser
  <1>14. ASSUME Reinstate PROVE Calm /\ Held /\ Seen
    <2>1. \A c \in Calls :
            /\ call'[c].token = call[c].token /\ call'[c].got = call[c].got
            /\ call'[c].pc = call[c].pc /\ call'[c].at = call[c].at
      BY <1>14, FamilyInRange DEF Reinstate, Call
    <2> QED BY <1>2, <1>14, <2>1 DEF Reinstate, history, browser
  <1> HIDE DEF Calm, Held, Seen
  <1>15. Calm /\ Held /\ Seen
    BY <1>3, <1>4, <1>5, <1>6, <1>7, <1>8, <1>9, <1>10, <1>11, <1>12, <1>13, <1>14 DEF Next
  <1> QED BY <1>0, <1>15 DEF Issued, Calm, Held, Seen

(* Types and the range of names, inductive together.                         *)
THEOREM InductiveTypes == Spec => [](TypeOK /\ Issued)
  <1>1. Init => TypeOK /\ Issued
    BY InitType
  <1>2. TypeOK /\ Issued /\ [Next]_vars => TypeOK' /\ Issued'
    BY TypeStep, IssuedStep
  <1> QED BY <1>1, <1>2, PTL DEF Spec

(* Rows, handlers and the browser keep their types, for any number of tabs,  *)
(* handlers, tokens and faults.                                              *)
THEOREM TypeCorrect == Spec => []TypeOK
  BY InductiveTypes, PTL

-----------------------------------------------------------------------------
(* Families.                                                                 *)

(* A family and a revocation, after each way the rows change.                *)
LEMMA RotatesRows ==
  ASSUME TypeOK, Issued, NEW c \in Calls, call[c].pc = "arrived", Rotates(c)
  PROVE  /\ call[c].token \in Tokens /\ minted + 1 \in Tokens /\ call[c].token # minted + 1
         /\ Live(call[c].token) /\ rows'[call[c].token].usedAt # 0
         /\ rows'[minted + 1].usedAt = 0 /\ ~rows'[minted + 1].revoked
         /\ rows'[minted + 1].fam = rows[call[c].token].fam /\ rows[minted + 1].fam = 0
         /\ \A j \in Tokens : j # minted + 1 => /\ rows'[j].fam = rows[j].fam
                                                /\ rows'[j].revoked = rows[j].revoked
         /\ \A j \in Tokens : j # call[c].token /\ j # minted + 1 => rows'[j] = rows[j]
  <1> DEFINE k == call[c].token
             n == minted + 1
  <1>1. /\ call[c].at # 0 /\ k \in Tokens /\ n \in Tokens /\ ~(n <= minted)
        /\ MayRotate(rows[k]) /\ minted \in Nat
    BY SessionsAssumption DEF Issued, Rotates, TypeOK, Tokens
  <1>2. /\ rows'[k].fam = rows[k].fam /\ rows'[k].usedAt # 0
        /\ rows'[k].revoked = rows[k].revoked
        /\ rows'[n] = NewRow(rows[k].fam) /\ n # k
        /\ \A j \in Tokens : j # k /\ j # n => rows'[j] = rows[j]
    BY <1>1, RotatesTypes
  <1>3. rows[n].fam = 0 /\ rows[k].fam # 0
    BY <1>1 DEF TypeOK, MayRotate
  <1>4. /\ NewRow(rows[k].fam).fam = rows[k].fam /\ NewRow(rows[k].fam).usedAt = 0
        /\ NewRow(rows[k].fam).revoked = FALSE
    BY DEF NewRow, Unissued
  <1> QED BY <1>1, <1>2, <1>3, <1>4 DEF Live, Unused, MayRotate

LEMMA RevokesRows ==
  ASSUME TypeOK, NEW F, Revokes(F)
  PROVE  /\ \A k \in Tokens : /\ Live(k)' => Live(k)
                              /\ rows[k].revoked => rows'[k].revoked
                              /\ rows'[k].revoked = (rows[k].revoked \/ rows[k].fam \in F)
         /\ \A j, k \in Tokens : SameFamily(j, k)' <=> SameFamily(j, k)
  BY RevokesTypes DEF Live, Unused, SameFamily

LEMMA SignsInRows ==
  ASSUME TypeOK, Issued, SignsIn
  PROVE  /\ minted + 1 \in Tokens
         /\ rows'[minted + 1].usedAt = 0 /\ ~rows'[minted + 1].revoked
         /\ rows'[minted + 1].fam = minted + 1 /\ rows[minted + 1].fam = 0
         /\ \A k \in Tokens : k # minted + 1 => /\ rows'[k] = rows[k]
                                                /\ rows'[k].fam # minted + 1
  <1>1. /\ minted + 1 \in Tokens /\ minted \in Nat /\ ~(minted + 1 <= minted)
        /\ minted + 1 # 0
    BY SessionsAssumption DEF SignsIn, TypeOK, Tokens
  <1>2. /\ rows'[minted + 1] = NewRow(minted + 1)
        /\ \A k \in Tokens : k # minted + 1 => rows'[k] = rows[k]
    BY SignsInTypes
  <1>3. /\ NewRow(minted + 1).fam = minted + 1 /\ NewRow(minted + 1).usedAt = 0
        /\ NewRow(minted + 1).revoked = FALSE
    BY DEF NewRow, Unissued
  <1>4. rows[minted + 1].fam = 0
    BY <1>1 DEF TypeOK
  <1>5. \A k \in Tokens : rows[k].fam <= minted
    BY DEF Issued
  <1> QED BY <1>1, <1>2, <1>3, <1>4, <1>5 DEF Live, Unused

LEMMA OneLiveStep ==
  ASSUME TypeOK, Issued, OneLive, RowStep
  PROVE  OneLive'
  <1> SUFFICES ASSUME NEW j \in Tokens, NEW k \in Tokens,
                      Live(j)', Live(k)', SameFamily(j, k)'
               PROVE  j = k
    BY DEF OneLive
  <1>1. CASE UNCHANGED tokens
    BY <1>1 DEF OneLive, Live, Unused, SameFamily, tokens
  <1>2. ASSUME NEW c \in Calls, call[c].pc = "arrived", Rotates(c) PROVE j = k
    <2>1. ASSUME NEW i \in Tokens, Live(i)', i # minted + 1
          PROVE  Live(i) /\ rows[i].fam # rows[call[c].token].fam
      <3>1. /\ call[c].token \in Tokens /\ Live(call[c].token) /\ i # call[c].token
            /\ rows'[i] = rows[i]
        BY <1>2, <2>1, RotatesRows DEF Live, Unused
      <3>2. Live(i)
        BY <2>1, <3>1 DEF Live, Unused
      <3>3. ~SameFamily(i, call[c].token)
        BY <3>1, <3>2 DEF OneLive
      <3> QED BY <3>2, <3>3 DEF SameFamily, Live, Unused
    <2>2. CASE j # minted + 1 /\ k # minted + 1
      BY <1>2, <2>1, <2>2, RotatesRows DEF OneLive, SameFamily
    <2>3. CASE j = minted + 1 /\ k # minted + 1
      BY <1>2, <2>1, <2>3, RotatesRows DEF SameFamily
    <2>4. CASE j # minted + 1 /\ k = minted + 1
      BY <1>2, <2>1, <2>4, RotatesRows DEF SameFamily
    <2> QED BY <2>2, <2>3, <2>4
  <1>3. ASSUME NEW F \in SUBSET Tokens, Revokes(F) PROVE j = k
    BY <1>3, RevokesRows DEF OneLive
  <1>4. CASE SignsIn
    BY <1>4, SignsInRows DEF OneLive, SameFamily, Live, Unused
  <1> QED BY <1>1, <1>2, <1>3, <1>4 DEF RowStep

LEMMA RevokedWholeStep ==
  ASSUME TypeOK, Issued, RevokedWhole, RowStep
  PROVE  RevokedWhole'
  <1> SUFFICES ASSUME NEW j \in Tokens, NEW k \in Tokens, SameFamily(j, k)'
               PROVE  rows'[j].revoked = rows'[k].revoked
    BY DEF RevokedWhole
  <1>1. CASE UNCHANGED tokens
    BY <1>1 DEF RevokedWhole, SameFamily, tokens
  <1>2. ASSUME NEW c \in Calls, call[c].pc = "arrived", Rotates(c)
        PROVE  rows'[j].revoked = rows'[k].revoked
    <2>1. ASSUME NEW i \in Tokens, i # minted + 1, rows[i].fam = rows[call[c].token].fam
          PROVE  rows'[i].revoked = FALSE
      BY <1>2, <2>1, RotatesRows DEF RevokedWhole, SameFamily, Live, Unused
    <2>2. rows'[minted + 1].revoked = FALSE
      <3>0. minted + 1 \in Tokens /\ call[c].at # 0
        BY <1>2, RotatesRows DEF Issued
      <3>1. rows'[minted + 1] = NewRow(rows[call[c].token].fam)
        BY <1>2, <3>0, RotatesTypes
      <3> QED BY <3>1 DEF NewRow, Unissued
    <2>3. CASE j # minted + 1 /\ k # minted + 1
      BY <1>2, <2>3, RotatesRows DEF RevokedWhole, SameFamily
    <2>4. ASSUME NEW i \in Tokens, i # minted + 1, rows'[i].fam = rows'[minted + 1].fam
          PROVE  rows'[i].revoked = FALSE
      <3>1. /\ rows'[i].fam = rows[i].fam
            /\ rows'[minted + 1].fam = rows[call[c].token].fam
        BY <1>2, <2>4, RotatesRows
      <3> QED BY <2>1, <2>4, <3>1
    <2>5. CASE j = minted + 1 \/ k = minted + 1
      BY <2>2, <2>4, <2>5 DEF SameFamily
    <2> QED BY <2>3, <2>5
  <1>3. ASSUME NEW F \in SUBSET Tokens, Revokes(F) PROVE rows'[j].revoked = rows'[k].revoked
    BY <1>3, RevokesRows DEF RevokedWhole, SameFamily
  <1>4. CASE SignsIn
    BY <1>4, SignsInRows DEF RevokedWhole, SameFamily
  <1> QED BY <1>1, <1>2, <1>3, <1>4 DEF RowStep

(* The two facts about families together.  They hold of the rows alone: the  *)
(* only rotation is of the live token, whose family is therefore not         *)
(* revoked, and the successor takes its place.                               *)
THEOREM FamiliesHold == Spec => [](OneLive /\ RevokedWhole)
  <1>1. Init => OneLive /\ RevokedWhole
    <2> SUFFICES ASSUME Init PROVE OneLive /\ RevokedWhole
      OBVIOUS
    <2>1. \A k \in Tokens : rows[k].fam # 0 => k = 1
      BY DEF Init, Unissued
    <2> QED BY <2>1 DEF OneLive, RevokedWhole, SameFamily, Live, Unused
  <1>2. /\ TypeOK /\ Issued /\ OneLive /\ RevokedWhole /\ [Next]_vars
        => (OneLive /\ RevokedWhole)'
    BY RowSteps, OneLiveStep, RevokedWholeStep
  <1> QED BY <1>1, <1>2, InductiveTypes, PTL DEF Spec

(* A family never has two tokens that rotate, however handlers interleave    *)
(* (RotateRefreshSessionBound).                                              *)
THEOREM OneLiveHolds == Spec => []OneLive
  BY FamiliesHold, PTL

(* A revocation leaves out no token of its family, one rotated in meanwhile  *)
(* included (RevokeRefreshSessionFamily).                                    *)
THEOREM RevocationHolds == Spec => []RevokedWhole
  BY FamiliesHold, PTL

-----------------------------------------------------------------------------
(* A suspended account.                                                      *)

LEMMA BarredStep ==
  ASSUME TypeOK, Issued, Barred, [Next]_vars
  PROVE  Barred'
  <1>0. call \in [Calls -> Call]
    BY DEF TypeOK
  <1>1. ASSUME NEW c \in Calls, Arrive(c) PROVE Barred'
    <2>1. call' = [call EXCEPT ![c] = [call[c] EXCEPT !.pc = "arrived", !.at = clock + 1,
                                         !.since = stale, !.barred = suspended]]
      BY <1>0, <1>1 DEF Arrive
    <2>2. /\ call'[c].pc = "arrived" /\ call'[c].barred = suspended
          /\ \A d \in Calls \ {c} : call'[d] = call[d]
      BY <1>0, <2>1 DEF Call
    <2> QED BY <1>1, <2>2 DEF Barred, Arrive, account
  <1>2. ASSUME NEW c \in Calls, NEW pc \in {"replayed", "reused", "barred", "answered", "denied"},
               Goes(c, pc), suspended' = suspended, pc = "answered" => ~suspended
        PROVE  Barred'
    <2>1. /\ call'[c].pc = pc /\ call'[c].barred = call[c].barred
          /\ \A d \in Calls \ {c} : call'[d] = call[d]
      BY <1>0, <1>2 DEF Goes, Call
    <2> QED BY <1>2, <2>1 DEF Barred
  <1>3. ASSUME NEW c \in Calls, NEW pc \in {"rotated", "paired"}, NEW n \in 0..MaxTokens,
               call' = [call EXCEPT ![c].pc = pc, ![c].got = n], suspended' = suspended
        PROVE  Barred'
    BY <1>3, GivenType DEF Barred
  <1>4. ASSUME NEW c \in Calls, Claim(c) PROVE Barred'
    <2>1. suspended' = suspended
      BY <1>4 DEF Claim, account
    <2>2. CASE Rotates(c) /\ call' = [call EXCEPT ![c].pc = "rotated", ![c].got = minted + 1]
      <3>1. minted + 1 \in 0..MaxTokens
        BY <2>2, SessionsAssumption DEF Rotates, TypeOK, Tokens
      <3> QED BY <1>3, <2>1, <2>2, <3>1
    <2> QED BY <1>2, <1>4, <2>1, <2>2, ClaimStep
  <1>5. ASSUME NEW c \in Calls, Successor(c) PROVE Barred'
    <2>1. suspended' = suspended
      BY <1>5 DEF Successor, account
    <2>2. call[c].token \in Tokens
      BY <1>5, FamilyInRange, SessionsAssumption DEF Successor, Issued, Call, Tokens
    <2>3. rows[call[c].token].succ \in 0..MaxTokens
      BY <2>2, FamilyInRange DEF Row
    <2> QED BY <1>2, <1>3, <1>5, <2>1, <2>3 DEF Successor
  <1>6. ASSUME NEW c \in Calls, Suspension(c) \/ RevokeFamily(c) PROVE Barred'
    BY <1>2, <1>6 DEF Suspension, RevokeFamily, account
  <1>7. ASSUME NEW c \in Calls, ~call'[c].barred, suspended' = suspended,
               \A d \in Calls \ {c} : call'[d] = call[d]
        PROVE  Barred'
    BY <1>7 DEF Barred
  <1>8. ASSUME NEW c \in Calls, Forget(c) PROVE Barred'
    <2>1. ~call'[c].barred /\ \A d \in Calls \ {c} : call'[d] = call[d]
      BY <1>0, <1>8 DEF Forget, Free
    <2> QED BY <1>7, <1>8, <2>1 DEF Forget, account
  <1>9. ASSUME NEW t \in Tabs, Begin(t) \/ Answer(t) PROVE Barred'
    <2>1. \E c \in Calls : ~call'[c].barred /\ \A d \in Calls \ {c} : call'[d] = call[d]
      <3>1. CASE Begin(t)
        <4>1. PICK c \in Calls : call' = [call EXCEPT ![c] =
                                   [Free EXCEPT !.pc = "sent", !.for = t, !.token = store]]
          BY <3>1 DEF Begin
        <4> QED BY <1>0, <4>1 DEF Free
      <3>2. CASE Answer(t)
        BY <1>0, <3>2 DEF Answer, Free
      <3> QED BY <1>9, <3>1, <3>2
    <2>2. suspended' = suspended
      BY <1>9 DEF Begin, Answer, account
    <2> QED BY <1>7, <2>1, <2>2
  <1>10. ASSUME CopySends \/ CopyAnswer PROVE Barred'
    <2>1. \E c \in Calls : ~call'[c].barred /\ \A d \in Calls \ {c} : call'[d] = call[d]
      <3>1. CASE CopySends
        <4>1. PICK c \in Calls : call' = [call EXCEPT ![c] =
                                   [Free EXCEPT !.pc = "sent", !.by = "second", !.token = copy]]
          BY <3>1 DEF CopySends
        <4> QED BY <1>0, <4>1 DEF Free
      <3>2. CASE CopyAnswer
        BY <1>0, <3>2 DEF CopyAnswer, Free
      <3> QED BY <1>10, <3>1, <3>2
    <2>2. suspended' = suspended
      BY <1>10 DEF CopySends, CopyAnswer, account
    <2> QED BY <1>7, <2>1, <2>2
  <1>11. ASSUME NEW t \in Tabs, Abandon(t) PROVE Barred'
    <2>1. \A c \in Calls : call'[c].pc = call[c].pc /\ call'[c].barred = call[c].barred
      BY <1>11, FamilyInRange DEF Abandon, Call
    <2> QED BY <1>11, <2>1 DEF Abandon, account, Barred
  <1>12. ASSUME Reinstate PROVE Barred'
    <2>1. \A c \in Calls : call'[c].barred = FALSE
      BY <1>12, FamilyInRange DEF Reinstate, Call
    <2> QED BY <2>1 DEF Barred
  <1>13. ASSUME Suspend PROVE Barred'
    BY <1>13 DEF Suspend, Barred
  <1>14. ASSUME \/ GracePasses \/ RevokeDevice \/ Sweep \/ CopyMade \/ UNCHANGED vars
         PROVE  Barred'
    BY <1>14 DEF GracePasses, RevokeDevice, Sweep, CopyMade, vars, server, account, Barred
  <1>15. ASSUME NEW t \in Tabs,
                \/ Save(t) \/ SignOut(t) \/ Logout(t) \/ Clear(t)
                \/ Login(t) \/ Issue(t) \/ Join(t)
         PROVE  Barred'
    BY <1>15 DEF Save, SignOut, Logout, Clear, Login, Issue, Join, server, account, Barred
  <1> QED BY <1>1, <1>4, <1>5, <1>6, <1>8, <1>9, <1>10, <1>11, <1>12, <1>13, <1>14, <1>15
          DEF Next

(* A request that arrives under a suspension is not answered with tokens     *)
(* before the account is reinstated, at whatever statement of RefreshToken   *)
(* it meets the suspension.                                                  *)
THEOREM SuspensionHolds == Spec => []NoneWhileSuspended
  <1>1. Init => Barred
    BY DEF Init, Barred, Free
  <1>2. TypeOK /\ Issued /\ Barred /\ [Next]_vars => Barred'
    BY BarredStep
  <1>3. Barred => NoneWhileSuspended
    BY DEF Barred, NoneWhileSuspended
  <1> QED BY <1>1, <1>2, <1>3, InductiveTypes, PTL DEF Spec

-----------------------------------------------------------------------------
(* A token that was judged for two devices.                                  *)

(* Reuse once found is acted upon, and only Claim judges a request.          *)
LEMMA ReusedKept ==
  ASSUME TypeOK, Issued, [Next]_vars
  PROVE  /\ \A c \in Calls : call[c].pc = "reused" =>
              \/ call'[c].pc = "reused" /\ call'[c].token = call[c].token
              \/ RevokeFamily(c)
         /\ (\E c \in Calls : Claim(c)) \/ shown' = shown
  <1> DEFINE Kept == \A c \in Calls : call[c].pc = "reused" =>
                       \/ call'[c].pc = "reused" /\ call'[c].token = call[c].token
                       \/ RevokeFamily(c)
  <1>0. call \in [Calls -> Call]
    BY DEF TypeOK
  <1>1. ASSUME NEW c \in Calls, call[c].pc # "reused",
               \A d \in Calls \ {c} : call'[d] = call[d]
        PROVE  Kept
    BY <1>1
  <1>2. ASSUME NEW c \in Calls,
               Arrive(c) \/ Claim(c) \/ Successor(c) \/ Suspension(c) \/ Forget(c)
        PROVE  Kept
    <2>1. call[c].pc # "reused"
      BY <1>2 DEF Arrive, Claim, Successor, Suspension, Forget
    <2>2. \A d \in Calls \ {c} : call'[d] = call[d]
      <3>1. CASE Arrive(c) \/ Forget(c) \/ Suspension(c)
        BY <1>0, <3>1 DEF Arrive, Forget, Suspension, Goes
      <3>2. CASE Claim(c)
        BY <1>0, <3>2 DEF Claim, Goes
      <3>3. CASE Successor(c)
        BY <1>0, <3>3 DEF Successor, Goes
      <3> QED BY <1>2, <3>1, <3>2, <3>3
    <2> QED BY <1>1, <2>1, <2>2
  <1>3. ASSUME NEW c \in Calls, RevokeFamily(c) PROVE Kept
    BY <1>0, <1>3 DEF RevokeFamily, Goes
  <1>4. ASSUME NEW t \in Tabs, Begin(t) \/ Answer(t) PROVE Kept
    <2>1. \E c \in Calls : call[c].pc # "reused" /\ \A d \in Calls \ {c} : call'[d] = call[d]
      <3>1. CASE Begin(t)
        <4>1. PICK c \in Calls :
                /\ call[c].pc = "free"
                /\ call' = [call EXCEPT ![c] =
                              [Free EXCEPT !.pc = "sent", !.for = t, !.token = store]]
          BY <3>1 DEF Begin
        <4> QED BY <1>0, <4>1
      <3>2. CASE Answer(t)
        BY <1>0, <3>2 DEF Answer
      <3> QED BY <1>4, <3>1, <3>2
    <2> QED BY <1>1, <2>1
  <1>5. ASSUME CopySends \/ CopyAnswer PROVE Kept
    <2>1. \E c \in Calls : call[c].pc # "reused" /\ \A d \in Calls \ {c} : call'[d] = call[d]
      <3>1. CASE CopySends
        <4>1. PICK c \in Calls :
                /\ call[c].pc = "free"
                /\ call' = [call EXCEPT ![c] =
                              [Free EXCEPT !.pc = "sent", !.by = "second", !.token = copy]]
          BY <3>1 DEF CopySends
        <4> QED BY <1>0, <4>1
      <3>2. CASE CopyAnswer
        BY <1>0, <3>2 DEF CopyAnswer
      <3> QED BY <1>5, <3>1, <3>2
    <2> QED BY <1>1, <2>1
  <1>6. ASSUME NEW t \in Tabs, Abandon(t) PROVE Kept
    BY <1>6, FamilyInRange DEF Abandon, Call
  <1>7. ASSUME Reinstate PROVE Kept
    BY <1>7, FamilyInRange DEF Reinstate, Call
  <1>8. ASSUME \/ GracePasses \/ RevokeDevice \/ Suspend \/ Sweep \/ CopyMade
               \/ UNCHANGED vars
        PROVE  Kept
    BY <1>8 DEF GracePasses, RevokeDevice, Suspend, Sweep, CopyMade, vars, server
  <1>9. ASSUME NEW t \in Tabs,
               Save(t) \/ SignOut(t) \/ Logout(t) \/ Clear(t) \/ Login(t) \/ Issue(t) \/ Join(t)
        PROVE  Kept
    BY <1>9 DEF Save, SignOut, Logout, Clear, Login, Issue, Join, server
  <1>10. Kept
    <2> HIDE DEF Kept
    <2> QED BY <1>2, <1>3, <1>4, <1>5, <1>6, <1>7, <1>8, <1>9 DEF Next
  <1>11. (\E c \in Calls : Claim(c)) \/ shown' = shown
    <2>1. ASSUME NEW c \in Calls,
                 Arrive(c) \/ Successor(c) \/ Suspension(c) \/ RevokeFamily(c) \/ Forget(c)
          PROVE  shown' = shown
      BY <2>1 DEF Arrive, Successor, Suspension, RevokeFamily, Forget, history
    <2>2. ASSUME \/ GracePasses \/ RevokeDevice \/ Suspend \/ Sweep \/ Reinstate
                 \/ CopyMade \/ CopySends \/ CopyAnswer \/ UNCHANGED vars
          PROVE  shown' = shown
      BY <2>2 DEF GracePasses, RevokeDevice, Suspend, Sweep, Reinstate, CopyMade, CopySends,
                  CopyAnswer, vars, server, history
    <2>3. ASSUME NEW t \in Tabs,
                 \/ Begin(t) \/ Answer(t) \/ Save(t) \/ SignOut(t) \/ Logout(t)
                 \/ Clear(t) \/ Login(t) \/ Issue(t) \/ Join(t) \/ Abandon(t)
          PROVE  shown' = shown
      BY <2>3 DEF Begin, Answer, Save, SignOut, Logout, Clear, Login, Issue, Join, Abandon,
                  server, history
    <2> QED BY <2>1, <2>2, <2>3 DEF Next
  <1> QED BY <1>10, <1>11

(* The family of a token revoked by RevokeFamily is revoked.                 *)
LEMMA FamilyRevoked ==
  ASSUME TypeOK, Issued, NEW c \in Calls, RevokeFamily(c)
  PROVE  call[c].token \in Tokens /\ rows'[call[c].token].revoked
  <1>1. call[c] \in Call /\ call[c].token # 0 /\ call[c].token <= minted
    BY FamilyInRange DEF RevokeFamily, Issued
  <1>2. call[c].token \in Tokens
    BY <1>1, SessionsAssumption DEF Call, Tokens
  <1>3. rows[call[c].token].fam # 0 /\ rows[call[c].token] \in Row
    BY <1>1, <1>2, FamilyInRange DEF TypeOK
  <1> QED BY <1>2, <1>3 DEF RevokeFamily, RevokedAll, Row

(* What every step keeps of an issued token that no request rotates.         *)
LEMMA RowKept ==
  ASSUME TypeOK, Issued, RowStep, NEW k \in Tokens, k <= minted
  PROVE  /\ rows[k].revoked => rows'[k].revoked
         /\ \/ \E c \in Calls : Claim(c) /\ Rotates(c) /\ call[c].token = k
            \/ /\ rows'[k].fam = rows[k].fam /\ rows'[k].usedAt = rows[k].usedAt
               /\ rows'[k].bind = rows[k].bind
  <1>0. minted \in Nat /\ k # minted + 1
    BY SessionsAssumption DEF TypeOK, Tokens
  <1>1. CASE UNCHANGED tokens
    BY <1>1 DEF tokens
  <1>2. ASSUME NEW c \in Calls, call[c].pc = "arrived", Claim(c), Rotates(c)
        PROVE  /\ rows[k].revoked => rows'[k].revoked
               /\ call[c].token = k \/ rows'[k] = rows[k]
    BY <1>0, <1>2, RotatesRows
  <1>3. ASSUME NEW F \in SUBSET Tokens, Revokes(F)
        PROVE  /\ rows[k].revoked => rows'[k].revoked
               /\ rows'[k].fam = rows[k].fam /\ rows'[k].usedAt = rows[k].usedAt
               /\ rows'[k].bind = rows[k].bind
    BY <1>3, RevokesTypes
  <1>4. CASE SignsIn
    BY <1>0, <1>4, SignsInRows
  <1> QED BY <1>1, <1>2, <1>3, <1>4 DEF RowStep

LEMMA JudgedStep ==
  ASSUME TypeOK, Issued, Judged, [Next]_vars
  PROVE  Judged'
  <1> SUFFICES ASSUME NEW k \in Tokens, ~Ending(k)', shown'[k] # {}
               PROVE  rows'[k].usedAt # 0 /\ shown'[k] = {rows'[k].bind}
    BY DEF Judged
  <1>0. RowStep /\ \A c \in Calls : call[c].token = k => k <= minted
    BY RowSteps DEF Issued
  <1>1. k <= minted
    <2>1. CASE shown'[k] = shown[k]
      BY <2>1 DEF Issued
    <2>2. CASE shown'[k] # shown[k]
      <3>1. PICK c \in Calls : Claim(c)
        BY <2>2, ReusedKept
      <3>2. call[c].token = k
        BY <2>2, <3>1, ClaimStep DEF TypeOK
      <3> QED BY <1>0, <3>2
    <2> QED BY <2>1, <2>2
  <1>2. ~Ending(k)
    <2>1. ~rows[k].revoked
      BY <1>0, <1>1, RowKept DEF Ending
    <2>2. ASSUME NEW c \in Calls, call[c].token = k, call[c].pc = "reused" PROVE FALSE
      <3>1. CASE RevokeFamily(c)
        BY <2>2, <3>1, FamilyRevoked DEF Ending
      <3>2. CASE call'[c].pc = "reused" /\ call'[c].token = k
        BY <3>2 DEF Ending
      <3> QED BY <2>2, <3>1, <3>2, ReusedKept
    <2> QED BY <2>1, <2>2 DEF Ending
  <1>3. shown[k] = {} \/ (rows[k].usedAt # 0 /\ shown[k] = {rows[k].bind})
    BY <1>2 DEF Judged
  <1>4. CASE \E c \in Calls : Claim(c) /\ call[c].token = k
    <2>1. PICK c \in Calls : Claim(c) /\ call[c].token = k
      BY <1>4
    <2>2. shown'[k] = shown[k] \cup {call[c].by}
      BY <2>1, ClaimStep DEF TypeOK
    <2>3. CASE Rotates(c)
      <3>1. call[c].at # 0 /\ rows[k].usedAt = 0 /\ call[c].token = k
        BY <2>1, <2>3, ClaimStep DEF Rotates, MayRotate
      <3>2. rows'[k].usedAt = call[c].at /\ rows'[k].bind = call[c].by
        BY <2>3, <3>1, RotatesTypes
      <3> QED BY <1>3, <2>2, <3>1, <3>2
    <2>4. CASE WithinGrace(rows[k], call[c]) /\ UNCHANGED tokens
      BY <1>3, <2>2, <2>4 DEF WithinGrace, tokens
    <2>5. CASE Goes(c, "reused")
      <3>1. call'[c].pc = "reused" /\ call'[c].token = k
        BY <2>1, <2>5 DEF Goes, TypeOK, Call
      <3> QED BY <3>1 DEF Ending
    <2> QED BY <2>1, <2>3, <2>4, <2>5, ClaimStep
  <1>5. CASE ~\E c \in Calls : Claim(c) /\ call[c].token = k
    <2>1. rows'[k].usedAt = rows[k].usedAt /\ rows'[k].bind = rows[k].bind
      BY <1>0, <1>1, <1>5, RowKept
    <2>2. shown'[k] = shown[k]
      <3>1. CASE shown' = shown
        BY <3>1
      <3>2. ASSUME NEW c \in Calls, Claim(c) PROVE shown'[k] = shown[k]
        BY <1>5, <3>2, ClaimStep DEF TypeOK
      <3> QED BY <3>1, <3>2, ReusedKept
    <2> QED BY <1>3, <2>1, <2>2
  <1> QED BY <1>4, <1>5

(* When two devices have presented a token, its family ends: RefreshToken    *)
(* answers only the device that used the token up, and revokes the family    *)
(* for any other.  By Judged, as long as the family is not ending that       *)
(* device is the only one whose request was judged.                          *)
THEOREM ReuseEnds == Spec => []ReuseEndsFamily
  <1>1. Init => Judged
    BY DEF Init, Judged
  <1>2. TypeOK /\ Issued /\ Judged /\ [Next]_vars => Judged'
    BY JudgedStep
  <1>3. Judged => ReuseEndsFamily
    BY DEF Judged, ReuseEndsFamily, Ending, Devices
  <1> QED BY <1>1, <1>2, <1>3, InductiveTypes, PTL DEF Spec

-----------------------------------------------------------------------------
(* The browser's own tabs.                                                   *)

(* Whom the tokens that Own speaks of belong to.                             *)
LEMMA OwnFacts ==
  ASSUME TypeOK, Issued, Own
  PROVE  /\ \A c \in Calls : call[c].pc # "free" =>
              /\ lock = call[c].for /\ lock \in Tabs /\ lock # NoTab
              /\ call[c].token = store /\ store # 0 /\ tab[lock].pc = "waiting"
         /\ \A t \in Tabs : tab[t].pc \in {"waiting", "saving"} => lock # NoTab
         /\ store # 0 => store \in Tokens
         /\ \A c \in Calls : call[c].got # 0 => call[c].got \in Tokens
         /\ \A t \in Tabs : tab[t].got # 0 => tab[t].got \in Tokens
         /\ store <= minted
         /\ \A c \in Calls : call[c].got <= minted
         /\ \A t \in Tabs : tab[t].got <= minted
         /\ minted + 1 # store /\ minted + 1 # 0
         /\ \A c \in Calls : call[c].got # minted + 1
         /\ \A t \in Tabs : tab[t].got # minted + 1
  <1>1. \A v \in 0..MaxTokens : (v # 0 => v \in Tokens) /\ (v <= minted => v # minted + 1)
    BY SessionsAssumption DEF TypeOK, Tokens
  <1>2. /\ store \in 0..MaxTokens /\ \A c \in Calls : call[c].got \in 0..MaxTokens
        /\ \A t \in Tabs : tab[t].got \in 0..MaxTokens
    BY FamilyInRange DEF TypeOK, Call, Page
  <1>3. minted + 1 # 0
    BY SessionsAssumption DEF TypeOK, Tokens
  <1>4. \A c \in Calls : call[c].pc # "free" => call[c].token # 0 /\ call[c].for # NoTab
    BY SessionsAssumption DEF Own, OneRequest, Issued
  <1>5. \A t \in Tabs : t # NoTab
    BY SessionsAssumption
  <1> QED BY <1>1, <1>2, <1>3, <1>4, <1>5 DEF Own, OneRequest, HoldsLock, Issued

(* A token stays fit until it is rotated.                                    *)
LEMMA FitKept ==
  ASSUME TypeOK, Issued, RowStep, NEW k \in Tokens, k <= minted, Fit(rows[k]),
         \A c \in Calls : Claim(c) => call[c].token # k
  PROVE  Fit(rows'[k])
  BY RowKept DEF Fit

(* A handler's step: what Own asks of the request that moved on.             *)
LEMMA HandlerOwn ==
  ASSUME TypeOK, Issued, Own, UNCHANGED browser, ended' = ended,
         NEW c \in Calls, call[c].pc # "free", call'[c].pc # "free",
         \A d \in Calls \ {c} : call'[d] = call[d],
         call'[c].by = call[c].by, call'[c].for = call[c].for, call'[c].token = call[c].token,
         call'[c].pc \in {"sent", "arrived"} => Fit(rows'[store]),
         call'[c].pc # "replayed",
         call'[c].pc \in {"rotated", "paired", "barred", "answered"} =>
           call'[c].got # 0 /\ Fit(rows'[call'[c].got]),
         call'[c].pc \in {"reused", "denied"} => rows'[store].revoked,
         \A t \in Tabs : tab[t].pc = "joining" =>
           Fit(rows'[tab[t].got]) /\ call'[c].got # tab[t].got
  PROVE  Own'
  <1>1. store' = store /\ lock' = lock /\ tab' = tab /\ copy' = copy
    BY DEF browser
  <1>2. /\ lock = call[c].for /\ lock # NoTab /\ call[c].token = store
        /\ \A t \in Tabs : tab[t].pc # "saving"
        /\ \A d \in Calls \ {c} : call'[d].pc = "free"
    BY OwnFacts DEF Own, OneRequest, HoldsLock
  <1>3. OneRequest'
    BY <1>1, <1>2 DEF Own, OneRequest
  <1>4. HoldsLock'
    BY <1>1, <1>2 DEF Own, HoldsLock
  <1>5. Joining'
    BY <1>1, <1>2 DEF Own, Joining
  <1> QED BY <1>1, <1>2, <1>3, <1>4, <1>5 DEF Own

(* The rows that Own speaks of, after any step.                              *)
LEMMA OwnFit ==
  ASSUME TypeOK, Issued, Own, [Next]_vars
  PROVE  /\ \A t \in Tabs : tab[t].pc \in {"joining", "saving"} => Fit(rows'[tab[t].got])
         /\ \A c \in Calls : call[c].pc \in {"rotated", "paired", "barred", "answered"} =>
              Fit(rows'[call[c].got])
         /\ \A c \in Calls : call[c].pc \in {"sent", "arrived"} => Fit(rows'[store]) \/ Claim(c)
         /\ \A c \in Calls : call[c].pc \in {"reused", "denied"} => rows'[store].revoked
         /\ lock = NoTab /\ store # 0 => Fit(rows'[store])
  <1>0. RowStep
    BY RowSteps
  <1>1. \A c \in Calls : Claim(c) => /\ call[c].pc = "arrived" /\ call[c].token = store
                                     /\ lock # NoTab
    BY OwnFacts DEF Claim
  <1>2. ASSUME NEW t \in Tabs, tab[t].pc = "joining" PROVE Fit(rows'[tab[t].got])
    <2>1. /\ tab[t].got # store /\ tab[t].got \in Tokens /\ tab[t].got <= minted
          /\ Fit(rows[tab[t].got])
      BY <1>2, OwnFacts DEF Own, Joining
    <2> QED BY <1>0, <1>1, <2>1, FitKept
  <1>3. ASSUME NEW t \in Tabs, tab[t].pc = "saving" PROVE Fit(rows'[tab[t].got])
    <2>1. /\ \A c \in Calls : call[c].pc = "free"
          /\ tab[t].got \in Tokens /\ tab[t].got <= minted /\ Fit(rows[tab[t].got])
      BY <1>3, OwnFacts DEF Own, HoldsLock
    <2> QED BY <1>0, <1>1, <2>1, FitKept
  <1>4. ASSUME NEW c \in Calls, call[c].pc \in {"rotated", "paired", "barred", "answered"}
        PROVE  Fit(rows'[call[c].got])
    <2>1. /\ \A d \in Calls : ~Claim(d)
          /\ call[c].got \in Tokens /\ call[c].got <= minted /\ Fit(rows[call[c].got])
      BY <1>1, <1>4, OwnFacts DEF Own, OneRequest
    <2> QED BY <1>0, <2>1, FitKept
  <1>5. ASSUME NEW c \in Calls, call[c].pc \in {"sent", "arrived"}
        PROVE  Fit(rows'[store]) \/ Claim(c)
    <2>1. /\ \A d \in Calls \ {c} : ~Claim(d)
          /\ store \in Tokens /\ store <= minted /\ Fit(rows[store])
      BY <1>1, <1>5, OwnFacts DEF Own, OneRequest
    <2> QED BY <1>0, <2>1, FitKept
  <1>6. ASSUME NEW c \in Calls, call[c].pc \in {"reused", "denied"}
        PROVE  rows'[store].revoked
    <2>1. store \in Tokens /\ store <= minted /\ rows[store].revoked
      BY <1>6, OwnFacts DEF Own, OneRequest
    <2> QED BY <1>0, <2>1, RowKept
  <1>7. ASSUME lock = NoTab, store # 0 PROVE Fit(rows'[store])
    <2>1. \A c \in Calls : ~Claim(c)
      BY <1>1, <1>7
    <2>2. store \in Tokens /\ store <= minted /\ Fit(rows[store])
      BY <1>7, OwnFacts DEF Own
    <2> QED BY <1>0, <2>1, <2>2, FitKept
  <1> QED BY <1>2, <1>3, <1>4, <1>5, <1>6, <1>7

(* The handlers.                                                             *)
LEMMA HandlersOwn ==
  ASSUME TypeOK, Issued, Own, [Next]_vars, NEW c \in Calls,
         \/ Arrive(c) \/ Claim(c) \/ Successor(c) \/ Suspension(c)
         \/ RevokeFamily(c) \/ Forget(c)
  PROVE  Own'
  <1>0. /\ call \in [Calls -> Call] /\ call[c] \in Call
        /\ \A t \in Tabs : tab[t].pc = "joining" => Fit(rows'[tab[t].got])
        /\ call[c].pc # "free" =>
             \A t \in Tabs : tab[t].pc = "joining" => call[c].got # tab[t].got
    BY FamilyInRange, OwnFit DEF TypeOK, Own, Joining
  <1>1. CASE Arrive(c)
    <2>1. call' = [call EXCEPT ![c] = [call[c] EXCEPT !.pc = "arrived", !.at = clock + 1,
                                         !.since = stale, !.barred = suspended]]
      BY <1>0, <1>1 DEF Arrive
    <2>2. /\ call'[c].pc = "arrived" /\ call'[c].by = call[c].by
          /\ call'[c].for = call[c].for /\ call'[c].token = call[c].token
          /\ call'[c].got = call[c].got
          /\ \A d \in Calls \ {c} : call'[d] = call[d]
      BY <1>0, <2>1 DEF Call
    <2>3. call[c].pc = "sent" /\ Fit(rows'[store])
      BY <1>1, OwnFit DEF Arrive, Claim
    <2>4. UNCHANGED browser /\ ended' = ended
      BY <1>1 DEF Arrive, history
    <2> QED BY <1>0, <2>2, <2>3, <2>4, HandlerOwn
  <1>2. ASSUME NEW pc \in {"reused", "barred", "answered", "denied"}, Goes(c, pc),
               UNCHANGED browser, ended' = ended, call[c].pc # "free",
               pc \in {"barred", "answered"} => call[c].pc \in {"rotated", "paired"},
               pc \in {"reused", "denied"} => rows'[store].revoked
        PROVE  Own'
    <2>1. /\ call'[c].pc = pc /\ call'[c].by = call[c].by
          /\ call'[c].for = call[c].for /\ call'[c].token = call[c].token
          /\ call'[c].got = call[c].got
          /\ \A d \in Calls \ {c} : call'[d] = call[d]
      BY <1>0, <1>2 DEF Goes, Call
    <2>2. pc \in {"barred", "answered"} => call[c].got # 0 /\ Fit(rows'[call[c].got])
      BY <1>2, OwnFit DEF Own, OneRequest
    <2> QED BY <1>0, <1>2, <2>1, <2>2, HandlerOwn
  <1>3. CASE Claim(c)
    <2>0. /\ call[c].pc = "arrived" /\ call[c].token = store /\ Fit(rows[store])
          /\ store \in Tokens /\ UNCHANGED browser /\ ended' = ended
      BY <1>3, OwnFacts, ClaimStep DEF Claim, Own, OneRequest
    <2>1. CASE Rotates(c) /\ call' = [call EXCEPT ![c].pc = "rotated", ![c].got = minted + 1]
      <3>1. minted + 1 \in 0..MaxTokens
        BY <2>1, SessionsAssumption DEF Rotates, TypeOK, Tokens
      <3>2. /\ call'[c].pc = "rotated" /\ call'[c].got = minted + 1
            /\ call'[c].by = call[c].by /\ call'[c].for = call[c].for
            /\ call'[c].token = call[c].token
            /\ \A d \in Calls \ {c} : call'[d] = call[d]
        BY <2>1, <3>1, GivenType
      <3>3. Fit(rows'[minted + 1]) /\ minted + 1 # 0
            /\ \A t \in Tabs : tab[t].got # minted + 1
        <4>1. /\ rows'[minted + 1].usedAt = 0
              /\ rows'[minted + 1].fam = rows[store].fam
              /\ rows[store].fam # 0
          BY <2>0, <2>1, RotatesRows DEF Rotates, MayRotate
        <4> QED BY <4>1, OwnFacts DEF Fit
      <3> QED BY <1>0, <2>0, <3>2, <3>3, HandlerOwn
    <2>2. CASE ~MayRotate(rows[store]) /\ UNCHANGED tokens
      <3>1. rows[store].revoked /\ rows' = rows
        BY <2>0, <2>2 DEF MayRotate, Fit, tokens
      <3>2. ~WithinGrace(rows[store], call[c])
        BY <3>1 DEF WithinGrace
      <3>3. Goes(c, "reused")
        BY <1>3, <2>0, <2>2, <3>2 DEF Claim
      <3> QED BY <1>2, <2>0, <3>1, <3>3
    <2> QED BY <1>3, <2>0, <2>1, <2>2, ClaimStep
  <1>4. CASE Successor(c)
    BY <1>4 DEF Successor, Own, OneRequest
  <1>5. CASE Suspension(c)
    BY <1>2, <1>5 DEF Suspension, history
  <1>6. CASE RevokeFamily(c)
    <2>0. /\ call[c].pc \in {"reused", "barred"} /\ call[c].token = store
          /\ UNCHANGED browser /\ Goes(c, "denied") /\ rows'[store].revoked
      BY <1>6, FamilyRevoked, OwnFacts DEF RevokeFamily
    <2>1. ended' = ended
      BY <1>6, <2>0 DEF RevokeFamily, Own, OneRequest
    <2> QED BY <1>2, <2>0, <2>1
  <1>7. CASE Forget(c)
    BY <1>7, OwnFacts DEF Forget
  <1> QED BY <1>1, <1>3, <1>4, <1>5, <1>6, <1>7

(* A claimed request moves on.                                               *)
LEMMA ClaimMoves ==
  ASSUME TypeOK, Issued, NEW c \in Calls, Claim(c)
  PROVE  call'[c].pc # call[c].pc
  <1>1. CASE Rotates(c) /\ call' = [call EXCEPT ![c].pc = "rotated", ![c].got = minted + 1]
    <2>1. minted + 1 \in 0..MaxTokens
      BY <1>1, SessionsAssumption DEF Rotates, TypeOK, Tokens
    <2> QED BY <1>1, <2>1, GivenType DEF Claim
  <1>2. CASE Goes(c, "replayed") \/ Goes(c, "reused")
    BY <1>2, FamilyInRange DEF Goes, TypeOK, Claim, Call
  <1> QED BY <1>1, <1>2, ClaimStep

(* Steps that touch neither the handlers nor the browser.                    *)
LEMMA OutsideOwn ==
  ASSUME TypeOK, Issued, Own, [Next]_vars,
         \/ GracePasses \/ RevokeDevice \/ Suspend \/ Sweep \/ Reinstate \/ UNCHANGED vars
  PROVE  Own'
  <1>1. UNCHANGED browser /\ ended' = ended
    BY DEF GracePasses, RevokeDevice, Suspend, Sweep, Reinstate, vars, server, history
  <1>2. \A c \in Calls : /\ call'[c].pc = call[c].pc /\ call'[c].by = call[c].by
                         /\ call'[c].for = call[c].for /\ call'[c].token = call[c].token
                         /\ call'[c].got = call[c].got
    <2>1. CASE Reinstate
      BY <2>1, FamilyInRange DEF Reinstate, Call
    <2>2. CASE GracePasses \/ RevokeDevice \/ Suspend \/ Sweep \/ UNCHANGED vars
      BY <2>2 DEF GracePasses, RevokeDevice, Suspend, Sweep, vars, server
    <2> QED BY <2>1, <2>2
  <1>3. \A c \in Calls : ~Claim(c)
    BY <1>2, ClaimMoves
  <1>4. store' = store /\ lock' = lock /\ tab' = tab /\ copy' = copy
    BY <1>1 DEF browser
  <1>5. OneRequest'
    BY <1>2, <1>3, <1>4, OwnFit DEF Own, OneRequest
  <1>6. HoldsLock'
    BY <1>2, <1>4, OwnFit DEF Own, HoldsLock
  <1>7. Joining'
    BY <1>2, <1>4, OwnFit DEF Own, Joining
  <1> QED BY <1>1, <1>4, <1>5, <1>6, <1>7, OwnFit DEF Own

(* The tabs.                                                                 *)
LEMMA TabsOwn ==
  ASSUME TypeOK, Issued, Own, WebLocks, [Next]_vars, NEW t \in Tabs,
         \/ Begin(t) \/ Answer(t) \/ Save(t) \/ SignOut(t) \/ Logout(t)
         \/ Clear(t) \/ Login(t) \/ Issue(t) \/ Join(t)
  PROVE  Own'
  <1>0. /\ call \in [Calls -> Call] /\ tab \in [Tabs -> Page] /\ t # NoTab
        /\ \A u \in Tabs : tab[u] \in Page
    BY FamilyInRange, SessionsAssumption DEF TypeOK
  <1>1. ASSUME lock = NoTab
        PROVE  /\ \A c \in Calls : call[c].pc = "free"
               /\ \A u \in Tabs : tab[u].pc \notin {"waiting", "saving"}
    BY <1>1, OwnFacts
  <1>2. CASE Begin(t)
    <2>1. /\ lock = NoTab /\ lock' = t /\ store # 0 /\ UNCHANGED <<store, copy, ended>>
          /\ tab' = [tab EXCEPT ![t] = [pc |-> "waiting", read |-> store, got |-> 0]]
      BY <1>2 DEF Begin, CanLock, Taken, SetPage, history
    <2>2. PICK c \in Calls : call' = [call EXCEPT ![c] =
                               [Free EXCEPT !.pc = "sent", !.for = t, !.token = store]]
      BY <1>2 DEF Begin
    <2>3. /\ call'[c].pc = "sent" /\ call'[c].by = "browser" /\ call'[c].for = t
          /\ call'[c].token = store /\ call'[c].got = 0
          /\ \A d \in Calls \ {c} : call'[d].pc = "free"
      BY <1>0, <1>1, <2>1, <2>2 DEF Free
    <2>4. /\ tab'[t].pc = "waiting" /\ tab'[t].read = store
          /\ \A u \in Tabs \ {t} : tab'[u] = tab[u]
      BY <1>0, <2>1
    <2>5. OneRequest'
      BY <2>1, <2>3, <2>4, OwnFit DEF OneRequest
    <2>6. HoldsLock'
      BY <1>1, <2>1, <2>4 DEF HoldsLock
    <2>7. Joining'
      BY <2>1, <2>3, <2>4, OwnFit DEF Own, Joining
    <2> QED BY <1>0, <2>1, <2>5, <2>6, <2>7 DEF Own
  <1>3. CASE Answer(t)
    <2>1. PICK c \in Calls :
            /\ call[c].for = t /\ call[c].pc \in {"answered", "denied"}
            /\ call' = [call EXCEPT ![c] = Free]
            /\ IF call[c].pc = "answered"
                 THEN /\ SetPage(t, [tab[t] EXCEPT !.pc = "saving", !.got = call[c].got])
                      /\ UNCHANGED lock
                 ELSE /\ SetPage(t, [Idle EXCEPT !.pc = "leaving"])
                      /\ lock' = NoTab
            /\ UNCHANGED <<store, copy, ended>>
      BY <1>3 DEF Answer, history
    <2>2. /\ lock = t /\ tab[t].pc = "waiting" /\ call[c].token = store
          /\ tab[t].read = store /\ store # 0
          /\ \A d \in Calls \ {c} : call[d].pc = "free"
          /\ \A u \in Tabs \ {t} : tab[u].pc \notin {"waiting", "saving"}
      BY <2>1, OwnFacts DEF Own, OneRequest, HoldsLock
    <2>3. \A d \in Calls : call'[d].pc = "free"
      BY <1>0, <2>1, <2>2 DEF Free
    <2>4. OneRequest'
      BY <2>3 DEF OneRequest
    <2>5. CASE call[c].pc = "answered"
      <3>1. /\ tab'[t].pc = "saving" /\ tab'[t].got = call[c].got /\ tab'[t].read = store
            /\ \A u \in Tabs \ {t} : tab'[u] = tab[u]
        <4>1. tab' = [tab EXCEPT ![t] = [tab[t] EXCEPT !.pc = "saving", !.got = call[c].got]]
          BY <2>1, <2>5 DEF SetPage
        <4>2. tab'[t] = [tab[t] EXCEPT !.pc = "saving", !.got = call[c].got]
              /\ \A u \in Tabs \ {t} : tab'[u] = tab[u]
          BY <1>0, <4>1
        <4> QED BY <1>0, <2>2, <4>2 DEF Page
      <3>2. lock' = t /\ call[c].got # 0 /\ Fit(rows'[call[c].got])
        BY <2>1, <2>2, <2>5, OwnFit DEF Own, OneRequest
      <3>3. HoldsLock'
        BY <2>1, <2>2, <2>3, <3>1, <3>2 DEF HoldsLock
      <3>4. Joining'
        BY <2>1, <2>2, <2>3, <2>5, <3>1, OwnFit DEF Own, Joining
      <3> QED BY <1>0, <2>1, <2>4, <3>2, <3>3, <3>4 DEF Own
    <2>6. CASE call[c].pc = "denied"
      <3>1. tab'[t].pc = "leaving" /\ \A u \in Tabs \ {t} : tab'[u] = tab[u]
        BY <1>0, <2>1, <2>6 DEF SetPage, Idle
      <3>2. HoldsLock'
        BY <2>2, <3>1 DEF HoldsLock
      <3>3. Joining'
        BY <2>1, <2>3, <3>1, OwnFit DEF Own, Joining
      <3>4. Fit(rows'[store])
        BY <2>6, OwnFit DEF Fit
      <3> QED BY <2>1, <2>4, <3>2, <3>3, <3>4 DEF Own
    <2> QED BY <2>1, <2>5, <2>6
  <1>4. CASE Save(t)
    <2>1. /\ tab[t].pc = "saving" /\ lock = t /\ tab[t].read = store
          /\ tab[t].got # 0 /\ Fit(rows'[tab[t].got])
          /\ \A c \in Calls : call[c].pc = "free"
          /\ \A u \in Tabs \ {t} : tab[u].pc \notin {"waiting", "saving"}
      BY <1>4, OwnFit DEF Save, Own, HoldsLock
    <2>2. /\ store' = tab[t].got /\ tab' = [tab EXCEPT ![t] = Idle] /\ lock' = NoTab
          /\ call' = call /\ copy' = copy /\ ended' = ended
      BY <1>4, <2>1 DEF Save, SetPage, server, history
    <2>3. tab'[t].pc = "idle" /\ \A u \in Tabs \ {t} : tab'[u] = tab[u]
      BY <1>0, <2>2 DEF Idle
    <2>4. OneRequest' /\ HoldsLock'
      BY <2>1, <2>2, <2>3 DEF OneRequest, HoldsLock
    <2>5. Joining'
      BY <2>1, <2>2, <2>3, OwnFit DEF Own, Joining
    <2> QED BY <2>1, <2>2, <2>4, <2>5 DEF Own
  <1>5. ASSUME lock = NoTab, lock' = NoTab, call' = call, copy' = copy, ended' = ended,
               NEW pc \in {"idle", "clearing"},
               tab'[t].pc = pc, \A u \in Tabs \ {t} : tab'[u] = tab[u],
               store' \in {store, 0} \/ (tab[t].pc = "joining" /\ store' = tab[t].got)
        PROVE  Own'
    <2>1. OneRequest' /\ HoldsLock'
      BY <1>1, <1>5 DEF OneRequest, HoldsLock
    <2>2. Joining'
      <3> SUFFICES ASSUME NEW u \in Tabs, tab'[u].pc = "joining"
                   PROVE  /\ tab'[u].got # 0 /\ Fit(rows'[tab'[u].got])
                          /\ tab'[u].got # store'
                          /\ \A v \in Tabs \ {u} : tab'[v].pc \in {"saving", "joining"} =>
                               tab'[v].got # tab'[u].got
        BY <1>1, <1>5 DEF Joining
      <3>1. u # t /\ tab'[u] = tab[u]
        BY <1>5
      <3>2. tab[u].got # 0 /\ tab[u].got # store /\ Fit(rows'[tab[u].got])
        BY <3>1, OwnFit DEF Own, Joining
      <3>3. \A v \in Tabs \ {u} : tab[v].pc \in {"saving", "joining"} =>
              tab[v].got # tab[u].got
        BY <3>1 DEF Own, Joining
      <3> QED BY <1>5, <3>1, <3>2, <3>3
    <2>3. store' # 0 => Fit(rows'[store'])
      BY <1>5, OwnFit
    <2> QED BY <1>5, <2>1, <2>2, <2>3 DEF Own
  <1>6. CASE Logout(t)
    BY <1>0, <1>5, <1>6, PageTypes DEF Logout, CanLock, SetPage, history, Page
  <1>7. CASE Clear(t)
    BY <1>0, <1>5, <1>7 DEF Clear, CanLock, SetPage, Idle, server, history
  <1>8. CASE Join(t)
    BY <1>0, <1>5, <1>8 DEF Join, CanLock, SetPage, Idle, server, history
  <1>9. ASSUME UNCHANGED <<store, lock, copy, call, ended>>,
               tab[t].pc \in {"idle", "login"},
               tab'[t].pc \notin {"waiting", "saving"},
               \A u \in Tabs \ {t} : tab'[u] = tab[u],
               tab'[t].pc = "joining" =>
                 /\ tab'[t].got = minted + 1 /\ Fit(rows'[minted + 1])
        PROVE  Own'
    <2>0. \A c \in Calls : ~Claim(c)
      BY <1>9, ClaimMoves
    <2>1. \A c \in Calls : call[c].pc # "free" => lock \in Tabs \ {t}
      BY <1>9, OwnFacts
    <2>2. OneRequest'
      BY <1>9, <2>0, <2>1, OwnFit DEF Own, OneRequest
    <2>3. HoldsLock'
      BY <1>9, OwnFit DEF Own, HoldsLock
    <2>4. Joining'
      <3> SUFFICES ASSUME NEW u \in Tabs, tab'[u].pc = "joining"
                   PROVE  /\ tab'[u].got # 0 /\ Fit(rows'[tab'[u].got])
                          /\ tab'[u].got # store
                          /\ \A c \in Calls : call[c].pc # "free" =>
                               call[c].got # tab'[u].got
                          /\ \A v \in Tabs \ {u} : tab'[v].pc \in {"saving", "joining"} =>
                               tab'[v].got # tab'[u].got
        BY <1>9 DEF Joining
      <3>1. CASE u = t
        BY <1>9, <3>1, OwnFacts
      <3>2. CASE u # t
        <4>1. /\ tab'[u] = tab[u] /\ tab[u].got # 0 /\ Fit(rows'[tab[u].got])
              /\ tab[u].got # store
              /\ \A c \in Calls : call[c].pc # "free" => call[c].got # tab[u].got
              /\ \A v \in Tabs \ {u} : tab[v].pc \in {"saving", "joining"} =>
                   tab[v].got # tab[u].got
          BY <1>9, <3>2, OwnFit DEF Own, Joining
        <4> QED BY <1>9, <4>1, OwnFacts
      <3> QED BY <3>1, <3>2
    <2> QED BY <1>9, <2>2, <2>3, <2>4, OwnFit DEF Own
  <1>10. CASE SignOut(t) \/ Login(t)
    BY <1>0, <1>9, <1>10 DEF SignOut, Login, SetPage, Idle, server, history
  <1>11. CASE Issue(t)
    <2>1. tab' = [tab EXCEPT ![t] = [Idle EXCEPT !.pc = "joining", !.got = minted + 1]]
      BY <1>11 DEF Issue, SetPage
    <2>2. /\ tab'[t].pc = "joining" /\ tab'[t].got = minted + 1
          /\ \A u \in Tabs \ {t} : tab'[u] = tab[u]
      BY <1>0, <2>1 DEF Idle
    <2>3. Fit(rows'[minted + 1])
      <3>1. SignsIn
        BY <1>11 DEF Issue, SignsIn
      <3>2. minted + 1 # 0
        BY OwnFacts
      <3> QED BY <3>1, <3>2, SignsInRows DEF Fit
    <2> QED BY <1>9, <1>11, <2>2, <2>3 DEF Issue, history
  <1> QED BY <1>2, <1>3, <1>4, <1>6, <1>7, <1>8, <1>10, <1>11

(* The browser is alone only as long as nothing was abandoned or copied.     *)
LEMMA AloneStep ==
  ASSUME TypeOK, Issued, Alone, [Next]_vars
  PROVE  Alone'
  <1> SUFFICES ASSUME WebLocks, faults' = 0 PROVE Own'
    BY DEF Alone
  <1>0. faults + 1 # 0
    BY SessionsAssumption DEF TypeOK
  <1>1. ASSUME NEW c \in Calls,
               \/ Arrive(c) \/ Claim(c) \/ Successor(c) \/ Suspension(c)
               \/ RevokeFamily(c) \/ Forget(c)
        PROVE  Own'
    <2>1. faults = 0
      BY <1>1 DEF Arrive, Claim, Successor, Suspension, RevokeFamily, Forget, browser
    <2> QED BY <1>1, <2>1, HandlersOwn DEF Alone
  <1>2. ASSUME \/ GracePasses \/ RevokeDevice \/ Suspend \/ Sweep \/ Reinstate
               \/ UNCHANGED vars
        PROVE  Own'
    <2>1. faults = 0
      BY <1>2 DEF GracePasses, RevokeDevice, Suspend, Sweep, Reinstate, vars, browser
    <2> QED BY <1>2, <2>1, OutsideOwn DEF Alone
  <1>3. ASSUME NEW t \in Tabs,
               \/ Begin(t) \/ Answer(t) \/ Save(t) \/ SignOut(t) \/ Logout(t)
               \/ Clear(t) \/ Login(t) \/ Issue(t) \/ Join(t)
        PROVE  Own'
    <2>1. faults = 0
      BY <1>3 DEF Begin, Answer, Save, SignOut, Logout, Clear, Login, Issue, Join
    <2> QED BY <1>3, <2>1, TabsOwn DEF Alone
  <1>4. ASSUME CopyMade \/ \E t \in Tabs : Abandon(t) PROVE FALSE
    BY <1>0, <1>4 DEF CopyMade, Abandon
  <1>5. ASSUME CopySends \/ CopyAnswer PROVE FALSE
    <2>1. faults = 0
      BY <1>5 DEF CopySends, CopyAnswer, browser
    <2>2. Own
      BY <2>1 DEF Alone
    <2> QED BY <1>5, <2>2 DEF CopySends, CopyAnswer, Own, OneRequest
  <1> QED BY <1>1, <1>2, <1>3, <1>4, <1>5 DEF Next

(* What one browser relies on.  Neither part is inductive: Own says where    *)
(* the current token is while a tab holds the lock, and that a request       *)
(* never carries any other.                                                  *)
THEOREM BrowserHolds == Spec => [](OwnTabsKept /\ StoredIsLive)
  <1>1. Init => Alone
    <2> SUFFICES ASSUME Init PROVE Own
      BY DEF Alone
    <2>1. /\ \A c \in Calls : call[c].pc = "free"
          /\ \A t \in Tabs : tab[t].pc = "idle"
      BY DEF Init, Free, Idle
    <2>2. rows[1] = NewRow(1) /\ store = 1
      BY RestTypes DEF Init
    <2>3. Fit(rows[store])
      BY <2>2 DEF NewRow, Unissued, Fit
    <2> QED BY <2>1, <2>3 DEF Init, Own, OneRequest, HoldsLock, Joining
  <1>2. TypeOK /\ Issued /\ Alone /\ [Next]_vars => Alone'
    BY AloneStep
  <1>3. TypeOK /\ Alone => OwnTabsKept /\ StoredIsLive
    <2>1. \A k \in Tokens : Fit(rows[k]) => Live(k) \/ rows[k].revoked
      BY FamilyInRange DEF Fit, Live, Unused, Row
    <2>2. TypeOK /\ store # 0 => store \in Tokens
      BY SessionsAssumption DEF TypeOK, Tokens
    <2> QED BY <2>1, <2>2 DEF Alone, Own, OwnTabsKept, StoredIsLive
  <1> QED BY <1>1, <1>2, <1>3, InductiveTypes, PTL DEF Spec

(* Reuse detection never ends a session of one browser whose exchanges all   *)
(* completed (withTokenRefreshLock).                                         *)
THEOREM OwnTabsHold == Spec => []OwnTabsKept
  BY BrowserHolds, PTL

(* Between exchanges the stored token is the one that still rotates, unless  *)
(* its family was revoked (saveRefreshCredential).                           *)
THEOREM StoredHolds == Spec => []StoredIsLive
  BY BrowserHolds, PTL
=============================================================================
