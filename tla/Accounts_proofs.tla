--------------------------- MODULE Accounts_proofs ---------------------------
(***************************************************************************)
(* Proofs about Accounts, composed with Shop as the model checker runs it, *)
(* for any threads, values, calls and deployments: the account is verified *)
(* exactly when the event was emitted, a refresh token that stopped being  *)
(* a session's does not come back, and a stale copy does no other harm     *)
(* than StaleStep names.                                                   *)
(*                                                                         *)
(* The argument: no handler rereads what it checked, but each saves only   *)
(* the columns it is about (Saved), so that it is enough to know a little  *)
(* of its copy (ThreadKnows): what was verified stays so, and the token it *)
(* found is of the right use.                                              *)
(*                                                                         *)
(* Then about Shop: nobody sells without an approval, and two stores, two  *)
(* active applications or two default addresses take two calls that        *)
(* overlapped.  The argument: as long as none did, the one call going on   *)
(* still knows what it checked (DeskCallKnows, BookCallKnows), because     *)
(* nobody else wrote it; the account's steps leave the seller's flag       *)
(* (SellerStays).                                                          *)
(***************************************************************************)
EXTENDS Shop, Sums

-----------------------------------------------------------------------------
(* Rows *)

LEMMA UserColumns ==
    ASSUME NEW row \in User
    PROVE  /\ DOMAIN row = {"registered", "wallets", "is_active", "password", "legacy",
                            "email_verified", "two_factor_enabled", "totp_secret",
                            "is_seller", "is_creator", "display_name", "bio"}
           /\ row.registered \in BOOLEAN /\ row.legacy \in BOOLEAN
           /\ row.email_verified \in BOOLEAN /\ row.two_factor_enabled \in BOOLEAN
           /\ row.is_seller \in BOOLEAN
           /\ row.password \in Chosen /\ row.totp_secret \in Chosen
           /\ row.display_name \in {0, 1} /\ row.bio \in {0, 1}
           /\ \A c \in ProfileColumns : row[c] \in {0, 1}
BY DEF User, ProfileColumns

\* save(update_fields=...): what is in the row afterwards.
LEMMA Saved ==
    ASSUME user \in User, NEW row \in User, NEW columns, Save(row, columns)
    PROVE  /\ user' \in User
           /\ user'.registered = IF "registered" \in columns THEN row.registered ELSE user.registered
           /\ user'.password = IF "password" \in columns THEN row.password ELSE user.password
           /\ user'.email_verified =
                IF "email_verified" \in columns THEN row.email_verified ELSE user.email_verified
           /\ user'.two_factor_enabled =
                IF "two_factor_enabled" \in columns THEN row.two_factor_enabled
                                                    ELSE user.two_factor_enabled
           /\ user'.totp_secret =
                IF "totp_secret" \in columns THEN row.totp_secret ELSE user.totp_secret
           /\ user'.is_seller = IF "is_seller" \in columns THEN row.is_seller ELSE user.is_seller
           /\ \A c \in ProfileColumns : user'[c] = IF c \in columns THEN row[c] ELSE user[c]
<1>1. user' = [c \in DOMAIN user |-> IF c \in columns THEN row[c] ELSE user[c]]
  BY DEF Save
<1>2. user' \in User
  BY <1>1, UserColumns DEF User
<1> QED BY <1>1, <1>2, UserColumns DEF ProfileColumns

LEMMA NoUserTyped ==
    /\ NoUser \in User /\ ~NoUser.registered /\ ~NoUser.email_verified /\ ~NoUser.is_seller
    /\ NoKyc \in Kyc
    /\ Imported \in User /\ Imported.registered /\ ~Imported.email_verified
    /\ Submitted \in Kyc
<1>1. 0 \in Chosen /\ 1 \in Chosen
  BY AccountsAssumption DEF Chosen
<1>2. NoUser \in User /\ ~NoUser.registered /\ ~NoUser.email_verified /\ ~NoUser.is_seller
  BY <1>1 DEF NoUser, User
<1>3. NoKyc \in Kyc /\ Submitted \in Kyc
  BY <1>1 DEF NoKyc, Submitted, Kyc, KycStatuses
<1>4. ASSUME NEW row \in User
      PROVE  LET new == [row EXCEPT !.registered = TRUE, !.wallets = TRUE, !.password = 1,
                                    !.legacy = TRUE, !.is_creator = TRUE]
             IN  /\ new \in User /\ new.registered
                 /\ new.email_verified = row.email_verified
  BY <1>1 DEF User
<1>5. Imported \in User /\ Imported.registered /\ ~Imported.email_verified
  BY <1>2, <1>4 DEF Imported
<1> QED BY <1>2, <1>3, <1>5

LEMMA ViewsShow ==
    ASSUME user \in User
    PROVE  Profile.email_verified = user.email_verified
BY UserColumns DEF Profile

\* No profile column is taken back by a write that leaves them alone.
LEMMA ProfileStays ==
    ASSUME user \in User, \A c \in ProfileColumns : user'[c] = user[c]
    PROVE  \A c \in ProfileColumns : user'[c] >= user[c]
<1>1. ASSUME NEW c \in ProfileColumns
      PROVE  user'[c] >= user[c]
  <2>1. user[c] \in {0, 1}
    BY UserColumns
  <2>2. user'[c] = user[c]
    OBVIOUS
  <2> QED BY <2>1, <2>2
<1> QED BY <1>1

-----------------------------------------------------------------------------
(* The invariant, and what a step may do to it *)

LEMMA Known ==
    ASSUME AccountInv
    PROVE  /\ atomic \in BOOLEAN /\ user \in User
           /\ sessions \subseteq issued /\ issued \subseteq Jtis
           /\ tokens \in Seq(Token) /\ verified \in Nat /\ kyc \in Kyc /\ calls \in Nat
           /\ settings \subseteq Preferences \cup {"bio_extended"}
           /\ pc \in [Procs -> Steps] /\ arg \in [Procs -> Nat]
           /\ copy \in [Procs -> User] /\ kcopy \in [Procs -> Kyc]
           /\ TypeOK /\ VerifiedOnce
           /\ ~user.registered => user = NoUser
           /\ \A p \in Procs : ThreadKnows(p)
BY DEF AccountInv, AccountSound, TypeOK

\* The tokens keep their use.
TokensKept ==
    /\ tokens' \in Seq(Token)
    /\ \A t \in DOMAIN tokens : t \in DOMAIN tokens' /\ tokens'[t].use = tokens[t].use

\* What the other threads need: nothing that was checked for good is undone.
Onward ==
    /\ user' \in User /\ (user'.registered \/ user' = user)
    /\ user.email_verified => user'.email_verified
    /\ TokensKept

OthersWait(p) ==
    \A q \in Procs : q # p => /\ pc'[q] = pc[q] /\ arg'[q] = arg[q]
                              /\ copy'[q] = copy[q]

\* A refresh token is handed out under a number that was not used before.
Issues ==
    /\ issued' = issued \/ issued' = issued \cup {NewJti}
    /\ sessions' \subseteq sessions \cup (issued' \ issued)

RetiredStep == \A jti \in issued \ sessions : jti \notin sessions'

LEMMA ThreadKept ==
    ASSUME AccountInv, Onward, NEW q \in Procs,
           pc'[q] = pc[q], arg'[q] = arg[q], copy'[q] = copy[q]
    PROVE  ThreadKnows(q)'
<1>1. ThreadKnows(q)
  BY Known
<1>2. user.registered => user'.registered
  BY DEF Onward
<1> QED BY <1>1, <1>2 DEF ThreadKnows, Onward, TokensKept, CodeFits

LEMMA Numbered ==
    ASSUME AccountInv, Issues
    PROVE  /\ IsFiniteSet(issued') /\ issued' = 1..Cardinality(issued')
           /\ issued' \subseteq Jtis /\ sessions' \subseteq issued'
           /\ RetiredStep
<1>1. IsFiniteSet(issued) /\ issued = 1..Cardinality(issued) /\ Cardinality(issued) \in Nat
  BY FS_CardinalityType DEF AccountInv
<1>2. sessions \subseteq issued
  BY Known
<1>3. CASE issued' = issued
  BY <1>1, <1>2, <1>3, Known DEF Issues, RetiredStep
<1>4. CASE issued' = issued \cup {NewJti}
  <2>1. NewJti = Cardinality(issued) + 1 /\ NewJti \notin issued
    BY <1>1 DEF NewJti
  <2>2. IsFiniteSet(issued') /\ Cardinality(issued') = Cardinality(issued) + 1
    BY <1>1, <1>4, <2>1, FS_AddElement
  <2>3. issued' = 1..Cardinality(issued')
    BY <1>1, <1>4, <2>1, <2>2
  <2>4. issued' \subseteq Jtis
    BY <1>1, <2>2, <2>3 DEF Jtis
  <2> QED BY <1>2, <2>2, <2>3, <2>4 DEF Issues, RetiredStep
<1> QED BY <1>3, <1>4 DEF Issues

LEMMA InvKept ==
    ASSUME AccountInv, Onward, Issues,
           atomic' \in BOOLEAN, verified' \in Nat, kyc' \in Kyc, calls' \in Nat,
           settings' \subseteq Preferences \cup {"bio_extended"},
           pc' \in [Procs -> Steps], arg' \in [Procs -> Nat],
           copy' \in [Procs -> User], kcopy' \in [Procs -> Kyc],
           VerifiedOnce', \A q \in Procs : ThreadKnows(q)'
    PROVE  AccountInv' /\ RetiredStep
<1>1. TypeOK'
  BY Numbered DEF TypeOK, Onward, TokensKept
<1>2. ~user'.registered => user' = NoUser
  BY Known DEF Onward
<1> QED BY <1>1, <1>2, Numbered DEF AccountInv, AccountSound

LEMMA OneThreadMoves ==
    ASSUME AccountInv, Onward, NEW p \in Procs, OthersWait(p), ThreadKnows(p)'
    PROVE  \A q \in Procs : ThreadKnows(q)'
<1>1. ASSUME NEW q \in Procs
      PROVE  ThreadKnows(q)'
  BY ThreadKept DEF OthersWait
<1> QED BY <1>1

-----------------------------------------------------------------------------
(* Kinds of steps *)

StepSound == AccountInv' /\ RetiredStep /\ StaleStep

\* Nothing a stale copy could spoil is written.
LEMMA HarmlessWrite ==
    ASSUME AccountInv,
           user.registered => /\ user'.password = user.password
                              /\ \A c \in ProfileColumns : user'[c] = user[c],
           user'.two_factor_enabled = user.two_factor_enabled,
           user'.totp_secret = user.totp_secret,
           user.is_seller => user'.is_seller,
           kyc' = kyc \/ kyc'.data = kyc.data \/ kyc'.status # "approved" \/ kyc.status # "approved"
    PROVE  StaleStep
<1>1. \A c \in ProfileColumns : user.registered => user'[c] >= user[c]
  BY Known, ProfileStays
<1>2. RestoredOnlyByRehash /\ LockedOutOnlyByStaleEnable
  BY DEF RestoredOnlyByRehash, LockedOutOnlyByStaleEnable, CodeFits
<1>3. ApprovalCoversData
  BY DEF ApprovalCoversData, Me, GetKyc
<1> QED BY <1>1, <1>2, <1>3 DEF StaleStep

\* A handler reads: the account and everything else stay, and it knows what it read.
LEMMA ReadStep ==
    ASSUME AccountInv, NEW p \in Procs, Begin(p), user.registered,
           NEW step \in Steps, NEW a \in Nat,
           pc' = [pc EXCEPT ![p] = step], arg' = [arg EXCEPT ![p] = a],
           \/ copy' = [copy EXCEPT ![p] = user] /\ kcopy' = kcopy
           \/ kcopy' = [kcopy EXCEPT ![p] = kyc] /\ copy' = copy /\ step # "enable",
           step \in {"change", "change_revoke", "setup", "kyc_update"} => a \in Values,
           step \in Uses => a \in DOMAIN tokens /\ tokens[a].use = step,
           step = "enable" => CodeFits(user),
           UNCHANGED <<atomic, user, sessions, tokens, issued, verified, kyc, settings>>
    PROVE  StepSound
<1> USE Known
<1>1. Onward /\ Issues
  BY DEF Onward, TokensKept, Issues
<1>2. /\ pc' \in [Procs -> Steps] /\ arg' \in [Procs -> Nat]
      /\ copy' \in [Procs -> User] /\ kcopy' \in [Procs -> Kyc]
      /\ pc'[p] = step /\ arg'[p] = a /\ OthersWait(p)
  BY DEF OthersWait
<1>3. copy'[p] = user \/ (copy'[p] = copy[p] /\ step # "enable")
  OBVIOUS
<1>4. ThreadKnows(p)'
  BY <1>2, <1>3 DEF ThreadKnows, CodeFits
<1>5. calls' \in Nat /\ VerifiedOnce'
  BY DEF Begin, VerifiedOnce, Profile
<1>6. StaleStep
  BY HarmlessWrite
<1>7. \A q \in Procs : ThreadKnows(q)'
  BY <1>1, <1>2, <1>4, OneThreadMoves
<1>8. AccountInv' /\ RetiredStep
  BY <1>1, <1>2, <1>5, <1>7, InvKept
<1> QED BY <1>6, <1>8 DEF StepSound

\* The thread answers.
LEMMA Returned ==
    ASSUME AccountInv, NEW p \in Procs, Return(p)
    PROVE  /\ pc' \in [Procs -> Steps] /\ arg' \in [Procs -> Nat]
           /\ copy' \in [Procs -> User] /\ kcopy' \in [Procs -> Kyc]
           /\ OthersWait(p) /\ pc'[p] = "idle"
           /\ ThreadKnows(p)'
<1> USE Known, NoUserTyped
<1>1. /\ pc' \in [Procs -> Steps] /\ arg' \in [Procs -> Nat]
      /\ copy' \in [Procs -> User] /\ kcopy' \in [Procs -> Kyc]
      /\ OthersWait(p) /\ pc'[p] = "idle" /\ copy'[p] = NoUser
  BY DEF Return, OthersWait, Steps
<1>2. ThreadKnows(p)'
  BY <1>1 DEF ThreadKnows, Uses
<1> QED BY <1>1, <1>2

\* A handler that returns after a write to the account, its tokens or its KYC profile.
LEMMA LastWrite ==
    ASSUME AccountInv, NEW p \in Procs, Return(p), Onward, VerifiedOnce', Issues,
           verified' \in Nat, kyc' \in Kyc, UNCHANGED <<atomic, settings, calls>>
    PROVE  AccountInv' /\ RetiredStep
<1>1. \A q \in Procs : ThreadKnows(q)'
  BY Returned, OneThreadMoves
<1> QED BY <1>1, Known, Returned, InvKept

\* A call that is one step: of the user, an operator or the clock.
LEMMA OneStep ==
    ASSUME AccountInv, InOneStep, Onward, VerifiedOnce', Issues,
           verified' \in Nat, kyc' \in Kyc, calls' \in Nat,
           settings' \subseteq Preferences \cup {"bio_extended"}, UNCHANGED atomic
    PROVE  AccountInv' /\ RetiredStep
<1> USE Known
<1>1. ASSUME NEW q \in Procs
      PROVE  ThreadKnows(q)'
  BY ThreadKept DEF InOneStep
<1> QED BY <1>1, InvKept DEF InOneStep

\* Which tokens were used, and whether the account is verified, is as before.
LEMMA VerifiedKept ==
    ASSUME AccountInv, user' \in User, user'.email_verified = user.email_verified,
           UNCHANGED verified,
           \A t \in DOMAIN tokens' : tokens'[t].use = "verify" /\ tokens'[t].used_at =>
                t \in DOMAIN tokens /\ tokens[t].use = "verify" /\ tokens[t].used_at
    PROVE  VerifiedOnce'
<1>1. Profile.email_verified = user.email_verified
  BY Known, ViewsShow
<1>2. Profile'.email_verified = user'.email_verified
  BY UserColumns DEF Profile
<1> QED BY <1>1, <1>2, Known DEF VerifiedOnce

LEMMA TokenAdded ==
    ASSUME AccountInv, NEW use \in Uses, NewToken(use)
    PROVE  /\ TokensKept
           /\ \A t \in DOMAIN tokens' : tokens'[t].used_at =>
                t \in DOMAIN tokens /\ tokens'[t] = tokens[t]
<1> DEFINE new == [use |-> use, used_at |-> FALSE, expired |-> FALSE]
<1>1. tokens \in Seq(Token) /\ new \in Token /\ tokens' = Append(tokens, new) /\ ~new.used_at
  BY Known DEF NewToken, Token
<1> HIDE DEF new
<1>2. /\ tokens' \in Seq(Token) /\ Len(tokens') = Len(tokens) + 1
      /\ \A t \in DOMAIN tokens : t \in DOMAIN tokens' /\ tokens'[t] = tokens[t]
      /\ tokens'[Len(tokens) + 1] = new
  BY <1>1
<1>3. ASSUME NEW t \in DOMAIN tokens', t \notin DOMAIN tokens
      PROVE  t = Len(tokens) + 1
  BY <1>1, <1>2, <1>3
<1> QED BY <1>1, <1>2, <1>3 DEF TokensKept

LEMMA TokenWritten ==
    ASSUME AccountInv, NEW t \in DOMAIN tokens, NEW new \in Token,
           tokens' = [tokens EXCEPT ![t] = new], new.use = tokens[t].use
    PROVE  /\ TokensKept /\ DOMAIN tokens' = DOMAIN tokens /\ tokens'[t] = new
           /\ \A u \in DOMAIN tokens : u # t => tokens'[u] = tokens[u]
<1>1. DOMAIN tokens = 1..Len(tokens) /\ Len(tokens) \in Nat /\ \A u \in DOMAIN tokens : tokens[u] \in Token
  BY Known
<1>2. tokens' \in [1..Len(tokens) -> Token]
  BY <1>1
<1>3. tokens' \in Seq(Token)
  BY <1>1, <1>2
<1> QED BY <1>1, <1>2, <1>3 DEF TokensKept

-----------------------------------------------------------------------------
(* Calls that read and go on *)

LEMMA ReadCalls ==
    ASSUME AccountInv, NEW p \in Procs,
           \/ ReadLogin(p) \/ ReadChange(p) \/ ReadReset(p) \/ ReadVerify(p)
           \/ ReadSetup(p) \/ ReadEnable(p) \/ ReadDisable(p) \/ ReadProfile(p)
    PROVE  StepSound
<1>1. Begin(p) /\ UNCHANGED <<atomic, user, sessions, tokens, issued, verified, kyc, settings>>
  BY DEF ReadLogin, ReadChange, ReadReset, ReadVerify, ReadSetup, ReadEnable, ReadDisable,
         ReadProfile
<1>2. PICK step \in Steps, a \in Nat :
        /\ Reads(p, step, a)
        /\ step \in {"change", "change_revoke", "setup", "kyc_update"} => a \in Values
        /\ step \in Uses => a \in DOMAIN tokens /\ tokens[a].use = step
        /\ step = "enable" => CodeFits(user)
  <2>1. CASE ReadLogin(p)
    <3>1. PICK step \in {"rehash", "open"} : Reads(p, step, 0)
      BY <2>1 DEF ReadLogin
    <3> QED BY <3>1 DEF Steps, Uses
  <2>2. CASE ReadChange(p)
    <3>1. PICK w \in Values, step \in {"change", "change_revoke"} : Reads(p, step, w)
      BY <2>2 DEF ReadChange
    <3>2. w \in Nat
      BY AccountsAssumption
    <3> QED BY <3>1, <3>2 DEF Steps, Uses
  <2>3. CASE ReadReset(p) \/ ReadVerify(p)
    <3>1. PICK t \in DOMAIN tokens, use \in Uses : tokens[t].use = use /\ Reads(p, use, t)
      BY <2>3 DEF ReadReset, ReadVerify, Good, Uses
    <3>2. t \in Nat
      BY Known
    <3> QED BY <3>1, <3>2 DEF Steps, Uses
  <2>4. CASE ReadSetup(p)
    <3>1. PICK w \in Values : Reads(p, "setup", w)
      BY <2>4 DEF ReadSetup
    <3>2. w \in Nat
      BY AccountsAssumption
    <3> QED BY <3>1, <3>2 DEF Steps, Uses
  <2>5. CASE ReadEnable(p) \/ ReadDisable(p) \/ ReadProfile(p)
    <3>1. PICK step \in {"enable", "disable", "display_name", "bio"} :
            Reads(p, step, 0) /\ (step = "enable" => CodeFits(user))
      BY <2>5 DEF ReadEnable, ReadDisable, ReadProfile, ProfileColumns
    <3> QED BY <3>1 DEF Steps, Uses
  <2> QED BY <2>1, <2>2, <2>3, <2>4, <2>5
<1> QED BY <1>1, <1>2, ReadStep DEF Reads

LEMMA ReadKycCalls ==
    ASSUME AccountInv, NEW p \in Procs, ReadKycUpdate(p) \/ ReadKycSubmit(p)
    PROVE  StepSound
<1>1. Begin(p) /\ UNCHANGED <<atomic, user, sessions, tokens, issued, verified, kyc, settings>>
  BY DEF ReadKycUpdate, ReadKycSubmit
<1>2. PICK step \in {"kyc_update", "kyc_submit"}, a \in Nat :
        ReadsKyc(p, step, a) /\ (step = "kyc_update" => a \in Values)
  BY AccountsAssumption DEF ReadKycUpdate, ReadKycSubmit
<1>3. step \in Steps /\ step \notin Uses
  BY DEF Steps, Uses
<1> QED BY <1>1, <1>2, <1>3, ReadStep DEF ReadsKyc

-----------------------------------------------------------------------------
(* Calls of one step *)

LEMMA SessionCalls ==
    ASSUME AccountInv, InOneStep, Issues, calls' \in Nat,
           settings' \subseteq Preferences \cup {"bio_extended"},
           UNCHANGED <<atomic, user, tokens, verified, kyc>>
    PROVE  StepSound
<1> USE Known
<1>1. Onward
  BY DEF Onward, TokensKept
<1>2. VerifiedOnce' /\ StaleStep
  BY VerifiedKept, HarmlessWrite
<1> QED BY <1>1, <1>2, OneStep DEF StepSound

LEMMA OneStepCalls ==
    ASSUME AccountInv, NEW p \in Procs,
           \/ Refresh(p) \/ RefreshFails(p) \/ Logout(p) \/ RevokeSession(p)
           \/ UpdatePreferences(p) \/ UpdateCreatorProfile(p)
    PROVE  StepSound
<1> USE Known
<1>1. calls' \in Nat /\ InOneStep /\ UNCHANGED <<atomic, user, tokens, verified, kyc>>
  BY DEF Refresh, RefreshFails, Logout, RevokeSession, UpdatePreferences,
         UpdateCreatorProfile, Begin
<1>2. settings' \subseteq Preferences \cup {"bio_extended"}
  BY DEF Refresh, RefreshFails, Logout, RevokeSession, UpdatePreferences, UpdateCreatorProfile
<1>3. Issues
  <2>1. CASE Refresh(p)
    <3>1. NewJti \notin issued
      BY FS_CardinalityType DEF AccountInv, NewJti
    <3> QED BY <2>1, <3>1 DEF Refresh, Issues
  <2>2. CASE RefreshFails(p) \/ Logout(p) \/ RevokeSession(p)
    BY <2>2 DEF RefreshFails, Logout, RevokeSession, Issues
  <2>3. CASE UpdatePreferences(p) \/ UpdateCreatorProfile(p)
    BY <2>3 DEF UpdatePreferences, UpdateCreatorProfile, Issues
  <2> QED BY <2>1, <2>2, <2>3
<1> QED BY <1>1, <1>2, <1>3, SessionCalls

LEMMA TokenCalls ==
    ASSUME AccountInv, NEW p \in Procs, RequestReset(p) \/ RequestVerification(p)
    PROVE  StepSound
<1> USE Known
<1>1. /\ calls' \in Nat /\ InOneStep
      /\ UNCHANGED <<atomic, user, sessions, issued, verified, kyc, settings>>
  BY DEF RequestReset, RequestVerification, Begin
<1>2. PICK use \in Uses : NewToken(use)
  BY DEF RequestReset, RequestVerification, Uses
<1>3. Onward /\ Issues
  BY <1>1, <1>2, TokenAdded DEF Onward, Issues
<1>4. VerifiedOnce'
  BY <1>1, <1>2, TokenAdded, VerifiedKept
<1>5. StaleStep
  BY <1>1, HarmlessWrite
<1> QED BY <1>1, <1>3, <1>4, <1>5, OneStep DEF StepSound

LEMMA ExpireStep ==
    ASSUME AccountInv, NEW t \in DOMAIN tokens, Expire(t)
    PROVE  StepSound
<1> USE Known
<1> DEFINE new == [tokens[t] EXCEPT !.expired = TRUE]
<1>1. /\ tokens' = [tokens EXCEPT ![t].expired = TRUE] /\ InOneStep
      /\ UNCHANGED <<atomic, user, sessions, issued, verified, kyc, settings, calls>>
  BY DEF Expire
<1>2. tokens[t] \in Token
  OBVIOUS
<1>3. new \in Token /\ new.use = tokens[t].use /\ new.used_at = tokens[t].used_at
  BY <1>2 DEF Token
<1>4. tokens' = [tokens EXCEPT ![t] = new]
  BY <1>1
<1> HIDE DEF new
<1>5. /\ TokensKept /\ DOMAIN tokens' = DOMAIN tokens /\ tokens'[t] = new
      /\ \A u \in DOMAIN tokens : u # t => tokens'[u] = tokens[u]
  BY <1>3, <1>4, TokenWritten
<1>6. VerifiedOnce'
  BY <1>1, <1>3, <1>5, VerifiedKept
<1>7. Onward /\ Issues
  BY <1>1, <1>5 DEF Onward, Issues
<1>8. StaleStep
  BY <1>1, HarmlessWrite
<1> QED BY <1>1, <1>6, <1>7, <1>8, OneStep DEF StepSound

LEMMA DeactivateStep ==
    ASSUME AccountInv, Deactivate
    PROVE  StepSound
<1> USE Known
<1>1. /\ user' = [user EXCEPT !.is_active = FALSE] /\ user.registered /\ InOneStep
      /\ UNCHANGED <<atomic, sessions, tokens, issued, verified, kyc, settings, calls>>
  BY DEF Deactivate
<1>2. /\ user' \in User /\ user'.registered
      /\ user'.email_verified = user.email_verified /\ user'.password = user.password
      /\ user'.two_factor_enabled = user.two_factor_enabled
      /\ user'.totp_secret = user.totp_secret /\ user'.is_seller = user.is_seller
      /\ \A c \in ProfileColumns : user'[c] = user[c]
  BY <1>1 DEF User, ProfileColumns
<1>3. Onward /\ Issues
  BY <1>1, <1>2 DEF Onward, TokensKept, Issues
<1>4. VerifiedOnce'
  BY <1>1, <1>2, VerifiedKept
<1>5. StaleStep
  BY <1>1, <1>2, HarmlessWrite
<1> QED BY <1>1, <1>3, <1>4, <1>5, OneStep DEF StepSound

LEMMA KycCalls ==
    ASSUME AccountInv, Review \/ \E p \in Procs : UploadDocument(p)
    PROVE  StepSound
<1> USE Known
<1>1. /\ calls' \in Nat /\ InOneStep
      /\ UNCHANGED <<atomic, user, sessions, tokens, issued, verified, settings>>
  BY DEF Review, UploadDocument, Begin
<1>2. kyc' \in Kyc /\ kyc'.data = kyc.data
  <2>1. CASE Review
    BY <2>1 DEF Review, Kyc, KycStatuses
  <2>2. CASE \E p \in Procs : UploadDocument(p)
    BY <2>2 DEF UploadDocument, Kyc
  <2> QED BY <2>1, <2>2
<1>3. Onward /\ Issues
  BY <1>1 DEF Onward, TokensKept, Issues
<1>4. VerifiedOnce' /\ StaleStep
  BY <1>1, <1>2, VerifiedKept, HarmlessWrite
<1> QED BY <1>1, <1>2, <1>3, <1>4, OneStep DEF StepSound

-----------------------------------------------------------------------------
(* Registration and login *)

LEMMA RegisterStep ==
    ASSUME AccountInv, NEW p \in Procs, Register(p)
    PROVE  StepSound
<1> USE Known
<1>1. PICK w \in Values : user' = [NoUser EXCEPT !.registered = TRUE, !.password = w]
  BY DEF Register
<1>2. /\ ~user.registered /\ pc' = [pc EXCEPT ![p] = "provision"]
      /\ calls' \in Nat
      /\ UNCHANGED <<atomic, sessions, tokens, issued, verified, kyc, settings, arg, copy, kcopy>>
  BY DEF Register, Begin
<1>3. ASSUME NEW row \in User
      PROVE  LET new == [row EXCEPT !.registered = TRUE, !.password = w]
             IN  /\ new \in User /\ new.registered
                 /\ new.email_verified = row.email_verified
                 /\ new.two_factor_enabled = row.two_factor_enabled
                 /\ new.totp_secret = row.totp_secret
  BY DEF User, Chosen
<1>4. user = NoUser
  BY <1>2
<1>5. /\ user' \in User /\ user'.registered /\ user'.email_verified = user.email_verified
      /\ user'.two_factor_enabled = user.two_factor_enabled
      /\ user'.totp_secret = user.totp_secret
  BY <1>1, <1>3, <1>4, NoUserTyped
<1>6. ~user.email_verified /\ ~user.is_seller
  BY <1>4, NoUserTyped
<1>7. Onward /\ Issues
  BY <1>2, <1>5 DEF Onward, TokensKept, Issues
<1>8. VerifiedOnce' /\ StaleStep
  BY <1>2, <1>5, <1>6, VerifiedKept, HarmlessWrite
<1>9. pc' \in [Procs -> Steps] /\ OthersWait(p) /\ pc'[p] = "provision"
  BY <1>2 DEF Steps, OthersWait
<1>10. ThreadKnows(p)'
  BY <1>2, <1>5, <1>6, <1>9 DEF ThreadKnows, Uses
<1>11. \A q \in Procs : ThreadKnows(q)'
  BY <1>7, <1>9, <1>10, OneThreadMoves
<1>12. AccountInv' /\ RetiredStep
  BY <1>2, <1>7, <1>8, <1>9, <1>11, InvKept
<1> QED BY <1>8, <1>12 DEF StepSound

LEMMA ProvisionSteps ==
    ASSUME AccountInv, NEW p \in Procs, Provision(p) \/ CrashInRegister(p)
    PROVE  StepSound
<1> USE Known
<1>1. /\ Return(p) /\ pc[p] = "provision"
      /\ UNCHANGED <<atomic, sessions, tokens, verified, kyc, settings, calls>>
  BY DEF Provision, CrashInRegister
<1>2. user.registered
  BY <1>1 DEF ThreadKnows
<1>3. Issues
  BY <1>1 DEF Provision, CrashInRegister, Issues
<1>4. /\ user' \in User /\ user'.registered = user.registered
      /\ user'.email_verified = user.email_verified /\ user'.password = user.password
      /\ user'.two_factor_enabled = user.two_factor_enabled
      /\ user'.totp_secret = user.totp_secret /\ user'.is_seller = user.is_seller
      /\ \A c \in ProfileColumns : user'[c] = user[c]
  <2>1. CASE Provision(p)
    <3>1. PICK done \in BOOLEAN : user' = [user EXCEPT !.wallets = done]
      BY <2>1 DEF Provision, CreateWallets
    <3> QED BY <3>1 DEF User, ProfileColumns
  <2>2. CASE CrashInRegister(p)
    BY <2>2 DEF CrashInRegister
  <2> QED BY <2>1, <2>2
<1>5. Onward
  BY <1>1, <1>2, <1>4 DEF Onward, TokensKept
<1>6. VerifiedOnce' /\ StaleStep
  BY <1>1, <1>4, VerifiedKept, HarmlessWrite
<1> QED BY <1>1, <1>3, <1>5, <1>6, LastWrite DEF StepSound

LEMMA OpenStep ==
    ASSUME AccountInv, NEW p \in Procs, OpenSession(p)
    PROVE  StepSound
<1> USE Known
<1>1. /\ Return(p) /\ sessions' = sessions \cup {NewJti} /\ issued' = issued \cup {NewJti}
      /\ UNCHANGED <<atomic, user, tokens, verified, kyc, settings, calls>>
  BY DEF OpenSession
<1>2. NewJti \notin issued
  BY FS_CardinalityType DEF AccountInv, NewJti
<1>3. Onward /\ Issues
  BY <1>1, <1>2 DEF Onward, TokensKept, Issues
<1>4. VerifiedOnce' /\ StaleStep
  BY <1>1, VerifiedKept, HarmlessWrite
<1> QED BY <1>1, <1>3, <1>4, LastWrite DEF StepSound

\* A password is written: everything else in the row is as it was.
LEMMA PasswordWrite ==
    ASSUME AccountInv, NEW p \in Procs, user.registered, NEW row \in User,
           Save(row, {"password", "legacy"}), pc'[p] # pc[p],
           \/ pc[p] \in {"change", "change_revoke"} /\ row.password = arg[p]
           \/ pc[p] = "reset"
           \/ pc[p] = "rehash" /\ row.password = copy[p].password,
           UNCHANGED kyc
    PROVE  /\ user' \in User /\ user'.registered
           /\ user'.email_verified = user.email_verified
           /\ StaleStep
<1> USE Known
<1>1. /\ user' \in User /\ user'.registered /\ user'.email_verified = user.email_verified
      /\ user'.password = row.password /\ user'.two_factor_enabled = user.two_factor_enabled
      /\ user'.totp_secret = user.totp_secret /\ user'.is_seller = user.is_seller
      /\ \A c \in ProfileColumns : user'[c] = user[c]
  <2> DEFINE columns == {"password", "legacy"}
  <2>1. /\ "password" \in columns /\ "registered" \notin columns
        /\ "email_verified" \notin columns /\ "two_factor_enabled" \notin columns
        /\ "totp_secret" \notin columns /\ "is_seller" \notin columns
        /\ \A c \in ProfileColumns : c \notin columns
    BY DEF ProfileColumns
  <2>2. Save(row, columns)
    OBVIOUS
  <2> HIDE DEF columns
  <2>3. user \in User
    OBVIOUS
  <2>4. /\ user' \in User
        /\ user'.registered = IF "registered" \in columns THEN row.registered ELSE user.registered
        /\ user'.password = IF "password" \in columns THEN row.password ELSE user.password
    BY <2>2, <2>3, Saved
  <2>5. /\ user'.email_verified =
             IF "email_verified" \in columns THEN row.email_verified ELSE user.email_verified
        /\ user'.is_seller = IF "is_seller" \in columns THEN row.is_seller ELSE user.is_seller
    BY <2>2, <2>3, Saved
  <2>6. /\ user'.two_factor_enabled =
             IF "two_factor_enabled" \in columns THEN row.two_factor_enabled
                                                 ELSE user.two_factor_enabled
        /\ user'.totp_secret =
             IF "totp_secret" \in columns THEN row.totp_secret ELSE user.totp_secret
    BY <2>2, <2>3, Saved
  <2>7. \A c \in ProfileColumns : user'[c] = IF c \in columns THEN row[c] ELSE user[c]
    BY <2>2, <2>3, UserColumns DEF Save, ProfileColumns
  <2> QED BY <2>1, <2>4, <2>5, <2>6, <2>7
<1>2. RestoredOnlyByRehash
  <2>1. \/ pc[p] \in {"change", "change_revoke"} /\ user'.password = arg[p]
        \/ pc[p] = "reset"
        \/ pc[p] = "rehash" /\ user'.password = copy[p].password
    BY <1>1
  <2> QED BY <2>1, Zenon DEF RestoredOnlyByRehash
<1>3. LockedOutOnlyByStaleEnable /\ ApprovalCoversData
  BY <1>1 DEF LockedOutOnlyByStaleEnable, CodeFits, ApprovalCoversData, GetKyc
<1>4. \A c \in ProfileColumns : user.registered => user'[c] >= user[c]
  BY <1>1, ProfileStays
<1>5. user.is_seller => user'.is_seller
  BY <1>1
<1>6. StaleStep
  BY <1>2, <1>3, <1>4, <1>5 DEF StaleStep
<1> QED BY <1>1, <1>6

\* The copy with another password is a row.
LEMMA NewPassword ==
    ASSUME AccountInv, NEW row \in User, NEW w \in Chosen
    PROVE  LET new == [row EXCEPT !.password = w, !.legacy = FALSE]
           IN  new \in User /\ new.password = w
BY DEF User

LEMMA RehashStep ==
    ASSUME AccountInv, NEW p \in Procs, Rehash(p)
    PROVE  StepSound
<1> USE Known
<1> DEFINE row == [copy[p] EXCEPT !.legacy = FALSE]
<1>1. /\ pc[p] = "rehash" /\ Save(row, {"password", "legacy"})
      /\ UNCHANGED <<atomic, sessions, tokens, issued, verified, kyc, settings, calls>>
      /\ Return(p) \/ (pc' = [pc EXCEPT ![p] = "open"] /\ UNCHANGED <<arg, copy, kcopy>>)
  BY DEF Rehash
<1>2. row \in User /\ row.password = copy[p].password
  BY DEF User
<1>3. user.registered
  BY <1>1 DEF ThreadKnows
<1> HIDE DEF row
<1>4. /\ pc' \in [Procs -> Steps] /\ arg' \in [Procs -> Nat]
      /\ copy' \in [Procs -> User] /\ kcopy' \in [Procs -> Kyc]
      /\ OthersWait(p) /\ pc'[p] \in {"idle", "open"}
  <2>1. CASE Return(p)
    BY <2>1, Returned
  <2>2. CASE pc' = [pc EXCEPT ![p] = "open"] /\ UNCHANGED <<arg, copy, kcopy>>
    BY <2>2 DEF Steps, OthersWait
  <2> QED BY <1>1, <2>1, <2>2
<1>5. /\ user' \in User /\ user'.registered
      /\ user'.email_verified = user.email_verified /\ StaleStep
  BY <1>1, <1>2, <1>3, <1>4, PasswordWrite
<1>6. Onward /\ Issues
  BY <1>1, <1>5 DEF Onward, TokensKept, Issues
<1>7. VerifiedOnce'
  BY <1>1, <1>5, VerifiedKept
<1>8. ThreadKnows(p)'
  <2>1. CASE Return(p)
    BY <2>1, Returned
  <2>2. CASE pc' = [pc EXCEPT ![p] = "open"] /\ UNCHANGED <<arg, copy, kcopy>>
    <3>1. pc'[p] = "open" /\ copy'[p] = copy[p]
      BY <2>2
    <3> QED BY <3>1, <1>5 DEF ThreadKnows, Uses
  <2> QED BY <1>1, <2>1, <2>2
<1>9. \A q \in Procs : ThreadKnows(q)'
  BY <1>4, <1>6, <1>8, OneThreadMoves
<1>10. AccountInv' /\ RetiredStep
  BY <1>1, <1>4, <1>6, <1>7, <1>9, InvKept
<1> QED BY <1>5, <1>10 DEF StepSound

LEMMA ChangeStep ==
    ASSUME AccountInv, NEW p \in Procs, WriteChange(p)
    PROVE  StepSound
<1> USE Known
<1> DEFINE row == [copy[p] EXCEPT !.password = arg[p], !.legacy = FALSE]
<1>1. /\ pc[p] \in {"change", "change_revoke"} /\ Save(row, {"password", "legacy"})
      /\ sessions' \subseteq sessions /\ Return(p)
      /\ UNCHANGED <<atomic, tokens, issued, verified, kyc, settings, calls>>
  BY DEF WriteChange
<1>2. arg[p] \in Chosen /\ user.registered
  BY <1>1 DEF ThreadKnows, Chosen
<1>3. row \in User /\ row.password = arg[p]
  BY <1>2, NewPassword
<1> HIDE DEF row
<1>4. pc'[p] # pc[p]
  BY <1>1, Returned
<1>5. /\ user' \in User /\ user'.registered
      /\ user'.email_verified = user.email_verified /\ StaleStep
  BY <1>1, <1>2, <1>3, <1>4, PasswordWrite
<1>6. Onward /\ Issues /\ VerifiedOnce'
  BY <1>1, <1>5, VerifiedKept DEF Onward, TokensKept, Issues
<1> QED BY <1>1, <1>5, <1>6, LastWrite DEF StepSound

\* A single-use token is marked used.
LEMMA TokenSpent ==
    ASSUME AccountInv, NEW t \in DOMAIN tokens,
           tokens' = [tokens EXCEPT ![t].used_at = TRUE]
    PROVE  /\ TokensKept /\ DOMAIN tokens' = DOMAIN tokens
           /\ tokens'[t].use = tokens[t].use
           /\ \A u \in DOMAIN tokens : u # t => tokens'[u] = tokens[u]
<1> DEFINE new == [tokens[t] EXCEPT !.used_at = TRUE]
<1>1. tokens[t] \in Token
  BY Known
<1>2. new \in Token /\ new.use = tokens[t].use
  BY <1>1 DEF Token
<1>3. tokens' = [tokens EXCEPT ![t] = new]
  OBVIOUS
<1> HIDE DEF new
<1> QED BY <1>2, <1>3, TokenWritten

LEMMA ResetStep ==
    ASSUME AccountInv, NEW p \in Procs, WriteReset(p)
    PROVE  StepSound
<1> USE Known
<1>1. PICK w \in Values :
        Save([copy[p] EXCEPT !.password = w, !.legacy = FALSE], {"password", "legacy"})
  BY DEF WriteReset
<1> DEFINE row == [copy[p] EXCEPT !.password = w, !.legacy = FALSE]
<1>2. row \in User
  BY NewPassword DEF Chosen
<1>3. Save(row, {"password", "legacy"})
  BY <1>1
<1> HIDE DEF row
<1>4. /\ pc[p] = "reset" /\ tokens' = [tokens EXCEPT ![arg[p]].used_at = TRUE]
      /\ sessions' = {} /\ Return(p)
      /\ UNCHANGED <<atomic, issued, verified, kyc, settings, calls>>
  BY DEF WriteReset
<1>5. user.registered /\ arg[p] \in DOMAIN tokens /\ tokens[arg[p]].use = "reset"
  BY <1>4 DEF ThreadKnows, Uses
<1>6. /\ TokensKept /\ DOMAIN tokens' = DOMAIN tokens
      /\ tokens'[arg[p]].use = "reset"
      /\ \A u \in DOMAIN tokens : u # arg[p] => tokens'[u] = tokens[u]
  BY <1>4, <1>5, TokenSpent
<1>7. pc'[p] # pc[p]
  BY <1>4, Returned
<1>8. /\ user' \in User /\ user'.registered
      /\ user'.email_verified = user.email_verified /\ StaleStep
  BY <1>2, <1>3, <1>4, <1>5, <1>7, PasswordWrite
<1>9. Onward /\ Issues
  BY <1>4, <1>6, <1>8 DEF Onward, Issues
<1>10. VerifiedOnce'
  BY <1>4, <1>6, <1>8, VerifiedKept
<1> QED BY <1>4, <1>8, <1>9, <1>10, LastWrite DEF StepSound

LEMMA VerifyStep ==
    ASSUME AccountInv, NEW p \in Procs, WriteVerify(p)
    PROVE  StepSound
<1> USE Known
<1> DEFINE row == [copy[p] EXCEPT !.email_verified = TRUE]
<1>1. /\ pc[p] = "verify" /\ tokens' = [tokens EXCEPT ![arg[p]].used_at = TRUE]
      /\ IF copy[p].email_verified THEN UNCHANGED <<user, verified>>
                                   ELSE Save(row, {"email_verified"}) /\ EmitVerified
      /\ Return(p)
      /\ UNCHANGED <<atomic, sessions, issued, kyc, settings, calls>>
  BY DEF WriteVerify
<1>2. row \in User /\ row.email_verified
  BY DEF User
<1> HIDE DEF row
<1>3. user.registered /\ arg[p] \in DOMAIN tokens
  BY <1>1 DEF ThreadKnows, Uses
<1>4. TokensKept /\ DOMAIN tokens' = DOMAIN tokens
  BY <1>1, <1>3, TokenSpent
<1>5. Profile.email_verified = user.email_verified /\ verified \in {0, 1}
  BY ViewsShow DEF VerifiedOnce
<1>6. /\ user' \in User /\ user'.email_verified /\ verified' = 1
      /\ user'.registered = user.registered /\ user'.password = user.password
      /\ user'.two_factor_enabled = user.two_factor_enabled
      /\ user'.totp_secret = user.totp_secret /\ user'.is_seller = user.is_seller
      /\ \A c \in ProfileColumns : user'[c] = user[c]
  <2>1. CASE copy[p].email_verified
    <3>1. user.email_verified
      BY <2>1 DEF ThreadKnows
    <3> QED BY <1>1, <1>5, <2>1, <3>1 DEF VerifiedOnce
  <2>2. CASE ~copy[p].email_verified
    <3>1. Save(row, {"email_verified"}) /\ EmitVerified
      BY <1>1, <2>2
    <3> QED BY <1>2, <1>5, <3>1, Saved DEF EmitVerified, ProfileColumns
  <2> QED BY <2>1, <2>2
<1>7. Profile'.email_verified = user'.email_verified
  BY <1>6, UserColumns DEF Profile
<1>8. VerifiedOnce'
  BY <1>6, <1>7 DEF VerifiedOnce
<1>9. Onward /\ Issues
  BY <1>1, <1>3, <1>4, <1>6 DEF Onward, Issues
<1>10. StaleStep
  BY <1>1, <1>6, HarmlessWrite
<1> QED BY <1>1, <1>6, <1>8, <1>9, <1>10, LastWrite DEF StepSound

-----------------------------------------------------------------------------
(* Two-factor authentication, profile, KYC *)

\* Columns of two-factor authentication are written.
LEMMA TwoFactorWrite ==
    ASSUME AccountInv, NEW p \in Procs, Return(p), user.registered,
           NEW row \in User, NEW columns \in SUBSET {"two_factor_enabled", "totp_secret"},
           Save(row, columns),
           \/ user'.two_factor_enabled = user.two_factor_enabled
                /\ (CodeFits(user) => CodeFits(user'))
           \/ ~user'.two_factor_enabled \/ CodeFits(user')
           \/ pc[p] = "enable" /\ copy[p].totp_secret # user.totp_secret,
           UNCHANGED <<atomic, sessions, tokens, issued, verified, kyc, settings, calls>>
    PROVE  StepSound
<1> USE Known
<1>1. /\ "registered" \notin columns /\ "password" \notin columns
      /\ "email_verified" \notin columns /\ "is_seller" \notin columns
      /\ \A c \in ProfileColumns : c \notin columns
  BY DEF ProfileColumns
<1>2. /\ user' \in User /\ user'.registered = user.registered
      /\ user'.password = user.password
  BY <1>1, Saved
<1>3. user'.email_verified = user.email_verified /\ user'.is_seller = user.is_seller
  BY <1>1, Saved
<1>4. \A c \in ProfileColumns : user'[c] = user[c]
  BY <1>1, UserColumns DEF Save, ProfileColumns
<1>5. RestoredOnlyByRehash /\ ApprovalCoversData
  BY <1>2 DEF RestoredOnlyByRehash, ApprovalCoversData, GetKyc
<1>6. LockedOutOnlyByStaleEnable
  BY DEF LockedOutOnlyByStaleEnable
<1>7. \A c \in ProfileColumns : user.registered => user'[c] >= user[c]
  BY <1>4, ProfileStays
<1>8. StaleStep
  BY <1>3, <1>5, <1>6, <1>7 DEF StaleStep
<1>9. Onward /\ Issues
  BY <1>2, <1>3 DEF Onward, TokensKept, Issues
<1>10. VerifiedOnce'
  BY <1>2, <1>3, VerifiedKept
<1> QED BY <1>8, <1>9, <1>10, LastWrite DEF StepSound

LEMMA TwoFactorSteps ==
    ASSUME AccountInv, NEW p \in Procs, WriteSetup(p) \/ WriteEnable(p) \/ WriteDisable(p)
    PROVE  StepSound
<1> USE Known
<1>1. /\ Return(p) /\ pc[p] \in {"setup", "enable", "disable"}
      /\ UNCHANGED <<atomic, sessions, tokens, issued, verified, kyc, settings, calls>>
  BY DEF WriteSetup, WriteEnable, WriteDisable
<1>2. user.registered
  BY <1>1 DEF ThreadKnows
<1>3. copy[p] \in User
  OBVIOUS
<1>4. CASE WriteSetup(p)
  <2> DEFINE row == [copy[p] EXCEPT !.totp_secret = arg[p]]
  <2>1. pc[p] = "setup" /\ Save(row, {"totp_secret"})
    BY <1>4 DEF WriteSetup
  <2>2. arg[p] \in Values
    BY <2>1 DEF ThreadKnows
  <2>3. row \in User /\ row.totp_secret = arg[p] /\ arg[p] # 0
    BY <1>3, <2>2, AccountsAssumption DEF User, Chosen
  <2> HIDE DEF row
  <2>4. user'.totp_secret = arg[p]
    BY <2>1, <2>3, Saved
  <2> QED BY <1>1, <1>2, <2>1, <2>3, <2>4, TwoFactorWrite DEF CodeFits
<1>5. CASE WriteEnable(p)
  <2> DEFINE row == [copy[p] EXCEPT !.two_factor_enabled = TRUE]
  <2>1. pc[p] = "enable" /\ Save(row, {"two_factor_enabled"})
    BY <1>5 DEF WriteEnable
  <2>2. copy[p].totp_secret # 0
    BY <2>1 DEF ThreadKnows, CodeFits
  <2>3. row \in User
    BY <1>3 DEF User
  <2> HIDE DEF row
  <2>4. user'.totp_secret = user.totp_secret
    BY <2>1, <2>3, Saved
  <2> QED BY <1>1, <1>2, <2>1, <2>2, <2>3, <2>4, TwoFactorWrite DEF CodeFits
<1>6. CASE WriteDisable(p)
  <2> DEFINE row == [copy[p] EXCEPT !.two_factor_enabled = FALSE, !.totp_secret = 0]
  <2>1. pc[p] = "disable" /\ Save(row, {"two_factor_enabled", "totp_secret"})
    BY <1>6 DEF WriteDisable
  <2>2. row \in User /\ ~row.two_factor_enabled
    BY <1>3 DEF User, Chosen
  <2> HIDE DEF row
  <2>3. ~user'.two_factor_enabled
    BY <2>1, <2>2, Saved
  <2> QED BY <1>1, <1>2, <2>1, <2>2, <2>3, TwoFactorWrite
<1> QED BY <1>4, <1>5, <1>6

LEMMA ProfileStep ==
    ASSUME AccountInv, NEW p \in Procs, WriteProfile(p)
    PROVE  StepSound
<1> USE Known
<1> DEFINE row == [copy[p] EXCEPT ![pc[p]] = 1]
<1>1. /\ Return(p) /\ pc[p] \in ProfileColumns /\ Save(row, {pc[p]})
      /\ UNCHANGED <<atomic, sessions, tokens, issued, verified, kyc, settings, calls>>
  BY DEF WriteProfile
<1>2. copy[p] \in User /\ pc[p] \in {"display_name", "bio"}
  BY <1>1 DEF ProfileColumns
<1>3. row \in User
  <2>1. CASE pc[p] = "display_name"
    BY <1>2, <2>1 DEF User
  <2>2. CASE pc[p] = "bio"
    BY <1>2, <2>2 DEF User
  <2> QED BY <1>2, <2>1, <2>2
<1>4. row[pc[p]] = 1
  BY <1>2, UserColumns
<1> HIDE DEF row
<1> DEFINE columns == {pc[p]}
<1>5. /\ "registered" \notin columns /\ "password" \notin columns
      /\ "email_verified" \notin columns /\ "is_seller" \notin columns
      /\ "two_factor_enabled" \notin columns /\ "totp_secret" \notin columns
      /\ \A c \in columns : row[c] = 1
  BY <1>2, <1>4
<1>6. Save(row, columns)
  BY <1>1
<1> HIDE DEF columns
<1>7. /\ user' \in User /\ user'.registered = user.registered
      /\ user'.password = user.password
  BY <1>3, <1>5, <1>6, Saved
<1>8. user'.email_verified = user.email_verified /\ user'.is_seller = user.is_seller
  BY <1>3, <1>5, <1>6, Saved
<1>9. /\ user'.two_factor_enabled = user.two_factor_enabled
      /\ user'.totp_secret = user.totp_secret
  BY <1>3, <1>5, <1>6, Saved
<1>10. \A c \in ProfileColumns : user'[c] = IF c \in columns THEN row[c] ELSE user[c]
  BY <1>6, UserColumns DEF Save, ProfileColumns
<1>11. \A c \in ProfileColumns : user'[c] >= user[c]
  <2>1. \A c \in ProfileColumns : user[c] \in {0, 1}
    BY UserColumns
  <2> QED BY <1>5, <1>10, <2>1
<1>12. /\ RestoredOnlyByRehash /\ LockedOutOnlyByStaleEnable /\ ApprovalCoversData
  BY <1>1, <1>7, <1>9 DEF RestoredOnlyByRehash, LockedOutOnlyByStaleEnable, CodeFits,
     ApprovalCoversData, GetKyc
<1>13. StaleStep
  BY <1>8, <1>11, <1>12 DEF StaleStep
<1>14. user.registered
  BY <1>2 DEF ThreadKnows
<1>15. Onward /\ Issues
  BY <1>1, <1>7, <1>8, <1>14 DEF Onward, TokensKept, Issues
<1>16. VerifiedOnce'
  BY <1>1, <1>7, <1>8, VerifiedKept
<1> QED BY <1>1, <1>13, <1>15, <1>16, LastWrite DEF StepSound

LEMMA KycWrites ==
    ASSUME AccountInv, NEW p \in Procs, WriteKycUpdate(p) \/ WriteKycSubmit(p)
    PROVE  StepSound
<1> USE Known
<1>1. /\ Return(p)
      /\ UNCHANGED <<atomic, user, sessions, tokens, issued, verified, settings, calls>>
  BY DEF WriteKycUpdate, WriteKycSubmit
<1>2. kyc' \in Kyc /\ ApprovalCoversData
  <2>1. CASE WriteKycUpdate(p)
    <3>1. arg[p] \in Chosen /\ pc[p] = "kyc_update"
      BY <2>1 DEF WriteKycUpdate, ThreadKnows, Chosen
    <3>2. kyc' = [kyc EXCEPT !.data = arg[p],
                    !.status = IF kcopy[p].status = "approved" THEN "pending" ELSE kyc.status]
      BY <2>1 DEF WriteKycUpdate, Kyc
    <3>3. kyc' \in Kyc
      BY <3>1, <3>2 DEF Kyc, KycStatuses
    <3>4. kcopy[p].status = "approved" => kyc'.status = "pending"
      BY <3>2 DEF Kyc
    <3> QED BY <3>1, <3>3, <3>4 DEF ApprovalCoversData, Me
  <2>2. CASE WriteKycSubmit(p)
    <3>1. kyc' \in Kyc /\ kyc'.data = kyc.data
      BY <2>2 DEF WriteKycSubmit, Kyc, KycStatuses
    <3> QED BY <3>1 DEF ApprovalCoversData, GetKyc
  <2> QED BY <2>1, <2>2
<1>3. RestoredOnlyByRehash /\ LockedOutOnlyByStaleEnable
  BY <1>1 DEF RestoredOnlyByRehash, LockedOutOnlyByStaleEnable, CodeFits
<1>4. \A c \in ProfileColumns : user.registered => user'[c] >= user[c]
  BY <1>1, ProfileStays
<1>5. StaleStep
  BY <1>1, <1>2, <1>3, <1>4 DEF StaleStep
<1>6. Onward /\ Issues
  BY <1>1 DEF Onward, TokensKept, Issues
<1>7. VerifiedOnce'
  BY <1>1, VerifiedKept
<1> QED BY <1>1, <1>2, <1>5, <1>6, <1>7, LastWrite DEF StepSound

-----------------------------------------------------------------------------
(* The shop beside it *)

\* The account, its threads included, is as before, but for the calls counted.
LEMMA AccountRests ==
    ASSUME AccountInv, calls' \in Nat, InOneStep,
           UNCHANGED <<atomic, user, sessions, tokens, issued, verified, kyc, settings>>
    PROVE  StepSound
<1>1. Issues
  BY DEF Issues
<1> QED BY <1>1, Known, SessionCalls

LEMMA EnterRests ==
    ASSUME AccountInv, NEW p \in Procs, NEW group, Enter(p, group)
    PROVE  /\ calls' \in Nat /\ InOneStep
           /\ UNCHANGED <<atomic, sessions, tokens, issued, verified, kyc, settings>>
BY Known DEF Enter, InOneStep

LEMMA ShopCalls ==
    ASSUME AccountInv, NEW p \in Procs,
           \/ CheckApplication(p) \/ RejectApplication(p) \/ CheckStore(p) \/ UpdateStore(p)
           \/ CreateProduct(p) \/ UpdateProduct(p) \/ ArchiveProduct(p)
           \/ AddToCart(p) \/ RemoveFromCart(p)
           \/ CheckFirst(p) \/ LockForUpdate(p) \/ LockForDelete(p)
    PROVE  StepSound
<1>1. UNCHANGED user /\ \E group \in {"desk", "catalog", "addresses"} : Enter(p, group)
  BY DEF CheckApplication, RejectApplication, CheckStore, UpdateStore, CreateProduct,
         UpdateProduct, ArchiveProduct, AddToCart, RemoveFromCart, CheckFirst,
         LockForUpdate, LockForDelete
<1> QED BY <1>1, EnterRests, AccountRests

LEMMA ShopRests ==
    ASSUME AccountInv, NEW p \in Procs,
           \/ SubmitApplication(p) \/ OpenStore(p) \/ InsertAddress(p) \/ ScanDefaults(p)
           \/ LockDefault(p) \/ CommitAddress(p) \/ PromoteNewest(p) \/ AbortDeadlock(p)
    PROVE  StepSound
<1>1. Rest
  BY DEF SubmitApplication, OpenStore, InsertAddress, ScanDefaults, LockDefault,
         CommitAddress, PromoteNewest, AbortDeadlock
<1> QED BY <1>1, Known, AccountRests DEF Rest, InOneStep

LEMMA ApproveStep ==
    ASSUME AccountInv, NEW p \in Procs, ApproveApplication(p)
    PROVE  StepSound
<1> USE Known
<1>1. Enter(p, "desk") /\ user' = [user EXCEPT !.is_seller = TRUE]
  BY DEF ApproveApplication, MarkSeller
<1>2. /\ calls' \in Nat /\ InOneStep /\ user.registered
      /\ UNCHANGED <<atomic, sessions, tokens, issued, verified, kyc, settings>>
  BY <1>1, EnterRests DEF Enter
<1>3. /\ user' \in User /\ user'.registered /\ user'.is_seller
      /\ user'.email_verified = user.email_verified /\ user'.password = user.password
      /\ user'.two_factor_enabled = user.two_factor_enabled
      /\ user'.totp_secret = user.totp_secret
      /\ \A c \in ProfileColumns : user'[c] = user[c]
  BY <1>1, <1>2 DEF User, ProfileColumns
<1>4. Onward /\ Issues
  BY <1>2, <1>3 DEF Onward, TokensKept, Issues
<1>5. VerifiedOnce'
  BY <1>2, <1>3, VerifiedKept
<1>6. StaleStep
  BY <1>2, <1>3, HarmlessWrite
<1> QED BY <1>2, <1>4, <1>5, <1>6, OneStep DEF StepSound

-----------------------------------------------------------------------------
(* The theorems *)

LEMMA InvInit == ShopInit => AccountInv
<1> SUFFICES ASSUME ShopInit PROVE AccountInv
  OBVIOUS
<1>1. Init
  BY DEF ShopInit
<1>2. user \in User /\ ~user.email_verified /\ (~user.registered => user = NoUser)
  BY <1>1, NoUserTyped DEF Init
<1>3. kyc \in Kyc
  BY <1>1, NoUserTyped DEF Init
<1>4. /\ sessions = {} /\ issued = {} /\ tokens = <<>> /\ verified = 0 /\ settings = {}
      /\ calls = 0 /\ atomic \in BOOLEAN
  BY <1>1, AccountsAssumption DEF Init
<1>5. /\ pc \in [Procs -> Steps] /\ arg \in [Procs -> Nat]
      /\ copy \in [Procs -> User] /\ kcopy \in [Procs -> Kyc]
      /\ \A p \in Procs : pc[p] = "idle" /\ copy[p] = NoUser
  BY <1>1, NoUserTyped DEF Init, Steps
<1>6. TypeOK
  BY <1>2, <1>3, <1>4, <1>5 DEF TypeOK
<1>7. VerifiedOnce
  BY <1>2, <1>4, ViewsShow DEF VerifiedOnce
<1>8. IsFiniteSet(issued) /\ issued = 1..Cardinality(issued)
  BY <1>4, FS_EmptySet
<1>9. \A p \in Procs : ThreadKnows(p)
  BY <1>5, NoUserTyped DEF ThreadKnows, Uses
<1> QED BY <1>2, <1>6, <1>7, <1>8, <1>9 DEF AccountInv, AccountSound

LEMMA AccountSteps ==
    ASSUME AccountInv, AccountNext
    PROVE  StepSound
<1>1. ASSUME NEW p \in Procs,
             \/ Register(p) \/ Provision(p) \/ CrashInRegister(p)
             \/ ReadLogin(p) \/ Rehash(p) \/ OpenSession(p)
             \/ Refresh(p) \/ RefreshFails(p) \/ Logout(p) \/ RevokeSession(p)
      PROVE  StepSound
  BY <1>1, RegisterStep, ProvisionSteps, ReadCalls, RehashStep, OpenStep, OneStepCalls
<1>2. ASSUME NEW p \in Procs,
             \/ ReadChange(p) \/ WriteChange(p)
             \/ RequestReset(p) \/ ReadReset(p) \/ WriteReset(p)
             \/ RequestVerification(p) \/ ReadVerify(p) \/ WriteVerify(p)
      PROVE  StepSound
  BY <1>2, ReadCalls, ChangeStep, TokenCalls, ResetStep, VerifyStep
<1>3. ASSUME NEW p \in Procs,
             \/ ReadSetup(p) \/ WriteSetup(p) \/ ReadEnable(p) \/ WriteEnable(p)
             \/ ReadDisable(p) \/ WriteDisable(p) \/ ReadProfile(p) \/ WriteProfile(p)
      PROVE  StepSound
  BY <1>3, ReadCalls, TwoFactorSteps, ProfileStep
<1>4. ASSUME NEW t \in DOMAIN tokens, Expire(t)
      PROVE  StepSound
  BY <1>4, ExpireStep
<1>5. CASE Deactivate
  BY <1>5, DeactivateStep
<1> QED BY <1>1, <1>2, <1>3, <1>4, <1>5 DEF AccountNext

LEMMA RecordsSteps ==
    ASSUME AccountInv, RecordsNext
    PROVE  StepSound
<1>1. ASSUME NEW p \in Procs,
             \/ UpdatePreferences(p) \/ UpdateCreatorProfile(p)
             \/ ReadKycUpdate(p) \/ WriteKycUpdate(p) \/ UploadDocument(p)
             \/ ReadKycSubmit(p) \/ WriteKycSubmit(p)
      PROVE  StepSound
  BY <1>1, OneStepCalls, ReadKycCalls, KycWrites, KycCalls
<1>2. CASE Review
  BY <1>2, KycCalls
<1> QED BY <1>1, <1>2 DEF RecordsNext

LEMMA InvStep ==
    ASSUME AccountInv, [ShopNext]_<<vars, svars>>
    PROVE  StepSound
<1>1. CASE AccountNext
  BY <1>1, AccountSteps
<1>2. CASE RecordsNext
  BY <1>2, RecordsSteps
<1>3. ASSUME NEW p \in Procs, ReadProfile(p) \/ WriteProfile(p)
      PROVE  StepSound
  BY <1>3, ReadCalls, ProfileStep
<1>4. ASSUME NEW p \in Procs,
             \/ CheckApplication(p) \/ SubmitApplication(p)
             \/ ApproveApplication(p) \/ RejectApplication(p)
             \/ CheckStore(p) \/ OpenStore(p) \/ UpdateStore(p)
             \/ CreateProduct(p) \/ UpdateProduct(p) \/ ArchiveProduct(p)
             \/ AddToCart(p) \/ RemoveFromCart(p)
             \/ CheckFirst(p) \/ InsertAddress(p) \/ LockForUpdate(p) \/ LockForDelete(p)
             \/ ScanDefaults(p) \/ LockDefault(p) \/ CommitAddress(p)
             \/ PromoteNewest(p) \/ AbortDeadlock(p)
      PROVE  StepSound
  BY <1>4, ShopCalls, ShopRests, ApproveStep
<1>5. CASE UNCHANGED <<vars, svars>>
  <2>1. /\ calls' \in Nat /\ InOneStep
        /\ UNCHANGED <<atomic, user, sessions, tokens, issued, verified, kyc, settings>>
    BY <1>5, Known DEF vars, InOneStep
  <2> QED BY <2>1, AccountRests
<1> QED BY <1>1, <1>2, <1>3, <1>4, <1>5 DEF ShopNext

\* Whatever the threads, the deployment and the shop beside it do, the invariant holds.
THEOREM Inductive == ShopSpec => []AccountInv
<1>1. AccountInv /\ [ShopNext]_<<vars, svars>> => AccountInv'
  BY InvStep DEF StepSound
<1> QED BY InvInit, <1>1, PTL DEF ShopSpec

\* An account is verified exactly when EmailVerified was emitted, once, and a
\* verification token is spent only with that effect (confirm_email_verification).
THEOREM AccountsAreSound == ShopSpec => []AccountSound
<1>1. AccountInv => AccountSound
  BY DEF AccountInv
<1> QED BY Inductive, <1>1, PTL

\* A refresh token that stopped being a session's does not come back (refresh_token,
\* logout, revoke_session, the DELETEs of the password handlers).
THEOREM RetiredForGood == ShopSpec => RetiredStaysRetired
<1>1. AccountInv /\ [ShopNext]_<<vars, svars>> =>
          [\A jti \in issued \ sessions : jti \notin sessions']_vars
  BY InvStep DEF StepSound, RetiredStep
<1> QED BY Inductive, <1>1, PTL DEF ShopSpec, RetiredStaysRetired

\* A copy that was read before somebody else's write does no other harm than the
\* three StaleStep names (save(update_fields=...) throughout apps/identity).
THEOREM StaleCopiesContained == ShopSpec => StaleCopyHarms
<1>1. AccountInv /\ [ShopNext]_<<vars, svars>> => [StaleStep]_vars
  BY InvStep DEF StepSound
<1> QED BY Inductive, <1>1, PTL DEF ShopSpec, StaleCopyHarms

-----------------------------------------------------------------------------
(* The shop: rows and calls *)

LEMMA Among == ASSUME NEW s, NEW x PROVE x \in ToSet(s) <=> \E i \in DOMAIN s : s[i] = x
BY DEF ToSet

LEMMA IdleJob == Idle \in Job /\ Idle.kind = "idle" /\ Idle.id = 0
BY DEF Idle, Job

LEMMA JobColumns ==
    ASSUME NEW j \in Job
    PROVE  /\ j.slug \in Slugs \cup {Absent} /\ j.id \in {0} \cup Ids /\ j.flag \in BOOLEAN
           /\ j.wants \in SUBSET Ids
           /\ j.kind \in {"idle", "submit", "open", "insert", "scan", "promote", "unset_others"}
BY DEF Job

\* A call goes on with j; if none overlapped it, the others are idle.
Moves(p, j) ==
    /\ job' \in [Procs -> Job] /\ job'[p] = j
    /\ \A q \in Procs : q # p => job'[q] = job[q]
    /\ overlapped' \in BOOLEAN
    /\ ~overlapped' => ~overlapped /\ \A q \in Procs : q # p => job[q] = Idle

LEMMA Gone ==
    ASSUME ShopInv, NEW p \in Procs, NEW j \in Job, Goes(p, j)
    PROVE  Moves(p, j)
BY DEF ShopInv, ShopTypeOK, Goes, Moves

LEMMA Proceeded ==
    ASSUME ShopInv, NEW p \in Procs, NEW j \in Job, Proceeds(p, j), job[p].kind # "idle"
    PROVE  Moves(p, j)
<1>1. job[p] # Idle /\ job \in [Procs -> Job] /\ overlapped \in BOOLEAN
  BY IdleJob DEF ShopInv, ShopTypeOK
<1>2. ~overlapped => \A q \in Procs : q # p => job[q] = Idle
  BY <1>1 DEF ShopInv, DeskAlone
<1> QED BY <1>1, <1>2 DEF Proceeds, Moves

\* What both kinds of step leave of the shop.
LEMMA ShopTyped ==
    ASSUME ShopInv
    PROVE  /\ menu \in Menus /\ applications \in Seq(ActiveApplication \cup {"rejected"})
           /\ stores \in Seq([slug : Slugs, is_active : BOOLEAN])
           /\ products \in [Products -> {Absent, "draft", "active", "archived"}]
           /\ cart \subseteq Products /\ addresses \in [Ids -> {Absent, "plain", "default"}]
           /\ made \in {0} \cup Ids /\ made \in Nat /\ MaxAddresses \in Nat
           /\ holder \in [Ids -> Procs \cup {Nobody}]
           /\ job \in [Procs -> Job] /\ overlapped \in BOOLEAN /\ unset \in BOOLEAN
           /\ ShopTypeOK /\ DeskKnows /\ DeskAlone /\ BookNumbered /\ BookAlone
BY ShopAssumption DEF ShopInv, ShopTypeOK, Ids

-----------------------------------------------------------------------------
(* The shop: steps that leave the desk, or the address book *)

\* The desk is left alone, but for the call that goes on.
LEMMA DeskRests ==
    ASSUME ShopInv, NEW p \in Procs, NEW j \in Job, Moves(p, j), user'.is_seller = user.is_seller,
           UNCHANGED <<applications, stores, products, cart>>,
           j.kind = "open" => /\ j.slug \in Slugs /\ "approved" \in ToSet(applications)
                              /\ ~overlapped' => stores = <<>>,
           j.kind = "submit" /\ ~overlapped' => Applying = {}
    PROVE  DeskKnows' /\ DeskAlone'
<1>1. DeskKnows /\ DeskAlone
  BY ShopTyped
<1>2. \A q \in Procs : job'[q].kind = "open" =>
            job'[q].slug \in Slugs /\ "approved" \in ToSet(applications)
  BY <1>1 DEF DeskKnows, Moves
<1>3. DeskKnows'
  BY <1>1, <1>2 DEF DeskKnows
<1>4. ASSUME ~overlapped'
      PROVE  /\ \A q, r \in Procs : job'[q] # Idle /\ job'[r] # Idle => q = r
             /\ \A q \in Procs : DeskCallKnows(q)'
  <2>1. /\ ~overlapped /\ job'[p] = j /\ Applying' = Applying
        /\ \A q \in Procs : q # p => job'[q] = Idle
    BY <1>4 DEF Moves, Applying
  <2> QED BY <1>4, <2>1, IdleJob DEF DeskCallKnows
<1>5. ~overlapped' => ~overlapped /\ Applying' = Applying
  BY DEF Moves, Applying
<1>6. DeskAlone'
  BY <1>1, <1>4, <1>5 DEF DeskAlone
<1> QED BY <1>3, <1>6

\* So is the address book; an id may be given out, the flag be given up.
LEMMA BookRests ==
    ASSUME ShopInv, NEW p \in Procs, NEW j \in Job, Moves(p, j), UNCHANGED addresses,
           made' \in Nat, made <= made', unset => unset',
           j.id <= made', j.kind \in {"scan", "unset_others", "promote"} => j.id # 0,
           j.kind = "unset_others" => j.id \notin j.wants,
           ~overlapped' => BookCallKnows(p)'
    PROVE  BookNumbered' /\ BookAlone'
<1>1. BookNumbered /\ BookAlone /\ made \in Nat
  BY ShopTyped
<1>2. Stored' = Stored /\ Defaults' = Defaults
  BY DEF Stored, Defaults
<1>3. BookNumbered'
  <2>1. Stored \subseteq 1..made'
    BY <1>1 DEF BookNumbered
  <2>2. ASSUME NEW q \in Procs
        PROVE  /\ job'[q].id <= made'
               /\ job'[q].kind \in {"scan", "unset_others", "promote"} => job'[q].id # 0
               /\ job'[q].kind = "unset_others" => job'[q].id \notin job'[q].wants
    <3>1. CASE q = p
      BY <3>1 DEF Moves
    <3>2. CASE q # p
      <4>1. /\ job'[q] = job[q] /\ job[q].id <= made /\ job[q].id \in Int
            /\ job[q].kind \in {"scan", "unset_others", "promote"} => job[q].id # 0
            /\ job[q].kind = "unset_others" => job[q].id \notin job[q].wants
        BY <1>1, <3>2, ShopTyped, JobColumns DEF Moves, BookNumbered, Ids
      <4> QED BY <1>1, <4>1
    <3> QED BY <3>1, <3>2
  <2> QED BY <1>2, <2>1, <2>2 DEF BookNumbered
<1>4. ASSUME ~overlapped' PROVE \A q \in Procs : BookCallKnows(q)'
  <2>1. ASSUME NEW q \in Procs, q # p PROVE BookCallKnows(q)'
    BY <1>4, <2>1, IdleJob DEF Moves, BookCallKnows
  <2> QED BY <1>4, <2>1
<1>5. ~overlapped' => ~overlapped
  BY DEF Moves
<1>6. BookAlone'
  BY <1>1, <1>2, <1>4, <1>5 DEF BookAlone
<1> QED BY <1>3, <1>6

\* A call in one statement leaves the calls of others.
LEMMA BookUntouched ==
    ASSUME ShopInv, UNCHANGED <<addresses, made, unset, job, overlapped>>
    PROVE  BookNumbered' /\ BookAlone'
<1>1. BookNumbered /\ BookAlone
  BY ShopTyped
<1> QED BY <1>1 DEF BookNumbered, BookAlone, BookCallKnows, Stored, Defaults

LEMMA DeskUntouched ==
    ASSUME ShopInv, UNCHANGED <<applications, stores, products, cart, job, overlapped>>,
           user'.is_seller = user.is_seller
    PROVE  DeskKnows' /\ DeskAlone'
<1>1. DeskKnows /\ DeskAlone
  BY ShopTyped
<1> QED BY <1>1 DEF DeskKnows, DeskAlone, DeskCallKnows, Applying

-----------------------------------------------------------------------------
(* The shop: desk and catalogue *)

LEMMA ApplicationCheck ==
    ASSUME ShopInv, NEW p \in Procs, CheckApplication(p)
    PROVE  ShopInv'
<1> DEFINE j == [Idle EXCEPT !.kind = "submit", !.seen = Len(applications)]
<1>1. /\ Goes(p, j) /\ Applying = {}
      /\ UNCHANGED <<menu, user, applications, stores, products, cart, addresses, made, holder, unset>>
  BY DEF CheckApplication, Enter, desk, book, Applying
<1>2. Len(applications) \in Nat
  BY ShopTyped
<1>3. j \in Job /\ j.kind = "submit" /\ j.id = 0
  <2>1. ASSUME NEW r \in Job
        PROVE  LET n == [r EXCEPT !.kind = "submit", !.seen = Len(applications)]
               IN  n \in Job /\ n.kind = "submit" /\ n.id = r.id
    BY <1>2 DEF Job
  <2>2. Idle \in Job /\ Idle.id = 0
    BY IdleJob
  <2> QED BY ONLY <2>1, <2>2
<1> HIDE DEF j
<1>4. Moves(p, j) /\ job'[p] = j /\ job' \in [Procs -> Job] /\ overlapped' \in BOOLEAN
  BY <1>1, <1>3, Gone DEF Moves
<1>5. j.id <= made
  BY <1>3, ShopTyped
<1>6. DeskKnows' /\ DeskAlone'
  BY <1>1, <1>3, <1>4, DeskRests
<1>7. BookNumbered' /\ BookAlone'
  <2>1. BookCallKnows(p)' /\ made' \in Nat /\ made <= made'
    BY <1>1, <1>3, <1>4, ShopTyped DEF BookCallKnows
  <2> QED BY <1>1, <1>3, <1>4, <1>5, <2>1, BookRests
<1>8. ShopTypeOK'
  BY <1>1, <1>4, ShopTyped DEF ShopTypeOK, Job, Ids
<1> QED BY <1>6, <1>7, <1>8 DEF ShopInv

LEMMA StoreCheck ==
    ASSUME ShopInv, NEW p \in Procs, CheckStore(p)
    PROVE  ShopInv'
<1>1. /\ stores = <<>> /\ \E i \in DOMAIN applications : applications[i] = "approved"
      /\ UNCHANGED <<menu, user, applications, stores, products, cart, addresses, made, holder, unset>>
  BY DEF CheckStore, Enter, desk, book
<1>2. PICK s \in Slugs : Goes(p, [Idle EXCEPT !.kind = "open", !.slug = s])
  BY DEF CheckStore
<1> DEFINE j == [Idle EXCEPT !.kind = "open", !.slug = s]
<1>3. j \in Job /\ j.kind = "open" /\ j.slug = s /\ j.id = 0
  <2>1. ASSUME NEW r \in Job
        PROVE  LET n == [r EXCEPT !.kind = "open", !.slug = s]
               IN  n \in Job /\ n.kind = "open" /\ n.slug = s /\ n.id = r.id
    BY DEF Job
  <2>2. Idle \in Job /\ Idle.id = 0
    BY IdleJob
  <2> QED BY ONLY <2>1, <2>2
<1>4. Goes(p, j)
  BY <1>2
<1> HIDE DEF j
<1>5. Moves(p, j) /\ job'[p] = j /\ job' \in [Procs -> Job] /\ overlapped' \in BOOLEAN
  BY <1>3, <1>4, Gone DEF Moves
<1>6. j.id <= made /\ "approved" \in ToSet(applications)
  BY <1>1, <1>3, ShopTyped, Among
<1>7. DeskKnows' /\ DeskAlone'
  BY <1>1, <1>3, <1>5, <1>6, DeskRests
<1>8. BookNumbered' /\ BookAlone'
  <2>1. BookCallKnows(p)' /\ made' \in Nat /\ made <= made'
    BY <1>1, <1>3, <1>5, ShopTyped DEF BookCallKnows
  <2> QED BY <1>1, <1>3, <1>5, <1>6, <2>1, BookRests
<1>9. ShopTypeOK'
  BY <1>1, <1>5, ShopTyped DEF ShopTypeOK, Job, Ids
<1> QED BY <1>7, <1>8, <1>9 DEF ShopInv

\* The end of a call at the desk.
LEMMA Ended ==
    ASSUME ShopInv, NEW p \in Procs, Proceeds(p, Idle), job[p].kind # "idle"
    PROVE  /\ Moves(p, Idle) /\ job' \in [Procs -> Job] /\ overlapped' \in BOOLEAN
           /\ overlapped' = overlapped /\ Idle.id <= made /\ BookCallKnows(p)'
           /\ \A q \in Procs : /\ job'[q].kind = "open" => job[q].kind = "open" /\ job'[q] = job[q]
                               /\ job'[q].kind = "submit" => job[q].kind = "submit"
<1>1. Moves(p, Idle)
  BY IdleJob, Proceeded
<1>2. overlapped' = overlapped
  BY DEF Proceeds
<1>3. Idle.id <= made
  BY IdleJob, ShopTyped
<1> QED BY <1>1, <1>2, <1>3, IdleJob DEF Moves, BookCallKnows

LEMMA ApplicationSubmitted ==
    ASSUME ShopInv, NEW p \in Procs, SubmitApplication(p)
    PROVE  ShopInv'
<1> DEFINE last == Len(applications) + 1
<1>1. /\ job[p].kind = "submit" /\ applications' = Append(applications, "pending") /\ Proceeds(p, Idle)
      /\ UNCHANGED <<menu, user, stores, products, cart, addresses, made, holder, unset>>
  BY DEF SubmitApplication, Rest, book
<1>2. /\ Moves(p, Idle) /\ job' \in [Procs -> Job] /\ overlapped' \in BOOLEAN
      /\ overlapped' = overlapped /\ Idle.id <= made /\ BookCallKnows(p)'
      /\ \A q \in Procs : /\ job'[q].kind = "open" => job[q].kind = "open" /\ job'[q] = job[q]
                          /\ job'[q].kind = "submit" => job[q].kind = "submit"
  BY <1>1, Ended
<1>3. BookNumbered' /\ BookAlone'
  <2>1. made' \in Nat /\ made <= made'
    BY <1>1, ShopTyped
  <2> QED BY <1>1, <1>2, <2>1, IdleJob, BookRests
<1>4. /\ applications' \in Seq(ActiveApplication \cup {"rejected"})
      /\ DOMAIN applications' = DOMAIN applications \cup {last} /\ applications'[last] = "pending"
      /\ \A i \in DOMAIN applications : applications'[i] = applications[i]
  BY <1>1, ShopTyped DEF ActiveApplication
<1> HIDE DEF last
<1>5. "approved" \in ToSet(applications') <=> "approved" \in ToSet(applications)
  BY <1>4, Among
<1>6. DeskKnows'
  BY <1>1, <1>2, <1>5, ShopTyped DEF DeskKnows
<1>7. ASSUME ~overlapped PROVE Applying = {} /\ \A q \in Procs : job'[q] = Idle
  BY <1>1, <1>2, <1>7, ShopTyped DEF DeskAlone, DeskCallKnows, Moves
<1>8. ASSUME ~overlapped PROVE Applying' \subseteq {last}
  BY <1>4, <1>7, <1>8 DEF Applying
<1>9. DeskAlone'
  BY <1>1, <1>2, <1>7, <1>8, IdleJob, ShopTyped DEF DeskAlone, DeskCallKnows
<1>10. ShopTypeOK'
  BY <1>1, <1>2, <1>4, ShopTyped DEF ShopTypeOK, Job, Ids
<1> QED BY <1>3, <1>6, <1>9, <1>10 DEF ShopInv

\* A decision on an application, and perhaps the seller's flag with it.
LEMMA Decided ==
    ASSUME ShopInv, NEW i \in DOMAIN applications, applications[i] = "pending",
           NEW verdict \in {"approved", "rejected"},
           applications' = [applications EXCEPT ![i] = verdict],
           user'.is_seller <=> (user.is_seller \/ verdict = "approved"),
           UNCHANGED <<menu, stores, products, cart, addresses, made, holder, unset, job, overlapped>>
    PROVE  ShopInv'
<1>1. /\ applications' \in Seq(ActiveApplication \cup {"rejected"})
      /\ DOMAIN applications' = DOMAIN applications /\ applications'[i] = verdict
      /\ \A k \in DOMAIN applications : k # i => applications'[k] = applications[k]
  BY ShopTyped DEF ActiveApplication
<1>2. "approved" \in ToSet(applications') <=> ("approved" \in ToSet(applications) \/ verdict = "approved")
  BY <1>1, Among
<1>3. Applying' \subseteq Applying
  BY <1>1 DEF Applying, ActiveApplication
<1>4. DeskKnows'
  BY <1>2, ShopTyped DEF DeskKnows
<1>5. DeskAlone'
  BY <1>3, ShopTyped DEF DeskAlone, DeskCallKnows
<1>6. BookNumbered' /\ BookAlone'
  BY BookUntouched
<1>7. ShopTypeOK'
  BY <1>1, ShopTyped DEF ShopTypeOK, Job, Ids
<1> QED BY <1>4, <1>5, <1>6, <1>7 DEF ShopInv

LEMMA Decisions ==
    ASSUME AccountInv, ShopInv, NEW p \in Procs, ApproveApplication(p) \/ RejectApplication(p)
    PROVE  ShopInv'
<1>1. UNCHANGED <<menu, stores, products, cart, addresses, made, holder, unset, job, overlapped>>
  BY DEF ApproveApplication, RejectApplication, Enter, AtOnce, book
<1>2. CASE ApproveApplication(p)
  <2>1. user'.is_seller
    BY <1>2, Known DEF ApproveApplication, MarkSeller, User
  <2> QED BY <1>1, <1>2, <2>1, Decided DEF ApproveApplication
<1>3. CASE RejectApplication(p)
  BY <1>1, <1>3, Decided DEF RejectApplication
<1> QED BY <1>2, <1>3

LEMMA StoreOpened ==
    ASSUME ShopInv, NEW p \in Procs, OpenStore(p)
    PROVE  ShopInv'
<1> DEFINE new == [slug |-> job[p].slug, is_active |-> TRUE]
           last == Len(stores) + 1
<1>1. /\ job[p].kind = "open" /\ Proceeds(p, Idle)
      /\ stores' = IF \E i \in DOMAIN stores : stores[i].slug = job[p].slug
                   THEN stores ELSE Append(stores, new)
      /\ UNCHANGED <<menu, user, applications, products, cart, addresses, made, holder, unset>>
  BY DEF OpenStore, Rest, book
<1>2. /\ Moves(p, Idle) /\ job' \in [Procs -> Job] /\ overlapped' \in BOOLEAN
      /\ overlapped' = overlapped /\ Idle.id <= made /\ BookCallKnows(p)'
      /\ \A q \in Procs : /\ job'[q].kind = "open" => job[q].kind = "open" /\ job'[q] = job[q]
                          /\ job'[q].kind = "submit" => job[q].kind = "submit"
  BY <1>1, Ended
<1>3. BookNumbered' /\ BookAlone'
  <2>1. made' \in Nat /\ made <= made'
    BY <1>1, ShopTyped
  <2> QED BY <1>1, <1>2, <2>1, IdleJob, BookRests
<1>4. "approved" \in ToSet(applications) /\ job[p].slug \in Slugs
  BY <1>1, ShopTyped DEF DeskKnows
<1>5. ASSUME ~overlapped
      PROVE  stores = <<>> /\ Applying' = Applying /\ \A q \in Procs : job'[q] = Idle
  BY <1>1, <1>2, <1>5, ShopTyped DEF DeskAlone, DeskCallKnows, Moves, Applying
<1>6. /\ stores' \in Seq([slug : Slugs, is_active : BOOLEAN])
      /\ \A i, k \in DOMAIN stores' : stores'[i].slug = stores'[k].slug => i = k
      /\ stores # <<>> => stores' # <<>>
      /\ stores = <<>> => Len(stores') <= 1
  <2>1. CASE \E i \in DOMAIN stores : stores[i].slug = job[p].slug
    BY <1>1, <2>1, ShopTyped DEF DeskKnows
  <2>2. CASE ~ \E i \in DOMAIN stores : stores[i].slug = job[p].slug
    <3>1. new \in [slug : Slugs, is_active : BOOLEAN] /\ new.slug = job[p].slug
      BY <1>4
    <3>2. stores' = Append(stores, new) /\ stores \in Seq([slug : Slugs, is_active : BOOLEAN])
      BY <1>1, <2>2, ShopTyped
    <3> HIDE DEF new
    <3>3. /\ stores' \in Seq([slug : Slugs, is_active : BOOLEAN])
          /\ DOMAIN stores' = DOMAIN stores \cup {last} /\ stores'[last] = new
          /\ \A i \in DOMAIN stores : stores'[i] = stores[i]
          /\ Len(stores') = Len(stores) + 1 /\ stores' # <<>>
      BY ONLY <3>1, <3>2
    <3>4. \A i, k \in DOMAIN stores : stores[i].slug = stores[k].slug => i = k
      BY ShopTyped DEF DeskKnows
    <3>5. stores = <<>> => Len(stores) = 0
      OBVIOUS
    <3> HIDE DEF last
    <3>6. \A i, k \in DOMAIN stores' : stores'[i].slug = stores'[k].slug => i = k
      BY ONLY <2>2, <3>1, <3>3, <3>4
    <3> QED BY <3>3, <3>5, <3>6
  <2> QED BY <2>1, <2>2
<1>7. DeskKnows'
  BY <1>1, <1>2, <1>4, <1>6, ShopTyped DEF DeskKnows
<1>8. DeskAlone'
  BY <1>1, <1>2, <1>5, <1>6, IdleJob, ShopTyped DEF DeskAlone, DeskCallKnows
<1>9. ShopTypeOK'
  BY <1>1, <1>2, <1>6, ShopTyped DEF ShopTypeOK, Job, Ids
<1> QED BY <1>3, <1>7, <1>8, <1>9 DEF ShopInv

LEMMA StoreUpdated ==
    ASSUME ShopInv, NEW p \in Procs, UpdateStore(p)
    PROVE  ShopInv'
<1> DEFINE Store == [slug : Slugs, is_active : BOOLEAN]
           a == ~MyStore.is_active
           new == [stores[1] EXCEPT !.is_active = a]
<1>1. /\ stores # <<>> /\ stores' = [stores EXCEPT ![1] = new]
      /\ UNCHANGED <<menu, user, applications, products, cart, addresses, made, holder, unset,
                     job, overlapped>>
  BY DEF UpdateStore, Enter, AtOnce, book
<1>2. stores \in Seq(Store) /\ a \in BOOLEAN
  BY ShopTyped
<1> HIDE DEF a
<1>3. 1 \in DOMAIN stores /\ stores[1] \in Store
  <2>1. stores # <<>> /\ stores \in Seq(Store)
    BY <1>1, <1>2
  <2> HIDE DEF new, Store
  <2>2. DOMAIN stores = 1..Len(stores) /\ Len(stores) \in Nat /\ Len(stores) # 0
    BY ONLY <2>1
  <2> QED BY ONLY <2>1, <2>2
<1>4. new \in Store /\ new.slug = stores[1].slug
  <2>1. ASSUME NEW row \in Store
        PROVE  LET n == [row EXCEPT !.is_active = a] IN n \in Store /\ n.slug = row.slug
    BY <1>2
  <2> QED BY ONLY <1>3, <2>1
<1> HIDE DEF new, Store
<1>5. /\ stores' \in Seq(Store)
      /\ DOMAIN stores' = DOMAIN stores
      /\ stores' # <<>> /\ Len(stores') = Len(stores)
      /\ \A i \in DOMAIN stores : stores'[i].slug = stores[i].slug
  BY ONLY <1>1, <1>2, <1>3, <1>4
<1>6. DeskKnows'
  BY <1>1, <1>5, ShopTyped DEF DeskKnows
<1>7. DeskAlone'
  <2>1. \A q \in Procs : job[q].kind = "open" => (stores = <<>> => stores' = <<>>)
    BY <1>1
  <2> QED BY <1>1, <1>5, ShopTyped DEF DeskAlone, DeskCallKnows, Applying
<1>8. BookNumbered' /\ BookAlone'
  BY <1>1, BookUntouched
<1>9. ShopTypeOK'
  BY <1>1, <1>5, ShopTyped DEF ShopTypeOK, Job, Ids, Store
<1> QED BY <1>6, <1>7, <1>8, <1>9 DEF ShopInv

LEMMA CatalogWritten ==
    ASSUME ShopInv, NEW p \in Procs,
           \/ CreateProduct(p) \/ UpdateProduct(p) \/ ArchiveProduct(p)
           \/ AddToCart(p) \/ RemoveFromCart(p)
    PROVE  ShopInv'
<1>1. UNCHANGED <<menu, user, applications, stores, addresses, made, holder, unset, job, overlapped>>
  BY DEF CreateProduct, UpdateProduct, ArchiveProduct, AddToCart, RemoveFromCart, Enter, AtOnce,
         desk, book
<1>2. /\ products' \in [Products -> {Absent, "draft", "active", "archived"}] /\ cart' \subseteq Products
      /\ \A x \in Products : products'[x] # Absent => stores # <<>>
      /\ \A x \in cart' : products'[x] # Absent
  BY ShopTyped DEF CreateProduct, UpdateProduct, ArchiveProduct, AddToCart, RemoveFromCart, Found,
         CartListed, DeskKnows, Absent
<1>3. DeskKnows'
  BY <1>1, <1>2, ShopTyped DEF DeskKnows
<1>4. DeskAlone'
  BY <1>1, ShopTyped DEF DeskAlone, DeskCallKnows, Applying
<1>5. BookNumbered' /\ BookAlone'
  BY <1>1, BookUntouched
<1>6. ShopTypeOK'
  BY <1>1, <1>2, ShopTyped DEF ShopTypeOK, Job, Ids
<1> QED BY <1>3, <1>4, <1>5, <1>6 DEF ShopInv

-----------------------------------------------------------------------------
(* The shop: the address book *)

LEMMA FirstChecked ==
    ASSUME ShopInv, NEW p \in Procs, CheckFirst(p)
    PROVE  ShopInv'
<1>1. UNCHANGED <<menu, user, applications, stores, products, cart, addresses, made, holder, unset>>
  BY DEF CheckFirst, Enter, desk, book
<1>2. PICK flag \in BOOLEAN :
        Goes(p, [Idle EXCEPT !.kind = "insert", !.flag = (flag \/ Stored = {})])
  BY DEF CheckFirst
<1> DEFINE f == flag \/ Stored = {}
           j == [Idle EXCEPT !.kind = "insert", !.flag = f]
<1>3. f \in BOOLEAN /\ (~f => Stored # {}) /\ Goes(p, j)
  BY <1>2
<1> HIDE DEF f
<1>4. j \in Job /\ j.kind = "insert" /\ j.flag = f /\ j.id = 0
  <2>1. ASSUME NEW r \in Job
        PROVE  LET n == [r EXCEPT !.kind = "insert", !.flag = f]
               IN  n \in Job /\ n.kind = "insert" /\ n.flag = f /\ n.id = r.id
    BY <1>3 DEF Job
  <2>2. Idle \in Job /\ Idle.id = 0
    BY IdleJob
  <2> QED BY ONLY <2>1, <2>2
<1> HIDE DEF j
<1>5. Moves(p, j) /\ job'[p] = j /\ job' \in [Procs -> Job] /\ overlapped' \in BOOLEAN
  BY <1>3, <1>4, Gone DEF Moves
<1>6. j.id <= made /\ made <= made
  BY <1>4, ShopTyped
<1>7. DeskKnows' /\ DeskAlone'
  BY <1>1, <1>4, <1>5, DeskRests
<1>8. BookCallKnows(p)'
  BY <1>1, <1>3, <1>4, <1>5 DEF BookCallKnows, Stored
<1>9. BookNumbered' /\ BookAlone'
  BY <1>1, <1>4, <1>5, <1>6, <1>8, ShopTyped, BookRests
<1>10. ShopTypeOK'
  BY <1>1, <1>5, ShopTyped DEF ShopTypeOK, Job, Ids
<1> QED BY <1>7, <1>9, <1>10 DEF ShopInv

LEMMA AddressInserted ==
    ASSUME ShopInv, NEW p \in Procs, InsertAddress(p)
    PROVE  ShopInv'
<1> DEFINE id == made + 1
           j == [job[p] EXCEPT !.kind = "scan", !.id = id]
<1>1. /\ job[p].kind = "insert" /\ made < MaxAddresses /\ made' = id
      /\ holder' = [holder EXCEPT ![id] = p] /\ Proceeds(p, j)
      /\ UNCHANGED <<menu, user, applications, stores, products, cart, addresses, unset>>
  BY DEF InsertAddress, Rest, desk
<1>2. id \in Ids /\ id \in Nat /\ made < id /\ id # 0 /\ made \in Nat
  BY <1>1, ShopTyped DEF Ids
<1>3. job[p] \in Job
  BY ShopTyped
<1> HIDE DEF id
<1>4. j \in Job /\ j.kind = "scan" /\ j.id = id /\ j.flag = job[p].flag
  <2>1. ASSUME NEW r \in Job
        PROVE  LET n == [r EXCEPT !.kind = "scan", !.id = id]
               IN  n \in Job /\ n.kind = "scan" /\ n.id = id /\ n.flag = r.flag
    BY <1>2 DEF Job
  <2> QED BY ONLY <1>3, <2>1
<1> HIDE DEF j
<1>5. Moves(p, j) /\ job'[p] = j /\ job' \in [Procs -> Job] /\ overlapped' \in BOOLEAN
  BY <1>1, <1>4, Proceeded DEF Moves
<1>6. DeskKnows' /\ DeskAlone'
  BY <1>1, <1>4, <1>5, DeskRests
<1>7. ~overlapped' => BookCallKnows(p)'
  <2>1. id \notin Defaults
    BY <1>2, ShopTyped DEF BookNumbered, Stored, Defaults, Absent
  <2>2. ~overlapped' => BookCallKnows(p)
    BY <1>5, ShopTyped DEF BookAlone, Moves
  <2>3. Defaults' = Defaults /\ Stored' = Stored
    BY <1>1 DEF Stored, Defaults
  <2> QED BY <1>1, <1>4, <1>5, <2>1, <2>2, <2>3 DEF BookCallKnows
<1>8. made' \in Nat /\ made <= made' /\ j.id <= made'
  BY <1>1, <1>2, <1>4
<1>9. BookNumbered' /\ BookAlone'
  BY <1>1, <1>2, <1>4, <1>5, <1>7, <1>8, BookRests
<1>10. ShopTypeOK'
  <2>1. made' \in {0} \cup Ids /\ holder' \in [Ids -> Procs \cup {Nobody}]
    BY <1>1, <1>2, ShopTyped
  <2> QED BY <1>1, <1>5, <2>1, ShopTyped DEF ShopTypeOK, Job, Ids
<1> QED BY <1>6, <1>9, <1>10 DEF ShopInv

LEMMA RowLocked ==
    ASSUME ShopInv, NEW p \in Procs, LockForUpdate(p) \/ LockForDelete(p)
    PROVE  ShopInv'
<1>1. UNCHANGED <<menu, user, applications, stores, products, cart, addresses, made>>
  BY DEF LockForUpdate, LockForDelete, Enter, desk
<1>2. PICK a \in Stored, flag \in BOOLEAN, kind \in {"scan", "promote"} :
        /\ Goes(p, [Idle EXCEPT !.kind = kind, !.id = a, !.flag = flag])
        /\ holder' = [holder EXCEPT ![a] = p]
        /\ kind = "scan" => unset' = (unset \/ (addresses[a] = "default" /\ ~flag))
        /\ kind = "promote" => unset' = unset /\ flag = (addresses[a] = "default")
  <2>1. CASE LockForUpdate(p)
    <3>1. PICK a \in Stored, given \in {{}, {TRUE}, {FALSE}} :
            /\ holder' = [holder EXCEPT ![a] = p]
            /\ LET flag == IF given = {} THEN addresses[a] = "default" ELSE TRUE \in given
               IN  /\ Goes(p, [Idle EXCEPT !.kind = "scan", !.id = a, !.flag = flag])
                   /\ unset' = (unset \/ (addresses[a] = "default" /\ ~flag))
      BY <2>1 DEF LockForUpdate
    <3> DEFINE flag == IF given = {} THEN addresses[a] = "default" ELSE TRUE \in given
    <3>2. flag \in BOOLEAN
      <4>1. (addresses[a] = "default") \in BOOLEAN /\ (TRUE \in given) \in BOOLEAN
        OBVIOUS
      <4> QED BY <4>1
    <3> QED BY <3>1, <3>2
  <2>2. CASE LockForDelete(p)
    <3>1. PICK a \in Stored :
            /\ holder' = [holder EXCEPT ![a] = p]
            /\ Goes(p, [Idle EXCEPT !.kind = "promote", !.id = a,
                                    !.flag = (addresses[a] = "default")])
      BY <2>2 DEF LockForDelete
    <3>2. (addresses[a] = "default") \in BOOLEAN /\ unset' = unset
      BY <2>2 DEF LockForDelete
    <3> QED BY <3>1, <3>2
  <2> QED BY <2>1, <2>2
<1> DEFINE j == [Idle EXCEPT !.kind = kind, !.id = a, !.flag = flag]
<1>3. a \in Ids /\ a \in 1..made /\ (a \in Defaults <=> addresses[a] = "default")
  BY <1>2, ShopTyped DEF Stored, Defaults, BookNumbered
<1>4. j \in Job /\ j.kind = kind /\ j.id = a /\ j.flag = flag
  <2>1. ASSUME NEW r \in Job
        PROVE  LET n == [r EXCEPT !.kind = kind, !.id = a, !.flag = flag]
               IN  n \in Job /\ n.kind = kind /\ n.id = a /\ n.flag = flag
    BY <1>2, <1>3 DEF Job
  <2>2. Idle \in Job
    BY IdleJob
  <2> QED BY ONLY <2>1, <2>2
<1>5. Goes(p, j)
  BY <1>2
<1> HIDE DEF j
<1>6. Moves(p, j) /\ job'[p] = j /\ job' \in [Procs -> Job] /\ overlapped' \in BOOLEAN
  BY <1>4, <1>5, Gone DEF Moves
<1>7. DeskKnows' /\ DeskAlone'
  BY <1>1, <1>2, <1>4, <1>6, DeskRests
<1>8. BookCallKnows(p)'
  <2>1. Defaults' = Defaults /\ Stored' = Stored
    BY <1>1 DEF Stored, Defaults
  <2>2. CASE kind = "scan"
    BY <1>2, <1>3, <1>4, <1>6, <2>1, <2>2 DEF BookCallKnows
  <2>3. CASE kind = "promote"
    BY <1>2, <1>3, <1>4, <1>6, <2>1, <2>3 DEF BookCallKnows
  <2> QED BY <1>2, <2>2, <2>3
<1>9. made' \in Nat /\ made <= made' /\ j.id <= made' /\ j.id # 0
  BY <1>1, <1>3, <1>4, ShopTyped
<1>10. unset' \in BOOLEAN /\ (unset => unset')
  <2>1. CASE kind = "scan"
    <3>1. unset' = (unset \/ (addresses[a] = "default" /\ ~flag))
      BY <1>2, <2>1
    <3> QED BY ONLY <3>1
  <2>2. CASE kind = "promote"
    <3>1. unset' = unset /\ unset \in BOOLEAN
      BY <1>2, <2>2, ShopTyped
    <3> QED BY ONLY <3>1
  <2> QED BY <1>2, <2>1, <2>2
<1>11. BookNumbered' /\ BookAlone'
  BY <1>1, <1>6, <1>4, <1>8, <1>9, <1>10, BookRests
<1>12. ShopTypeOK'
  <2>1. holder' \in [Ids -> Procs \cup {Nobody}]
    BY <1>2, <1>3, ShopTyped
  <2> QED BY <1>1, <1>6, <1>10, <2>1, ShopTyped DEF ShopTypeOK, Job, Ids
<1> QED BY <1>7, <1>11, <1>12 DEF ShopInv

LEMMA DefaultsScanned ==
    ASSUME ShopInv, NEW p \in Procs, ScanDefaults(p)
    PROVE  ShopInv'
<1> DEFINE wants == IF job[p].flag THEN Defaults \ {job[p].id} ELSE {}
           j == [job[p] EXCEPT !.kind = "unset_others", !.wants = wants]
<1>1. /\ job[p].kind = "scan" /\ Proceeds(p, j)
      /\ UNCHANGED <<menu, user, applications, stores, products, cart, addresses, made, holder, unset>>
  BY DEF ScanDefaults, Rest, desk, book
<1>2. wants \in SUBSET Ids /\ wants = (IF job[p].flag THEN Defaults \ {job[p].id} ELSE {})
  BY DEF Defaults
<1>3. job[p] \in Job
  BY ShopTyped
<1> HIDE DEF wants
<1>4. j \in Job /\ j.kind = "unset_others" /\ j.id = job[p].id /\ j.flag = job[p].flag /\ j.wants = wants
  <2>1. ASSUME NEW r \in Job
        PROVE  LET n == [r EXCEPT !.kind = "unset_others", !.wants = wants]
               IN  n \in Job /\ n.kind = "unset_others" /\ n.id = r.id /\ n.flag = r.flag /\ n.wants = wants
    BY <1>2 DEF Job
  <2> QED BY ONLY <1>3, <2>1
<1> HIDE DEF j
<1>5. Moves(p, j) /\ job'[p] = j /\ job' \in [Procs -> Job] /\ overlapped' \in BOOLEAN
  BY <1>1, <1>4, Proceeded DEF Moves
<1>6. DeskKnows' /\ DeskAlone'
  BY <1>1, <1>4, <1>5, DeskRests
<1>7. ~overlapped' => BookCallKnows(p)'
  <2>1. ~overlapped' => BookCallKnows(p)
    BY <1>5, ShopTyped DEF BookAlone, Moves
  <2>2. Defaults' = Defaults /\ Stored' = Stored
    BY <1>1 DEF Stored, Defaults
  <2> QED BY <1>1, <1>2, <1>4, <1>5, <2>1, <2>2 DEF BookCallKnows
<1>8. made' \in Nat /\ made <= made' /\ j.id <= made' /\ j.id # 0 /\ j.id \notin j.wants
  BY <1>1, <1>2, <1>4, ShopTyped DEF BookNumbered
<1>9. BookNumbered' /\ BookAlone'
  BY <1>1, <1>4, <1>5, <1>7, <1>8, BookRests
<1>10. ShopTypeOK'
  BY <1>1, <1>5, ShopTyped DEF ShopTypeOK, Job, Ids
<1> QED BY <1>6, <1>9, <1>10 DEF ShopInv

LEMMA DefaultLocked ==
    ASSUME ShopInv, NEW p \in Procs, LockDefault(p)
    PROVE  ShopInv'
<1>1. UNCHANGED <<menu, user, applications, stores, products, cart, addresses, made, unset,
                  job, overlapped>>
  BY DEF LockDefault, Rest, desk
<1>2. holder' \in [Ids -> Procs \cup {Nobody}]
  BY ShopTyped DEF LockDefault
<1>3. ShopTypeOK'
  BY <1>1, <1>2, ShopTyped DEF ShopTypeOK, Job, Ids
<1> QED BY <1>1, <1>3, DeskUntouched, BookUntouched DEF ShopInv

\* The end of a call at the address book, whatever it wrote there.
LEMMA BookEnds ==
    ASSUME ShopInv, NEW p \in Procs, Proceeds(p, Idle), job[p].kind # "idle", holder' = Released(p),
           UNCHANGED <<menu, user, applications, stores, products, cart, made, unset>>,
           addresses' \in [Ids -> {Absent, "plain", "default"}], Stored' \subseteq 1..made,
           ~overlapped => /\ \A a, b \in Defaults' : a = b
                          /\ Stored' # {} /\ ~unset => Defaults' # {}
    PROVE  ShopInv'
<1>1. Moves(p, Idle) /\ job' \in [Procs -> Job] /\ overlapped' = overlapped /\ Idle.id <= made
      /\ overlapped' \in BOOLEAN
  BY Ended
<1>2. DeskKnows' /\ DeskAlone'
  BY <1>1, IdleJob, DeskRests
<1>3. \A q \in Procs : /\ job'[q].id <= made
                       /\ job'[q].kind \in {"scan", "unset_others", "promote"} => job'[q].id # 0
                       /\ job'[q].kind = "unset_others" => job'[q].id \notin job'[q].wants
  BY <1>1, IdleJob, ShopTyped DEF Moves, BookNumbered
<1>4. ~overlapped => \A q \in Procs : BookCallKnows(q)'
  BY <1>1, IdleJob DEF Moves, BookCallKnows
<1>5. BookNumbered' /\ BookAlone'
  BY <1>1, <1>3, <1>4 DEF BookNumbered, BookAlone
<1>6. holder' \in [Ids -> Procs \cup {Nobody}]
  BY ShopTyped DEF Released
<1>7. ShopTypeOK'
  BY <1>1, <1>6, ShopTyped DEF ShopTypeOK, Job, Ids
<1> QED BY <1>2, <1>5, <1>7 DEF ShopInv

LEMMA AddressCommitted ==
    ASSUME ShopInv, NEW p \in Procs, CommitAddress(p)
    PROVE  ShopInv'
<1> DEFINE j == job[p]
<1>1. /\ j.kind = "unset_others" /\ Proceeds(p, Idle) /\ holder' = Released(p)
      /\ addresses' = [a \in Ids |->
           CASE a = j.id                                    -> IF j.flag THEN "default" ELSE "plain"
             [] a \in j.wants /\ addresses[a] = "default"   -> "plain"
             [] OTHER                                       -> addresses[a]]
      /\ UNCHANGED <<menu, user, applications, stores, products, cart, made, unset>>
  BY DEF CommitAddress, Rest, desk
<1>2. /\ j \in Job /\ j.id \in Ids /\ j.id <= made /\ made \in Nat /\ j.flag \in BOOLEAN
      /\ j.wants \in SUBSET Ids /\ addresses \in [Ids -> {Absent, "plain", "default"}]
      /\ Stored \subseteq 1..made /\ j.id \notin j.wants
  BY <1>1, ShopTyped, JobColumns DEF BookNumbered
<1>3. ~overlapped => /\ BookCallKnows(p) /\ \A a, b \in Defaults : a = b
                     /\ Stored # {} /\ ~unset => Defaults # {}
  BY ShopTyped DEF BookAlone
<1> HIDE DEF j
<1>4. /\ DOMAIN addresses' = Ids /\ addresses'[j.id] = IF j.flag THEN "default" ELSE "plain"
      /\ \A a \in Ids : a # j.id =>
            addresses'[a] = IF a \in j.wants /\ addresses[a] = "default" THEN "plain" ELSE addresses[a]
  <2>1. addresses' = [a \in Ids |->
           CASE a = j.id                                    -> IF j.flag THEN "default" ELSE "plain"
             [] a \in j.wants /\ addresses[a] = "default"   -> "plain"
             [] OTHER                                       -> addresses[a]]
    BY <1>1
  <2> DEFINE g(a) == CASE a = j.id                                    -> IF j.flag THEN "default" ELSE "plain"
                       [] a \in j.wants /\ addresses[a] = "default"   -> "plain"
                       [] OTHER                                       -> addresses[a]
  <2>2. /\ DOMAIN addresses' = Ids /\ \A a \in Ids : addresses'[a] = g(a)
    BY <2>1
  <2>3. ASSUME NEW a \in Ids, a # j.id
        PROVE  g(a) = IF a \in j.wants /\ addresses[a] = "default" THEN "plain" ELSE addresses[a]
    BY ONLY <2>3
  <2>4. g(j.id) = IF j.flag THEN "default" ELSE "plain"
    BY <1>2
  <2> HIDE DEF g
  <2> QED BY ONLY <1>2, <2>2, <2>3, <2>4
<1>5. addresses' \in [Ids -> {Absent, "plain", "default"}]
  <2>1. \A a \in Ids : addresses'[a] \in {Absent, "plain", "default"}
    BY <1>2, <1>4
  <2>2. addresses' = [a \in Ids |-> addresses'[a]]
    BY <1>1
  <2> QED BY <2>1, <2>2
<1>6. Stored' = Stored \cup {j.id}
  BY <1>2, <1>4 DEF Stored, Absent
<1>7. Stored' \subseteq 1..made
  <2>1. j.id \in 1..made
    BY <1>2 DEF Ids
  <2> QED BY <1>2, <1>6, <2>1
<1>8. ASSUME ~overlapped
      PROVE  /\ \A a, b \in Defaults' : a = b
             /\ Stored' # {} /\ ~unset => Defaults' # {}
  <2>1. CASE j.flag
    <3>1. j.wants = Defaults \ {j.id}
      BY <1>1, <1>3, <1>8, <2>1 DEF BookCallKnows, j
    <3>2. Defaults' = {j.id}
      BY <1>2, <1>4, <2>1, <3>1 DEF Defaults
    <3> QED BY <3>2
  <2>2. CASE ~j.flag
    <3>1. j.wants = {} /\ Stored # {} /\ (j.id \in Defaults => unset)
      BY <1>1, <1>3, <1>8, <2>2 DEF BookCallKnows, j
    <3>2. Defaults' = Defaults \ {j.id}
      BY <1>2, <1>4, <2>2, <3>1 DEF Defaults
    <3> QED BY <1>3, <1>8, <3>1, <3>2
  <2> QED BY <1>2, <2>1, <2>2
<1> QED BY <1>1, <1>5, <1>7, <1>8, BookEnds DEF j

\* Of finitely many rows one is the newest.
LEMMA NewestOne ==
    ASSUME NEW p \in Procs, MaxAddresses \in Nat
    PROVE  /\ Newest(p) \subseteq Stored \ {job[p].id} /\ \A a, b \in Newest(p) : a = b
           /\ Stored \ {job[p].id} # {} => Newest(p) # {}
<1> DEFINE S == Stored \ {job[p].id}
<1>1. S \subseteq 1..MaxAddresses
  BY DEF Stored, Ids
<1>2. Newest(p) = {a \in S : \A b \in S : b <= a}
  BY DEF Newest
<1>3. S # {} => \E a \in S : \A b \in S : b <= a
  <2> SUFFICES ASSUME S # {} PROVE \E a \in S : \A b \in S : b <= a
    OBVIOUS
  <2> DEFINE T == {MaxAddresses - a : a \in S}
  <2>1. T \subseteq Nat /\ T # {}
    BY <1>1
  <2>2. PICK x \in T : \A y \in T : x <= y
    BY <2>1, Least
  <2>3. PICK a \in S : x = MaxAddresses - a
    BY <2>2
  <2>4. ASSUME NEW b \in S PROVE b <= a
    <3>1. MaxAddresses - b \in T
      OBVIOUS
    <3>2. MaxAddresses - a <= MaxAddresses - b
      BY <2>2, <2>3, <3>1
    <3>3. a \in Int /\ b \in Int
      BY <1>1
    <3> QED BY <3>2, <3>3
  <2> QED BY <2>4
<1> HIDE DEF S
<1>4. ASSUME NEW a \in Newest(p), NEW b \in Newest(p) PROVE a = b
  <2>1. a <= b /\ b <= a /\ a \in S /\ b \in S
    BY <1>2
  <2>2. a \in Int /\ b \in Int
    BY <1>1, <2>1
  <2> QED BY ONLY <2>1, <2>2
<1> QED BY <1>2, <1>3, <1>4 DEF S

LEMMA NewestPromoted ==
    ASSUME ShopInv, NEW p \in Procs, PromoteNewest(p)
    PROVE  ShopInv'
<1> DEFINE id == job[p].id
           next == IF job[p].flag THEN Newest(p) ELSE {}
<1>1. /\ job[p].kind = "promote" /\ Proceeds(p, Idle) /\ holder' = Released(p)
      /\ addresses' = [a \in Ids |-> CASE a = id    -> Absent
                                       [] a \in next -> "default"
                                       [] OTHER     -> addresses[a]]
      /\ UNCHANGED <<menu, user, applications, stores, products, cart, made, unset>>
  BY DEF PromoteNewest, Rest, desk
<1>2. /\ addresses \in [Ids -> {Absent, "plain", "default"}] /\ job[p].flag \in BOOLEAN
      /\ Stored \subseteq 1..made /\ MaxAddresses \in Nat
  BY ShopTyped, JobColumns DEF BookNumbered
<1>3. ~overlapped => /\ \A a, b \in Defaults : a = b
                     /\ Stored # {} /\ ~unset => Defaults # {}
                     /\ id \in Stored /\ (job[p].flag <=> id \in Defaults)
  BY <1>1, ShopTyped DEF BookAlone, BookCallKnows
<1>4. /\ next \subseteq Stored \ {id} /\ \A a, b \in next : a = b
      /\ job[p].flag /\ Stored \ {id} # {} => next # {}
      /\ ~job[p].flag => next = {}
  BY <1>2, NewestOne
<1> HIDE DEF id, next
<1>5. /\ DOMAIN addresses' = Ids /\ (id \in Ids => addresses'[id] = Absent)
      /\ \A a \in Ids : a # id =>
            addresses'[a] = IF a \in next THEN "default" ELSE addresses[a]
  <2>1. addresses' = [a \in Ids |-> CASE a = id    -> Absent
                                     [] a \in next -> "default"
                                     [] OTHER     -> addresses[a]]
    BY <1>1
  <2> DEFINE g(a) == CASE a = id    -> Absent
                       [] a \in next -> "default"
                       [] OTHER     -> addresses[a]
  <2>2. /\ DOMAIN addresses' = Ids /\ \A a \in Ids : addresses'[a] = g(a)
    BY <2>1
  <2>3. ASSUME NEW a \in Ids, a # id
        PROVE  g(a) = IF a \in next THEN "default" ELSE addresses[a]
    BY ONLY <2>3
  <2>4. g(id) = Absent
    BY <1>4
  <2> HIDE DEF g
  <2> QED BY ONLY <2>2, <2>3, <2>4
<1>6. addresses' \in [Ids -> {Absent, "plain", "default"}]
  <2>1. \A a \in Ids : addresses'[a] \in {Absent, "plain", "default"}
    BY <1>2, <1>5
  <2>2. addresses' = [a \in Ids |-> addresses'[a]]
    BY <1>1
  <2> QED BY <2>1, <2>2
<1>7. Stored' = Stored \ {id} /\ Defaults' = (Defaults \ {id}) \cup next
  BY <1>4, <1>5 DEF Stored, Defaults, Absent
<1>8. Stored' \subseteq 1..made
  BY <1>2, <1>7
<1>9. ASSUME ~overlapped
      PROVE  /\ \A a, b \in Defaults' : a = b
             /\ Stored' # {} /\ ~unset => Defaults' # {}
  <2>1. CASE job[p].flag
    <3>1. Defaults \ {id} = {}
      BY <1>3, <1>9, <2>1
    <3> QED BY <1>4, <1>7, <2>1, <3>1
  <2>2. CASE ~job[p].flag
    <3>1. Defaults' = Defaults /\ Stored # {}
      BY <1>3, <1>4, <1>7, <1>9, <2>2
    <3> QED BY <1>3, <1>9, <3>1
  <2> QED BY <2>1, <2>2
<1> QED BY <1>1, <1>6, <1>8, <1>9, BookEnds

LEMMA DeadlockAborted ==
    ASSUME ShopInv, NEW p \in Procs, AbortDeadlock(p)
    PROVE  ShopInv'
<1>1. /\ Proceeds(p, Idle) /\ holder' = Released(p) /\ Awaited(p) # {}
      /\ UNCHANGED <<menu, user, applications, stores, products, cart, addresses, made, unset>>
  BY DEF AbortDeadlock, Rest, desk
<1>2. job[p].kind # "idle"
  BY <1>1 DEF Awaited
<1>3. Stored' = Stored /\ Defaults' = Defaults
  BY <1>1 DEF Stored, Defaults
<1>4. /\ addresses' \in [Ids -> {Absent, "plain", "default"}] /\ Stored' \subseteq 1..made
      /\ ~overlapped => /\ \A a, b \in Defaults' : a = b
                        /\ Stored' # {} /\ ~unset => Defaults' # {}
  BY <1>1, <1>3, ShopTyped DEF BookNumbered, BookAlone
<1> QED BY <1>1, <1>2, <1>4, BookEnds

-----------------------------------------------------------------------------
(* The account's own steps leave the seller's flag *)

LEMMA SaveLeavesSeller ==
    ASSUME user \in User, NEW row, NEW columns, "is_seller" \notin columns, Save(row, columns)
    PROVE  user'.is_seller = user.is_seller
<1>1. "is_seller" \in DOMAIN user
  BY UserColumns
<1> QED BY <1>1 DEF Save

LEMMA RegisterLeavesSeller ==
    ASSUME AccountInv, NEW p \in Procs, Register(p) \/ Provision(p) \/ Deactivate
    PROVE  user'.is_seller = user.is_seller
<1>1. user \in User /\ (~user.registered => user = NoUser) /\ NoUser \in User
  BY Known, NoUserTyped
<1>2. CASE Register(p)
  <2>1. PICK w \in Values : user' = [NoUser EXCEPT !.registered = TRUE, !.password = w]
    BY <1>2 DEF Register
  <2>2. ASSUME NEW row \in User
        PROVE  [row EXCEPT !.registered = TRUE, !.password = w].is_seller = row.is_seller
    BY DEF User
  <2>3. user = NoUser
    BY <1>1, <1>2 DEF Register
  <2> QED BY ONLY <1>1, <2>1, <2>2, <2>3
<1>3. CASE Provision(p)
  <2>1. PICK done \in BOOLEAN : user' = [user EXCEPT !.wallets = done]
    BY <1>3 DEF Provision, CreateWallets
  <2> QED BY <1>1, <2>1 DEF User
<1>4. CASE Deactivate
  BY <1>1, <1>4 DEF Deactivate, User
<1> QED BY <1>2, <1>3, <1>4

LEMMA WritesLeaveSeller ==
    ASSUME AccountInv, NEW p \in Procs,
           \/ Rehash(p) \/ WriteChange(p) \/ WriteReset(p) \/ WriteVerify(p) \/ WriteSetup(p)
           \/ WriteEnable(p) \/ WriteDisable(p) \/ WriteProfile(p)
    PROVE  user'.is_seller = user.is_seller
<1>1. user \in User
  BY Known
<1>2. CASE WriteProfile(p)
  <2>1. "is_seller" \notin {pc[p]}
    BY <1>2 DEF WriteProfile, ProfileColumns
  <2> QED BY <1>1, <1>2, <2>1, SaveLeavesSeller DEF WriteProfile
<1>3. CASE Rehash(p) \/ WriteChange(p) \/ WriteReset(p)
  <2>1. "is_seller" \notin {"password", "legacy"}
    OBVIOUS
  <2>2. \E row : Save(row, {"password", "legacy"})
    BY <1>3 DEF Rehash, WriteChange, WriteReset
  <2> QED BY <1>1, <2>1, <2>2, SaveLeavesSeller
<1>4. CASE WriteVerify(p)
  <2>1. "is_seller" \notin {"email_verified"}
    OBVIOUS
  <2>2. UNCHANGED user \/ \E row : Save(row, {"email_verified"})
    BY <1>4 DEF WriteVerify
  <2> QED BY <1>1, <2>1, <2>2, SaveLeavesSeller
<1>5. CASE WriteSetup(p) \/ WriteEnable(p) \/ WriteDisable(p)
  <2>1. \E row, columns : Save(row, columns) /\ "is_seller" \notin columns
    <3>1. CASE WriteSetup(p)
      <4>1. "is_seller" \notin {"totp_secret"}
        OBVIOUS
      <4> QED BY <3>1, <4>1 DEF WriteSetup
    <3>2. CASE WriteEnable(p)
      <4>1. "is_seller" \notin {"two_factor_enabled"}
        OBVIOUS
      <4> QED BY <3>2, <4>1 DEF WriteEnable
    <3>3. CASE WriteDisable(p)
      <4>1. "is_seller" \notin {"two_factor_enabled", "totp_secret"}
        OBVIOUS
      <4> QED BY <3>3, <4>1 DEF WriteDisable
    <3> QED BY <1>5, <3>1, <3>2, <3>3
  <2> QED BY <1>1, <2>1, SaveLeavesSeller
<1> QED BY <1>2, <1>3, <1>4, <1>5

LEMMA SellerStays ==
    ASSUME AccountInv,
           AccountNext \/ RecordsNext \/ (\E p \in Procs : ReadProfile(p) \/ WriteProfile(p))
    PROVE  user'.is_seller = user.is_seller
<1>1. ASSUME NEW p \in Procs,
             \/ Register(p) \/ Provision(p) \/ CrashInRegister(p)
             \/ ReadLogin(p) \/ Rehash(p) \/ OpenSession(p)
             \/ Refresh(p) \/ RefreshFails(p) \/ Logout(p) \/ RevokeSession(p)
             \/ ReadChange(p) \/ WriteChange(p)
             \/ RequestReset(p) \/ ReadReset(p) \/ WriteReset(p)
             \/ RequestVerification(p) \/ ReadVerify(p) \/ WriteVerify(p)
             \/ ReadSetup(p) \/ WriteSetup(p) \/ ReadEnable(p) \/ WriteEnable(p)
             \/ ReadDisable(p) \/ WriteDisable(p) \/ ReadProfile(p) \/ WriteProfile(p)
      PROVE  user'.is_seller = user.is_seller
  <2>1. \/ UNCHANGED user
        \/ Register(p) \/ Provision(p)
        \/ Rehash(p) \/ WriteChange(p) \/ WriteReset(p) \/ WriteVerify(p) \/ WriteSetup(p)
        \/ WriteEnable(p) \/ WriteDisable(p) \/ WriteProfile(p)
    BY <1>1 DEF CrashInRegister, ReadLogin, OpenSession, Refresh, RefreshFails, Logout, RevokeSession,
                ReadChange, RequestReset, ReadReset, RequestVerification, ReadVerify, ReadSetup,
                ReadEnable, ReadDisable, ReadProfile
  <2> QED BY <2>1, RegisterLeavesSeller, WritesLeaveSeller
<1>2. ASSUME NEW t \in DOMAIN tokens, Expire(t) PROVE user'.is_seller = user.is_seller
  BY <1>2 DEF Expire
<1>3. CASE Deactivate
  <2>1. user \in User
    BY Known
  <2> QED BY <1>3, <2>1 DEF Deactivate, User
<1>4. CASE RecordsNext
  BY <1>4 DEF RecordsNext, UpdatePreferences, UpdateCreatorProfile, ReadKycUpdate, WriteKycUpdate,
              UploadDocument, ReadKycSubmit, WriteKycSubmit, Review
<1> QED BY <1>1, <1>2, <1>3, <1>4 DEF AccountNext

LEMMA AccountMoves ==
    ASSUME ShopInv, UNCHANGED svars, user'.is_seller = user.is_seller
    PROVE  ShopInv'
<1>1. UNCHANGED <<menu, applications, stores, products, cart, addresses, made, holder, unset,
                  job, overlapped>>
  BY DEF svars
<1>2. ShopTypeOK'
  BY <1>1, ShopTyped DEF ShopTypeOK, Job, Ids
<1> QED BY <1>1, <1>2, DeskUntouched, BookUntouched DEF ShopInv

-----------------------------------------------------------------------------
(* The theorems about the shop *)

LEMMA ShopInvInit == ShopInit => ShopInv
<1> SUFFICES ASSUME ShopInit PROVE ShopInv
  OBVIOUS
<1>1. /\ menu \in Menus /\ applications = <<>> /\ stores = <<>> /\ made = 0 /\ cart = {}
      /\ products = [x \in Products |-> Absent] /\ addresses = [a \in Ids |-> Absent]
      /\ holder = [a \in Ids |-> Nobody] /\ job = [p \in Procs |-> Idle]
      /\ overlapped = FALSE /\ unset = FALSE /\ user \in {NoUser, Imported}
  BY DEF ShopInit, Init
<1>2. ~user.is_seller
  <2>1. ASSUME NEW row \in User
        PROVE  [row EXCEPT !.registered = TRUE, !.wallets = TRUE, !.password = 1,
                           !.legacy = TRUE, !.is_creator = TRUE].is_seller = row.is_seller
    BY DEF User
  <2>2. NoUser \in User /\ ~NoUser.is_seller
    BY NoUserTyped
  <2>3. Imported.is_seller = NoUser.is_seller
    BY ONLY <2>1, <2>2 DEF Imported
  <2> QED BY <1>1, <2>2, <2>3
<1>3. \A p \in Procs : job[p] = Idle
  BY <1>1
<1>4. ShopTypeOK
  <2>1. /\ applications \in Seq(ActiveApplication \cup {"rejected"})
        /\ stores \in Seq([slug : Slugs, is_active : BOOLEAN])
    BY <1>1
  <2>2. job \in [Procs -> Job] /\ holder \in [Ids -> Procs \cup {Nobody}]
    BY <1>1, IdleJob
  <2>3. /\ products \in [Products -> {Absent, "draft", "active", "archived"}]
        /\ addresses \in [Ids -> {Absent, "plain", "default"}]
    BY <1>1
  <2> QED BY <1>1, <2>1, <2>2, <2>3 DEF ShopTypeOK
<1>5. "approved" \notin ToSet(applications)
  BY <1>1, Among
<1>6. Stored = {} /\ Defaults = {} /\ Applying = {}
  BY <1>1 DEF Stored, Defaults, Applying, Absent
<1>7. DeskKnows
  BY <1>1, <1>2, <1>3, <1>5, IdleJob DEF DeskKnows
<1>8. DeskAlone
  BY <1>1, <1>3, <1>6, IdleJob DEF DeskAlone, DeskCallKnows
<1>9. BookNumbered /\ BookAlone
  BY <1>1, <1>3, <1>6, IdleJob DEF BookNumbered, BookAlone, BookCallKnows
<1> QED BY <1>4, <1>7, <1>8, <1>9 DEF ShopInv

LEMMA ShopInvStep ==
    ASSUME AccountInv, ShopInv, [ShopNext]_<<vars, svars>>
    PROVE  ShopInv'
<1>1. CASE (AccountNext \/ RecordsNext \/ \E p \in Procs : ReadProfile(p) \/ WriteProfile(p))
            /\ UNCHANGED svars
  BY <1>1, SellerStays, AccountMoves
<1>2. ASSUME NEW p \in Procs,
             \/ CheckApplication(p) \/ SubmitApplication(p)
             \/ ApproveApplication(p) \/ RejectApplication(p)
             \/ CheckStore(p) \/ OpenStore(p) \/ UpdateStore(p)
             \/ CreateProduct(p) \/ UpdateProduct(p) \/ ArchiveProduct(p)
             \/ AddToCart(p) \/ RemoveFromCart(p)
             \/ CheckFirst(p) \/ InsertAddress(p) \/ LockForUpdate(p) \/ LockForDelete(p)
             \/ ScanDefaults(p) \/ LockDefault(p) \/ CommitAddress(p)
             \/ PromoteNewest(p) \/ AbortDeadlock(p)
      PROVE  ShopInv'
  BY <1>2, ApplicationCheck, ApplicationSubmitted, Decisions, StoreCheck, StoreOpened, StoreUpdated,
     CatalogWritten, FirstChecked, AddressInserted, RowLocked, DefaultsScanned, DefaultLocked,
     AddressCommitted, NewestPromoted, DeadlockAborted
<1>3. CASE UNCHANGED <<vars, svars>>
  BY <1>3, AccountMoves DEF vars
<1> QED BY <1>1, <1>2, <1>3 DEF ShopNext

\* A set without two members has at most one.
LEMMA NoTwo ==
    ASSUME NEW S, \A a, b \in S : a = b
    PROVE  Cardinality(S) <= 1
<1>1. CASE S = {}
  BY <1>1, FS_EmptySet
<1>2. CASE S # {}
  <2>1. PICK a \in S : TRUE
    BY <1>2
  <2>2. S = {a}
    BY <2>1
  <2> QED BY <2>2, FS_Singleton
<1> QED BY <1>1, <1>2

\* The desk's and the address book's invariants hold with the accounts' throughout.
THEOREM ShopInductive == ShopSpec => []ShopInv
<1>1. AccountInv /\ ShopInv /\ [ShopNext]_<<vars, svars>> => ShopInv'
  BY ShopInvStep
<1> QED BY Inductive, ShopInvInit, <1>1, PTL DEF ShopSpec

\* Whatever requests of the desk, the catalogue and the account interleave: who has a
\* store was approved and is known as a seller, nothing is on sale or in a cart without
\* a store, a slug leads to one store, and two active applications or two stores take
\* two requests that overlapped (submit_seller_application, create_store).
THEOREM DeskIsSound == ShopSpec => []DeskSound
<1>1. ShopInv => DeskSound
  <2> SUFFICES ASSUME ShopInv PROVE DeskSound
    OBVIOUS
  <2>1. ShopTypeOK /\ DeskKnows /\ DeskAlone
    BY ShopTyped
  <2>2. Listed \cup CartListed \subseteq SellerProducts
    BY <2>1, ShopTyped DEF DeskKnows, Listed, CartListed, SellerProducts, Absent
  <2>3. ASSUME NEW s \in Slugs PROVE Cardinality(PublicStore(s)) <= 1
    <3>1. \A i, k \in PublicStore(s) : i = k
      BY <2>1 DEF DeskKnows, PublicStore
    <3> QED BY <3>1, NoTwo
  <2>4. ~overlapped => Len(stores) <= 1 /\ Cardinality(Applying) <= 1
    BY <2>1, NoTwo DEF DeskAlone
  <2> QED BY <2>1, <2>2, <2>3, <2>4 DEF DeskSound, DeskKnows
<1> QED BY ShopInductive, <1>1, PTL

\* A user whose calls never overlapped has at most one default address, and exactly one
\* when there is an address and the flag was never taken off - for any number of
\* addresses and threads (create_address, update_address, delete_address).
THEOREM OneDefault == ShopSpec => []OneDefaultUnlessOverlapping
<1>1. ShopInv => OneDefaultUnlessOverlapping
  BY ShopTyped, NoTwo DEF BookAlone, OneDefaultUnlessOverlapping
<1> QED BY ShopInductive, <1>1, PTL
=============================================================================
