------------------------------ MODULE Accounts ------------------------------
(***************************************************************************)
(* apps/identity: one account - its row, its sessions, its single-use      *)
(* tokens and its KYC profile - under concurrent requests.                 *)
(*                                                                         *)
(* No handler locks anything it decides on (refresh_token tries to): most  *)
(* read a copy of the row, check it, and save some of its columns in a     *)
(* later transaction.  A read is a step Read..., the transaction a step    *)
(* Write... on the copy.  A session is known by the refresh token it       *)
(* accepts; a two-factor code is right when it was computed from the       *)
(* secret the row holds.                                                   *)
(***************************************************************************)
EXTENDS Integers, Sequences, FiniteSets

CONSTANTS Procs,        \* request threads
          Values,       \* passwords, secrets, profiles and KYC data to choose from
          MaxCalls,     \* bound on the calls made
          Deployments   \* see atomic

ASSUME AccountsAssumption ==
    /\ 1 \in Values /\ Values \subseteq Nat \ {0}
    /\ MaxCalls \in Nat
    /\ Deployments \subseteq BOOLEAN

VARIABLES atomic,    \* is a request a transaction?  Under the tests it is; the
                     \* settings leave ATOMIC_REQUESTS off
          user,      \* the committed row
          sessions,  \* the committed UserSession rows: their refresh_jti
          tokens,    \* the single-use tokens, in the order of their creation
          issued,    \* every refresh token a client was ever given
          verified,  \* how often identity.EmailVerified was emitted
          kyc,       \* the committed KycProfile with its documents
          settings,  \* the columns of UserPreferences and CreatorProfile that were set
          calls,     \* how many calls were made
          pc, arg, copy, kcopy   \* per thread: step, argument, rows as read

vars == <<atomic, user, sessions, tokens, issued, verified, kyc, settings, calls,
          pc, arg, copy, kcopy>>

Jtis == Nat \ {0}
Chosen == Values \cup {0}      \* 0: none yet
Uses == {"reset", "verify"}
KycStatuses == {"not_submitted", "pending", "approved", "rejected"}
DocTypes == {"id_front", "selfie"}

\* The columns of a user that some handler decides on or overwrites.
User == [registered : BOOLEAN, wallets : BOOLEAN, is_active : BOOLEAN,
         password : Chosen, legacy : BOOLEAN,       \* password_hash: of what, how
         email_verified : BOOLEAN, two_factor_enabled : BOOLEAN,
         totp_secret : Chosen,
         is_seller : BOOLEAN, is_creator : BOOLEAN,
         display_name : {0, 1}, bio : {0, 1}]       \* 1: as the user changed it
Token == [use : Uses, used_at : BOOLEAN, expired : BOOLEAN]
Kyc == [status : KycStatuses, data : Chosen, documents : SUBSET DocTypes]

Preferences == {"language", "theme"}
ProfileColumns == {"display_name", "bio"}

Steps == {"idle", "provision", "rehash", "open", "change", "change_revoke",
          "reset", "verify", "setup", "enable", "disable", "display_name", "bio",
          "kyc_update", "kyc_submit"}

NoUser == [registered |-> FALSE, wallets |-> FALSE, is_active |-> TRUE,
           password |-> 0, legacy |-> FALSE, email_verified |-> FALSE,
           two_factor_enabled |-> FALSE, totp_secret |-> 0, is_seller |-> FALSE,
           is_creator |-> FALSE, display_name |-> 0, bio |-> 0]
NoKyc == [status |-> "not_submitted", data |-> 0, documents |-> {}]
Submitted == [status |-> "pending", data |-> 1, documents |-> DocTypes]

\* import_legacy_users copies the hashes of the old platform as they are.
Imported == [NoUser EXCEPT !.registered = TRUE, !.wallets = TRUE,
                           !.password = 1, !.legacy = TRUE, !.is_creator = TRUE]

TypeOK ==
    /\ atomic \in BOOLEAN
    /\ user \in User
    /\ sessions \subseteq issued
    /\ tokens \in Seq(Token)
    /\ issued \subseteq Jtis
    /\ verified \in Nat
    /\ kyc \in Kyc
    /\ settings \subseteq Preferences \cup {"bio_extended"}
    /\ calls \in Nat
    /\ pc \in [Procs -> Steps]
    /\ arg \in [Procs -> Nat]
    /\ copy \in [Procs -> User]
    /\ kcopy \in [Procs -> Kyc]

Init ==
    /\ atomic \in Deployments
    /\ user \in {NoUser, Imported}
    /\ sessions = {}
    /\ tokens = <<>>
    /\ issued = {}
    /\ verified = 0
    /\ kyc \in IF user.registered THEN {NoKyc, Submitted} ELSE {NoKyc}
    /\ settings = {}
    /\ calls = 0
    /\ pc = [p \in Procs |-> "idle"]
    /\ arg = [p \in Procs |-> 0]
    /\ copy = [p \in Procs |-> NoUser]
    /\ kcopy = [p \in Procs |-> NoKyc]

-----------------------------------------------------------------------------
(* Steps the handlers share *)

\* A call begins.
Begin(p) == pc[p] = "idle" /\ calls < MaxCalls /\ calls' = calls + 1

\* A handler that has read the account, or its KYC profile, goes on to its next
\* statement with the copy.
Reads(p, step, a) ==
    /\ user.registered
    /\ pc' = [pc EXCEPT ![p] = step]
    /\ arg' = [arg EXCEPT ![p] = a]
    /\ copy' = [copy EXCEPT ![p] = user]
    /\ UNCHANGED kcopy

ReadsKyc(p, step, a) ==
    /\ user.registered
    /\ pc' = [pc EXCEPT ![p] = step]
    /\ arg' = [arg EXCEPT ![p] = a]
    /\ kcopy' = [kcopy EXCEPT ![p] = kyc]
    /\ UNCHANGED copy

Return(p) ==
    /\ pc' = [pc EXCEPT ![p] = "idle"]
    /\ arg' = [arg EXCEPT ![p] = 0]
    /\ copy' = [copy EXCEPT ![p] = NoUser]
    /\ kcopy' = [kcopy EXCEPT ![p] = NoKyc]

InOneStep == UNCHANGED <<pc, arg, copy, kcopy>>

\* Defect: save() writes every column of the copy back.
SaveAll(row, columns) == user' = row

\* save(update_fields=...): the named columns of the copy, and no other.
Save(row, columns) ==
    user' = [c \in DOMAIN user |-> IF c \in columns THEN row[c] ELSE user[c]]

\* _decode_refresh_token: a refresh token passes when this platform signed it.
Presented == issued

\* issue_token_pair: a refresh token no one has seen.
NewJti == Cardinality(issued) + 1

-----------------------------------------------------------------------------
(* Registration, sessions *)

\* register: the account, its preferences and its KYC profile in one transaction;
\* the unique e-mail address lets one of two registrations commit.
Register(p) ==
    /\ Begin(p)
    /\ ~user.registered
    /\ \E w \in Values : user' = [NoUser EXCEPT !.registered = TRUE, !.password = w]
    /\ pc' = [pc EXCEPT ![p] = "provision"]
    /\ UNCHANGED <<atomic, sessions, tokens, issued, verified, kyc, settings, arg,
                   copy, kcopy>>

\* _create_wallets, outside that transaction: its failures are swallowed.
CreateWallets == \E done \in BOOLEAN : user' = [user EXCEPT !.wallets = done]

\* The end of register: the wallets, then the tokens, for which no session is stored.
Provision(p) ==
    /\ pc[p] = "provision"
    /\ CreateWallets
    /\ issued' = issued \cup {NewJti}
    /\ Return(p)
    /\ UNCHANGED <<atomic, sessions, tokens, verified, kyc, settings, calls>>

\* The process dies between the account and its wallets.
CrashInRegister(p) ==
    /\ pc[p] = "provision"
    /\ Return(p)
    /\ UNCHANGED <<atomic, user, sessions, tokens, issued, verified, kyc, settings, calls>>

\* totp.verify: an empty secret fits no code.
CodeFits(row) == row.totp_secret # 0

\* login, up to the checks; the right password is entered.
ReadLogin(p) ==
    /\ Begin(p)
    /\ user.is_active \/ user.legacy   \* the hash is upgraded before is_active is read
    /\ user.two_factor_enabled /\ ~user.legacy => CodeFits(user)
    /\ Reads(p, IF user.legacy THEN "rehash" ELSE "open", 0)
    /\ UNCHANGED <<atomic, user, sessions, tokens, issued, verified, kyc, settings>>

\* _rehash_setter: the password that was checked, in the preferred hash.
Rehash(p) ==
    /\ pc[p] = "rehash"
    /\ Save([copy[p] EXCEPT !.legacy = FALSE], {"password", "legacy"})
    /\ IF copy[p].is_active /\ (copy[p].two_factor_enabled => CodeFits(copy[p]))
         THEN pc' = [pc EXCEPT ![p] = "open"] /\ UNCHANGED <<arg, copy, kcopy>>
         ELSE Return(p)
    /\ UNCHANGED <<atomic, sessions, tokens, issued, verified, kyc, settings, calls>>

\* login, its transaction.
OpenSession(p) ==
    /\ pc[p] = "open"
    /\ sessions' = sessions \cup {NewJti}
    /\ issued' = issued \cup {NewJti}
    /\ Return(p)
    /\ UNCHANGED <<atomic, user, tokens, verified, kyc, settings, calls>>

\* Defect: a refresh that finds no session opens one.
RefreshReopens(p) ==
    /\ Begin(p)
    /\ atomic
    /\ user.is_active
    /\ \E jti \in Presented : sessions' = sessions \cup {jti}
    /\ InOneStep
    /\ UNCHANGED <<atomic, user, tokens, issued, verified, kyc, settings>>

\* refresh_token inside a transaction: the session's row stays locked to its end.
Refresh(p) ==
    /\ Begin(p)
    /\ atomic
    /\ user.is_active
    /\ \E jti \in Presented \cap sessions : sessions' = (sessions \ {jti}) \cup {NewJti}
    /\ issued' = issued \cup {NewJti}
    /\ InOneStep
    /\ UNCHANGED <<atomic, user, tokens, verified, kyc, settings>>

\* refresh_token outside a transaction: PostgreSQL's back end refuses
\* select_for_update at once, whatever the token.
RefreshFails(p) ==
    /\ Begin(p)
    /\ ~atomic
    /\ InOneStep
    /\ UNCHANGED <<atomic, user, sessions, tokens, issued, verified, kyc, settings>>

\* list_sessions.
ListSessions == sessions

\* logout, by refresh token: one DELETE.
Logout(p) ==
    /\ Begin(p)
    /\ \E jti \in Presented : sessions' = sessions \ {jti}
    /\ InOneStep
    /\ UNCHANGED <<atomic, user, tokens, issued, verified, kyc, settings>>

\* revoke_session: one of those list_sessions shows.
RevokeSession(p) ==
    /\ Begin(p)
    /\ \E jti \in ListSessions : sessions' = sessions \ {jti}
    /\ InOneStep
    /\ UNCHANGED <<atomic, user, tokens, issued, verified, kyc, settings>>

-----------------------------------------------------------------------------
(* Passwords and single-use tokens *)

\* change_password, up to the check of the current password.
ReadChange(p) ==
    /\ Begin(p)
    /\ \E w \in Values, step \in {"change", "change_revoke"} : Reads(p, step, w)
    /\ UNCHANGED <<atomic, user, sessions, tokens, issued, verified, kyc, settings>>

\* Its transaction; revoke_other_sessions deletes every session.
WriteChange(p) ==
    /\ pc[p] \in {"change", "change_revoke"}
    /\ Save([copy[p] EXCEPT !.password = arg[p], !.legacy = FALSE], {"password", "legacy"})
    /\ sessions' = IF pc[p] = "change_revoke" THEN {} ELSE sessions
    /\ Return(p)
    /\ UNCHANGED <<atomic, tokens, issued, verified, kyc, settings, calls>>

NewToken(use) == tokens' = Append(tokens, [use |-> use, used_at |-> FALSE, expired |-> FALSE])

\* request_password_reset: those before stay valid.
RequestReset(p) ==
    /\ Begin(p)
    /\ user.registered /\ user.is_active
    /\ NewToken("reset")
    /\ InOneStep
    /\ UNCHANGED <<atomic, user, sessions, issued, verified, kyc, settings>>

\* request_email_verification.
RequestVerification(p) ==
    /\ Begin(p)
    /\ user.registered /\ user.is_active /\ ~user.email_verified
    /\ NewToken("verify")
    /\ InOneStep
    /\ UNCHANGED <<atomic, user, sessions, issued, verified, kyc, settings>>

\* An hour, or a day, goes by.
Expire(t) ==
    /\ ~tokens[t].expired
    /\ tokens' = [tokens EXCEPT ![t].expired = TRUE]
    /\ InOneStep
    /\ UNCHANGED <<atomic, user, sessions, issued, verified, kyc, settings, calls>>

Good(t, use) == tokens[t].use = use /\ ~tokens[t].used_at /\ ~tokens[t].expired

\* confirm_password_reset: the checks of the token.
ReadReset(p) ==
    /\ Begin(p)
    /\ \E t \in DOMAIN tokens : Good(t, "reset") /\ Reads(p, "reset", t)
    /\ UNCHANGED <<atomic, user, sessions, tokens, issued, verified, kyc, settings>>

\* The transaction of a reset: no condition on the token any more.
WriteReset(p) ==
    /\ pc[p] = "reset"
    /\ \E w \in Values :
         Save([copy[p] EXCEPT !.password = w, !.legacy = FALSE], {"password", "legacy"})
    /\ tokens' = [tokens EXCEPT ![arg[p]].used_at = TRUE]
    /\ sessions' = {}
    /\ Return(p)
    /\ UNCHANGED <<atomic, issued, verified, kyc, settings, calls>>

\* Defect: the key carries a random part, as the other keys of this file do.
EmitVerifiedAgain == verified' = verified + 1

\* The key of EmailVerified names the user alone: a second row is refused and the
\* refusal swallowed.
EmitVerified == verified' = IF verified = 0 THEN 1 ELSE verified

\* confirm_email_verification: the checks of the token, then its transaction.
ReadVerify(p) ==
    /\ Begin(p)
    /\ \E t \in DOMAIN tokens : Good(t, "verify") /\ Reads(p, "verify", t)
    /\ UNCHANGED <<atomic, user, sessions, tokens, issued, verified, kyc, settings>>

WriteVerify(p) ==
    /\ pc[p] = "verify"
    /\ tokens' = [tokens EXCEPT ![arg[p]].used_at = TRUE]
    /\ IF copy[p].email_verified
         THEN UNCHANGED <<user, verified>>
         ELSE Save([copy[p] EXCEPT !.email_verified = TRUE], {"email_verified"}) /\ EmitVerified
    /\ Return(p)
    /\ UNCHANGED <<atomic, sessions, issued, kyc, settings, calls>>

-----------------------------------------------------------------------------
(* Two-factor authentication, profile *)

ReadSetup(p) ==
    /\ Begin(p)
    /\ user.is_active /\ ~user.two_factor_enabled
    /\ \E w \in Values : Reads(p, "setup", w)
    /\ UNCHANGED <<atomic, user, sessions, tokens, issued, verified, kyc, settings>>

WriteSetup(p) ==
    /\ pc[p] = "setup"
    /\ Save([copy[p] EXCEPT !.totp_secret = arg[p]], {"totp_secret"})
    /\ Return(p)
    /\ UNCHANGED <<atomic, sessions, tokens, issued, verified, kyc, settings, calls>>

ReadEnable(p) ==
    /\ Begin(p)
    /\ user.is_active /\ ~user.two_factor_enabled /\ CodeFits(user)
    /\ Reads(p, "enable", 0)
    /\ UNCHANGED <<atomic, user, sessions, tokens, issued, verified, kyc, settings>>

WriteEnable(p) ==
    /\ pc[p] = "enable"
    /\ Save([copy[p] EXCEPT !.two_factor_enabled = TRUE], {"two_factor_enabled"})
    /\ Return(p)
    /\ UNCHANGED <<atomic, sessions, tokens, issued, verified, kyc, settings, calls>>

ReadDisable(p) ==
    /\ Begin(p)
    /\ user.is_active /\ user.two_factor_enabled /\ CodeFits(user)
    /\ Reads(p, "disable", 0)
    /\ UNCHANGED <<atomic, user, sessions, tokens, issued, verified, kyc, settings>>

WriteDisable(p) ==
    /\ pc[p] = "disable"
    /\ Save([copy[p] EXCEPT !.two_factor_enabled = FALSE, !.totp_secret = 0],
            {"two_factor_enabled", "totp_secret"})
    /\ Return(p)
    /\ UNCHANGED <<atomic, sessions, tokens, issued, verified, kyc, settings, calls>>

\* update_profile of one column.
ReadProfile(p) ==
    /\ Begin(p)
    /\ \E column \in ProfileColumns : Reads(p, column, 0)
    /\ UNCHANGED <<atomic, user, sessions, tokens, issued, verified, kyc, settings>>

WriteProfile(p) ==
    /\ pc[p] \in ProfileColumns
    /\ Save([copy[p] EXCEPT ![pc[p]] = 1], {pc[p]})
    /\ Return(p)
    /\ UNCHANGED <<atomic, sessions, tokens, issued, verified, kyc, settings, calls>>

\* update_preferences and update_creator_profile: rows of their own, of which only
\* the named column is saved.
UpdatePreferences(p) ==
    /\ Begin(p)
    /\ user.registered
    /\ \E column \in Preferences : settings' = settings \cup {column}
    /\ InOneStep
    /\ UNCHANGED <<atomic, user, sessions, tokens, issued, verified, kyc>>

UpdateCreatorProfile(p) ==
    /\ Begin(p)
    /\ user.registered /\ user.is_creator
    /\ settings' = settings \cup {"bio_extended"}
    /\ InOneStep
    /\ UNCHANGED <<atomic, user, sessions, tokens, issued, verified, kyc>>

\* Someone with access to the database closes the account.
Deactivate ==
    /\ user.registered /\ user.is_active
    /\ user' = [user EXCEPT !.is_active = FALSE]
    /\ InOneStep
    /\ UNCHANGED <<atomic, sessions, tokens, issued, verified, kyc, settings, calls>>

-----------------------------------------------------------------------------
(* KYC *)

ReadKycUpdate(p) ==
    /\ Begin(p)
    /\ \E w \in Values : ReadsKyc(p, "kyc_update", w)
    /\ UNCHANGED <<atomic, user, sessions, tokens, issued, verified, kyc, settings>>

\* update_kyc: the status is among the saved columns only if it was approved when read.
WriteKycUpdate(p) ==
    /\ pc[p] = "kyc_update"
    /\ kyc' = [kyc EXCEPT !.data = arg[p],
                          !.status = IF kcopy[p].status = "approved" THEN "pending" ELSE @]
    /\ Return(p)
    /\ UNCHANGED <<atomic, user, sessions, tokens, issued, verified, settings, calls>>

\* upload_kyc_document: update_or_create, whatever the status.
UploadDocument(p) ==
    /\ Begin(p)
    /\ user.registered
    /\ \E d \in DocTypes : kyc' = [kyc EXCEPT !.documents = @ \cup {d}]
    /\ InOneStep
    /\ UNCHANGED <<atomic, user, sessions, tokens, issued, verified, settings>>

ReadKycSubmit(p) ==
    /\ Begin(p)
    /\ kyc.data # 0 /\ kyc.documents = DocTypes
    /\ ReadsKyc(p, "kyc_submit", 0)
    /\ UNCHANGED <<atomic, user, sessions, tokens, issued, verified, kyc, settings>>

WriteKycSubmit(p) ==
    /\ pc[p] = "kyc_submit"
    /\ kyc' = [kyc EXCEPT !.status = "pending"]
    /\ Return(p)
    /\ UNCHANGED <<atomic, user, sessions, tokens, issued, verified, settings, calls>>

\* A reviewer decides on a pending profile; no code in the repository does it.
Review ==
    /\ kyc.status = "pending"
    /\ \E verdict \in {"approved", "rejected"} : kyc' = [kyc EXCEPT !.status = verdict]
    /\ InOneStep
    /\ UNCHANGED <<atomic, user, sessions, tokens, issued, verified, settings, calls>>

-----------------------------------------------------------------------------

(* What the readers of an account are shown *)

\* get_profile: the owner's own view.
Profile == [c \in DOMAIN user \ {"password", "legacy", "totp_secret"} |-> user[c]]

\* get_me and get_kyc: the account with the state of its KYC profile.
Me == [is_creator |-> user.is_creator, kyc_status |-> kyc.status]
GetKyc == kyc

\* get_preferences: the row is created with its defaults by the first reader.
GetPreferences == settings \cap Preferences

\* get_creator_profile: the row is there after the first update, not before.
CreatorView == IF user.is_creator /\ "bio_extended" \in settings
               THEN [kyc_status |-> kyc.status] ELSE <<>>

\* get_public_user: nothing of a closed account.
PublicUser == IF user.registered /\ user.is_active
              THEN [c \in {"is_creator", "display_name", "bio"} |-> user[c]]
              ELSE <<>>

\* public_profiles: the card other apps put on a product, a video or a stream.
PublicCard == IF user.registered
              THEN [c \in {"is_creator", "display_name"} |-> user[c]]
              ELSE <<>>

-----------------------------------------------------------------------------

\* Of the account itself, and of the records beside it.
AccountNext ==
    \/ \E p \in Procs :
         \/ Register(p) \/ Provision(p) \/ CrashInRegister(p)
         \/ ReadLogin(p) \/ Rehash(p) \/ OpenSession(p)
         \/ Refresh(p) \/ RefreshFails(p) \/ Logout(p) \/ RevokeSession(p)
         \/ ReadChange(p) \/ WriteChange(p)
         \/ RequestReset(p) \/ ReadReset(p) \/ WriteReset(p)
         \/ RequestVerification(p) \/ ReadVerify(p) \/ WriteVerify(p)
         \/ ReadSetup(p) \/ WriteSetup(p) \/ ReadEnable(p) \/ WriteEnable(p)
         \/ ReadDisable(p) \/ WriteDisable(p) \/ ReadProfile(p) \/ WriteProfile(p)
    \/ \E t \in DOMAIN tokens : Expire(t)
    \/ Deactivate

RecordsNext ==
    \/ \E p \in Procs :
         \/ UpdatePreferences(p) \/ UpdateCreatorProfile(p)
         \/ ReadKycUpdate(p) \/ WriteKycUpdate(p) \/ UploadDocument(p)
         \/ ReadKycSubmit(p) \/ WriteKycSubmit(p)
    \/ Review

Next == AccountNext \/ RecordsNext

Spec == Init /\ [][Next]_vars

-----------------------------------------------------------------------------
(* Properties *)

\* The account says it is verified exactly when EmailVerified was emitted, once, and
\* a verification token is spent only with that effect - although two confirmations
\* of one token, or of two, may both pass the check (confirm_email_verification).
VerifiedOnce ==
    /\ verified = IF Profile.email_verified THEN 1 ELSE 0
    /\ \A t \in DOMAIN tokens :
         tokens[t].use = "verify" /\ tokens[t].used_at => user.email_verified

AccountSound == TypeOK /\ VerifiedOnce

\* A refresh token that stopped being a session's - rotated, logged out, revoked,
\* or the one register hands out, which never was - does not come back
\* (refresh_token, logout, the DELETEs of the password handlers).
RetiredStaysRetired ==
    [][\A jti \in issued \ sessions : jti \notin sessions']_vars

\* The stored password changes only to one a change or a reset has just chosen;
\* an older one is restored only by a login that upgrades a legacy hash on the copy
\* it checked (_rehash_setter).
RestoredOnlyByRehash ==
    user.registered /\ user'.password # user.password =>
        \E p \in Procs :
           /\ pc'[p] # pc[p]
           /\ \/ pc[p] \in {"change", "change_revoke"} /\ user'.password = arg[p]
              \/ pc[p] = "reset"
              \/ pc[p] = "rehash" /\ user'.password = copy[p].password

\* An account is left with two-factor authentication on and no secret - locked out
\* for good, since login and disable ask for a code and setup refuses - only by an
\* enable that read the row before a disable wrote it (enable_two_factor).
LockedOutOnlyByStaleEnable ==
    ~user.two_factor_enabled \/ CodeFits(user) =>
        \/ ~user'.two_factor_enabled \/ CodeFits(user')
        \/ \E p \in Procs : pc[p] = "enable" /\ copy[p].totp_secret # user.totp_secret

\* What a reviewer approved stays as reviewed: its data change only with the status,
\* except under an update that read the profile before the approval (update_kyc).
ApprovalCoversData ==
    Me.kyc_status = "approved" /\ Me'.kyc_status = "approved" /\ GetKyc'.data # GetKyc.data =>
        \E p \in Procs : pc[p] = "kyc_update" /\ kcopy[p].status # "approved"

\* All that a copy read before somebody else's write can spoil in an account: a
\* legacy password comes back, two-factor is on without a secret, an approval
\* outlives the data it was given for.  No column that others set meanwhile is lost,
\* neither to the owner's other requests nor mark_seller's flag to any of them.
StaleStep ==
    /\ RestoredOnlyByRehash
    /\ LockedOutOnlyByStaleEnable
    /\ ApprovalCoversData
    /\ \A c \in ProfileColumns : user.registered => user'[c] >= user[c]
    /\ user.is_seller => user'.is_seller
StaleCopyHarms == [][StaleStep]_vars

\* What holds of a thread between its statements.
ThreadKnows(p) ==
    /\ pc[p] # "idle" => user.registered
    /\ copy[p].email_verified => user.email_verified
    /\ pc[p] \in {"change", "change_revoke", "setup", "kyc_update"} => arg[p] \in Values
    /\ pc[p] \in Uses => arg[p] \in DOMAIN tokens /\ tokens[arg[p]].use = pc[p]
    /\ pc[p] = "enable" => CodeFits(copy[p])

\* The inductive invariant.
AccountInv ==
    /\ AccountSound
    /\ IsFiniteSet(issued) /\ issued = 1..Cardinality(issued)
    /\ ~user.registered => user = NoUser
    /\ \A p \in Procs : ThreadKnows(p)
=============================================================================
