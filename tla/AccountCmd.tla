------------------------------ MODULE AccountCmd ------------------------------
(***************************************************************************)
(* The gzond account commands (cmd/gzond/accountcmd.go) over a keystore   *)
(* directory: "account new" and "account import" add an encrypted key     *)
(* file, "account update" unlocks each named account (three password      *)
(* prompts, or one test of the password against every file when several  *)
(* files hold the address) and rewrites its file under a new password.    *)
(* Any Fatalf ends the command. The operator may copy key files from      *)
(* another node into the directory at any time, as the command's help     *)
(* suggests; a copy keeps its file name, so it may sort before existing   *)
(* files.                                                                  *)
(*                                                                         *)
(* The keystore package is not in this tree; its behaviour is taken as in *)
(* the upstream code: Find by address alone is ambiguous when several     *)
(* files hold it, Unlock and Update decrypt the one file found, and       *)
(* Accounts lists the files in file-name (URL) order. A key file is       *)
(* [id, addr, pw]; ids order the file names.                              *)
(***************************************************************************)
EXTENDS Integers, Sequences, FiniteSets, SequencesExt

CONSTANTS
    Addrs,          \* addresses of keys
    Passwords,      \* passwords a user may type
    MaxFiles,       \* bound on the key files of the directory
    MaxArgs,        \* bound on the accounts one "account update" names
    Nil

FileIds == 1..MaxFiles

KeyFile == [id : FileIds, addr : Addrs, pw : Passwords]

\* An account as named on the command line: an address, a keystore index,
\* or a string that is neither.
Refs == [kind : {"addr"}, addr : Addrs] \cup [kind : {"index"}, index : 0..MaxFiles]
            \cup [kind : {"invalid"}]

\* An accounts.Account: the address, and the file (URL) when known.
Account == [addr : Addrs, id : FileIds \cup {Nil}]

VARIABLES
    keys,       \* the key files of the keystore directory
    pc,         \* "idle", "next" (update loop), "unlock", "newpw"
    args,       \* accounts "account update" has still to update
    account,    \* the account being unlocked or updated
    oldpw,      \* the password that unlocked it
    trials,     \* failed password prompts of the current unlock
    exit        \* how the last command ended

vars == <<keys, pc, args, account, oldpw, trials, exit>>

-----------------------------------------------------------------------------
(* The keystore, as the commands see it. *)

\* ks.Accounts(): the key files in URL order.
Accounts == SetToSortSeq(keys, LAMBDA x, y : x.id < y.id)

\* The files Find returns for an account: by file when it names one, else
\* every file of the address.
Matches(acct) ==
    {k \in keys : k.addr = acct.addr /\ (acct.id = Nil \/ k.id = acct.id)}

\* ks.Unlock(acct, pw): ErrNoMatch, AmbiguousAddrError, ErrDecrypt or nil.
Unlock(acct, pw) ==
    LET m == Matches(acct)
    IN  CASE m = {}                               -> "nomatch"
          [] Cardinality(m) > 1                   -> "ambiguous"
          [] \E k \in m : k.pw = pw               -> "ok"
          [] OTHER                                -> "decrypt"

\* Mutant: a new key is named after the number of files in the directory.
NextIdCount == Cardinality(keys) + 1

\* The file name of a new key: later than every existing one.
NextId == IF keys = {} THEN 1 ELSE Max({k.id : k \in keys}) + 1

-----------------------------------------------------------------------------
(* accountcmd.go *)

\* utils.MakeAddress: an address as is, or the index-th account listed.
MakeAddress(ref) ==
    IF ref.kind = "addr"
    THEN [ok |-> TRUE, acct |-> [addr |-> ref.addr, id |-> Nil]]
    ELSE IF ref.kind = "invalid" \/ Len(Accounts) <= ref.index
         THEN [ok |-> FALSE]
         ELSE [ok |-> TRUE,
               acct |-> [addr |-> Accounts[ref.index + 1].addr,
                         id |-> Accounts[ref.index + 1].id]]

\* Mutant: the first listed match is returned once any match unlocks.
AmbiguousAddrRecoveryFirst(matches, pw) ==
    IF \A k \in matches : k.pw # pw
    THEN Nil
    ELSE LET first == Min({k.id : k \in matches})
         IN  [addr |-> (CHOOSE k \in matches : k.id = first).addr, id |-> first]

\* ambiguousAddrRecovery: the first match, in URL order, that the
\* password unlocks; Nil (Fatalf) when none does.
AmbiguousAddrRecovery(matches, pw) ==
    LET ok == {k \in matches : k.pw = pw}
    IN  IF ok = {}
        THEN Nil
        ELSE LET first == Min({k.id : k \in ok})
             IN  [addr |-> (CHOOSE k \in ok : k.id = first).addr, id |-> first]

\* unlockAccount prompts for the password at most three times.
MaxTrials == 3

\* A Fatalf, or the normal end of a command.
Exit(why) ==
    /\ pc' = "idle"
    /\ exit' = why
    /\ args' = <<>>
    /\ account' = Nil
    /\ oldpw' = Nil
    /\ trials' = 0

\* accountCreate: keystore.StoreKey writes a fresh key under password pw.
AccountCreate(pw) ==
    /\ pc = "idle"
    /\ NextId \in FileIds
    /\ \E a \in Addrs \ {k.addr : k \in keys} :
         keys' = keys \cup {[id |-> NextId, addr |-> a, pw |-> pw]}
    /\ Exit("ok")

\* accountImport: ks.ImportDilithium of the key of address a, refused
\* (Fatalf) when the keystore already holds the address.
AccountImport(a, pw) ==
    /\ pc = "idle"
    /\ NextId \in FileIds
    /\ IF \E k \in keys : k.addr = a
       THEN /\ UNCHANGED keys
            /\ Exit("exists")
       ELSE /\ keys' = keys \cup {[id |-> NextId, addr |-> a, pw |-> pw]}
            /\ Exit("ok")

\* The operator copies a key file from another node into the directory.
CopyKeyFile(a, pw, id) ==
    /\ id \notin {k.id : k \in keys}
    /\ keys' = keys \cup {[id |-> id, addr |-> a, pw |-> pw]}
    /\ UNCHANGED <<pc, args, account, oldpw, trials, exit>>

\* accountUpdate with the accounts refs: Fatalf when none is given.
AccountUpdate(refs) ==
    /\ pc = "idle"
    /\ IF refs = <<>>
       THEN Exit("noargs")
       ELSE /\ pc' = "next"
            /\ args' = refs
            /\ UNCHANGED <<account, oldpw, trials, exit>>
    /\ UNCHANGED keys

\* The loop of accountUpdate: unlockAccount on the next account begins
\* with MakeAddress, or the command returns.
UpdateNext ==
    /\ pc = "next"
    /\ IF args = <<>>
       THEN Exit("ok")
       ELSE LET r == MakeAddress(Head(args))
            IN  IF ~r.ok
                THEN Exit("badaccount")
                ELSE /\ pc' = "unlock"
                     /\ account' = r.acct
                     /\ args' = Tail(args)
                     /\ trials' = 0
                     /\ UNCHANGED <<oldpw, exit>>
    /\ UNCHANGED keys

\* One attempt of unlockAccount with the password typed at the prompt.
UnlockAttempt(pw) ==
    /\ pc = "unlock"
    /\ CASE Unlock(account, pw) = "ok" ->
              /\ pc' = "newpw"
              /\ oldpw' = pw
              /\ UNCHANGED <<args, account, trials, exit>>
         [] Unlock(account, pw) = "ambiguous" ->
              LET m == AmbiguousAddrRecovery(Matches(account), pw)
              IN  IF m = Nil
                  THEN Exit("nomatchunlocks")
                  ELSE /\ pc' = "newpw"
                       /\ account' = m
                       /\ oldpw' = pw
                       /\ UNCHANGED <<args, trials, exit>>
         [] Unlock(account, pw) = "decrypt" /\ trials + 1 < MaxTrials ->
              /\ trials' = trials + 1
              /\ UNCHANGED <<pc, args, account, oldpw, exit>>
         [] Unlock(account, pw) = "decrypt" ->
              Exit("wrongpassword")
         [] OTHER ->
              Exit("nomatch")
    /\ UNCHANGED keys

\* ks.Update(account, oldPassword, newPassword): the one file found is
\* decrypted with the old password and rewritten under the new one.
UpdateKey(newpw) ==
    /\ pc = "newpw"
    /\ IF Unlock(account, oldpw) = "ok"
       THEN LET k == CHOOSE f \in Matches(account) : TRUE
            IN  /\ keys' = (keys \ {k}) \cup {[k EXCEPT !.pw = newpw]}
                /\ pc' = "next"
                /\ account' = Nil
                /\ oldpw' = Nil
                /\ UNCHANGED <<args, trials, exit>>
       ELSE /\ UNCHANGED keys
            /\ Exit("updatefailed")

\* utils.GetPassPhraseWithList with confirmation: the new password and its
\* repetition differ, and the command ends in Fatalf before ks.Update.
NewPasswordMismatch ==
    /\ pc = "newpw"
    /\ UNCHANGED keys
    /\ Exit("nomatch")

Init ==
    /\ keys = {}
    /\ pc = "idle"
    /\ args = <<>>
    /\ account = Nil
    /\ oldpw = Nil
    /\ trials = 0
    /\ exit = "none"

Next ==
    \/ \E pw \in Passwords : AccountCreate(pw)
    \/ \E a \in Addrs, pw \in Passwords : AccountImport(a, pw)
    \/ \E a \in Addrs, pw \in Passwords, id \in FileIds : CopyKeyFile(a, pw, id)
    \/ \E refs \in BoundedSeq(Refs, MaxArgs) : AccountUpdate(refs)
    \/ UpdateNext
    \/ \E pw \in Passwords : UnlockAttempt(pw)
    \/ \E pw \in Passwords : UpdateKey(pw)
    \/ NewPasswordMismatch

Spec == Init /\ [][Next]_vars

-----------------------------------------------------------------------------
(* Properties *)

\* No key file overwrites another: the name a new or imported key gets is
\* not taken, by a key of either command or by a copied file.
TypeOK ==
    /\ keys \subseteq KeyFile
    /\ \A k1, k2 \in keys : k1.id = k2.id => k1 = k2
    /\ pc \in {"idle", "next", "unlock", "newpw"}
    /\ args \in BoundedSeq(Refs, MaxArgs)
    /\ account \in Account \cup {Nil}
    /\ oldpw \in Passwords \cup {Nil}
    /\ trials \in 0..2

\* The account "account update" goes on to rewrite is one the password the
\* user typed decrypts, even when key files were copied in and the
\* address is held by several files, and ambiguousAddrRecovery had to
\* pick one of them.
UnlockedKeyDecrypts ==
    pc = "newpw" => \E k \in Matches(account) : k.pw = oldpw

=============================================================================
