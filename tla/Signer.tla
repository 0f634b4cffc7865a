-------------------------------- MODULE Signer --------------------------------
(***************************************************************************)
(* The signer's data signing API and its UI API (signer/core/             *)
(* signed_data.go, uiapi.go). External callers ask for data to be signed  *)
(* (SignData, SignTypedData); each request is served by its own RPC       *)
(* goroutine, which blocks twice on the user (the approval, the password) *)
(* and consults the keystore between them. Meanwhile the user, through    *)
(* the UI API, imports keys and sets the chain id.                     *)
(*                                                                         *)
(* The keystore and the UI are not in this tree; the keystore is a set of *)
(* keys [addr, pw], Find fails for an unknown address, signing with a     *)
(* wrong password fails, an import of a held address fails. A password    *)
(* is "weak" or "strong" as ValidatePasswordFormat judges it. Data is one *)
(* of a few shapes, and each parser is modelled by which shapes it        *)
(* accepts.                                                                *)
(***************************************************************************)
EXTENDS Integers

CONSTANTS
    Reqs,           \* external signing requests (one RPC goroutine each)
    UICallers,      \* goroutines serving the UI API
    Addrs,          \* addresses
    Passwords,      \* passwords
    Strong,         \* the passwords ValidatePasswordFormat accepts
    ChainIds,       \* chain ids the user may set
    Nil

\* Content types: the mime types of the switch, one it falls through to
\* the default with, and one mime.ParseMediaType rejects.
ContentTypes == {"validator", "typed", "text", "other", "malformed"}

\* Shapes of the data argument: a hex string, a hex string of typed data
\* JSON, a string that is not hex, a validator map, a validator map with
\* an empty address or message, a TypedData value and one Format rejects.
Data == {"hex", "hexjson", "badhex", "validator", "validator_empty",
         "typed", "typed_bad"}

\* The answers of the UI's ApproveSignData.
Answers == {"approved", "denied", "error"}

VARIABLES
    keystore,   \* keys of the keystore: [addr, pw, ui]; ui: stored by the UI API
    req,        \* per request: [stage, addr, approved, pw, out]
    shown,      \* requests whose error was shown on the UI (ShowError)
    chainID,    \* extApi.chainID
    setting,    \* per UI caller: the id its SetChainId wrote, Nil when idle
    returned    \* per UI caller: what its last SetChainId returned

vars == <<keystore, req, shown, chainID, setting, returned>>

Held == {k.addr : k \in keystore}

-----------------------------------------------------------------------------
(* Parsing the request (determineSignatureFormat and its helpers). *)

\* fromHex: only a string, and a valid hex one, decodes.
FromHexOK(d) == d \in {"hex", "hexjson"}

\* UnmarshalValidatorData: a map with a non-empty address and message.
UnmarshalValidatorOK(d) == d = "validator"

\* typedDataRequest: a TypedData value, or hex of its JSON, that formats.
TypedDataRequestOK(d) == d = "typed" \/ (FromHexOK(d) /\ d = "hexjson")

\* determineSignatureFormat: whether a request is made of the arguments.
DetermineSignatureFormatOK(ct, d) ==
    CASE ct = "malformed" -> FALSE
      [] ct = "validator" -> UnmarshalValidatorOK(d)
      [] ct = "typed"     -> TypedDataRequestOK(d)
      [] OTHER            -> FromHexOK(d)

\* The request an entry point makes of its arguments: SignData through
\* determineSignatureFormat, SignTypedData (signTypedData) through
\* typedDataRequest, with the address set on it.
ParseRequestOK(entry, ct, d) ==
    IF entry = "SignData" THEN DetermineSignatureFormatOK(ct, d)
                          ELSE TypedDataRequestOK(d)

-----------------------------------------------------------------------------
(* SignData, SignTypedData and sign, one step per blocking call. *)

\* The request ends with result out, approved or not; an error of sign
\* is shown on the UI.
Finish(r, appr, out) ==
    /\ req' = [req EXCEPT ![r].stage = "done", ![r].approved = appr, ![r].out = out]
    /\ shown' = IF out = "signed" THEN shown ELSE shown \cup {r}

\* Mutant: the keystore is consulted before the user is asked.
ReceiveLookupFirst(r, entry, ct, d, a) ==
    /\ req[r].stage = "new"
    /\ IF ~ParseRequestOK(entry, ct, d)
       THEN req' = [req EXCEPT ![r].stage = "done", ![r].addr = a,
                               ![r].out = "badrequest"]
       ELSE IF a \notin Held
            THEN req' = [req EXCEPT ![r].stage = "done", ![r].addr = a,
                                    ![r].out = "unknown"]
            ELSE req' = [req EXCEPT ![r].stage = "approve", ![r].addr = a]
    /\ UNCHANGED <<keystore, shown, chainID, setting, returned>>

\* SignData (determineSignatureFormat) or SignTypedData (typedDataRequest)
\* on address a: a malformed request is answered with its error, which is
\* not shown; else sign asks the UI to approve it.
Receive(r, entry, ct, d, a) ==
    /\ req[r].stage = "new"
    /\ IF ~ParseRequestOK(entry, ct, d)
       THEN req' = [req EXCEPT ![r].stage = "done", ![r].addr = a,
                               ![r].out = "badrequest"]
       ELSE req' = [req EXCEPT ![r].stage = "approve", ![r].addr = a]
    /\ UNCHANGED <<keystore, shown, chainID, setting, returned>>

\* UI.ApproveSignData returns: an error, a denial (ErrRequestDenied), or
\* an approval, after which the wallet holding the address is looked up.
Approve(r, ans) ==
    /\ req[r].stage = "approve"
    /\ CASE ans = "error"  -> Finish(r, FALSE, "uierror")
         [] ans = "denied" -> Finish(r, FALSE, "denied")
         [] OTHER ->
              IF req[r].addr \notin Held
              THEN Finish(r, TRUE, "unknown")
              ELSE /\ req' = [req EXCEPT ![r].approved = TRUE,
                                         ![r].stage = "password"]
                   /\ UNCHANGED shown
    /\ UNCHANGED <<keystore, chainID, setting, returned>>

\* lookupOrQueryPassword: the user gives a password, or the query fails.
QueryPassword(r, pw) ==
    /\ req[r].stage = "password"
    /\ IF pw = Nil
       THEN Finish(r, TRUE, "nopassword")
       ELSE /\ req' = [req EXCEPT ![r].stage = "sign", ![r].pw = pw]
            /\ UNCHANGED shown
    /\ UNCHANGED <<keystore, chainID, setting, returned>>

\* wallet.SignDataWithPassphrase: decrypts the key with the password.
SignWithPassphrase(r) ==
    /\ req[r].stage = "sign"
    /\ Finish(r, TRUE, IF \E k \in keystore : k.addr = req[r].addr /\ k.pw = req[r].pw
                 THEN "signed" ELSE "decrypt")
    /\ UNCHANGED <<keystore, chainID, setting, returned>>

-----------------------------------------------------------------------------
(* The UI API. *)

\* Mutant: the raw key is stored before its password is checked.
ImportRawKeyUnchecked(a, pw, keyOK) ==
    /\ keyOK
    /\ a \notin Held
    /\ keystore' = keystore \cup {[addr |-> a, pw |-> pw, ui |-> TRUE]}
    /\ UNCHANGED <<req, shown, chainID, setting, returned>>

\* ImportRawKey: the hex seed must decode and the password be strong;
\* ImportDilithium refuses an address the keystore holds.
ImportRawKey(a, pw, keyOK) ==
    /\ keyOK
    /\ pw \in Strong
    /\ a \notin Held
    /\ keystore' = keystore \cup {[addr |-> a, pw |-> pw, ui |-> TRUE]}
    /\ UNCHANGED <<req, shown, chainID, setting, returned>>

\* Import: a key file decrypted with its old passphrase is stored under a
\* strong new one.
Import(a, oldOK, pw) ==
    /\ pw \in Strong
    /\ oldOK
    /\ a \notin Held
    /\ keystore' = keystore \cup {[addr |-> a, pw |-> pw, ui |-> TRUE]}
    /\ UNCHANGED <<req, shown, chainID, setting, returned>>

\* SetChainId writes extApi.chainID ...
SetChainId(c, id) ==
    /\ setting[c] = Nil
    /\ chainID' = id
    /\ setting' = [setting EXCEPT ![c] = id]
    /\ UNCHANGED <<keystore, req, shown, returned>>

\* ... and returns ChainId(), a second read of it.
ChainId(c) ==
    /\ setting[c] # Nil
    /\ returned' = [returned EXCEPT ![c] = chainID]
    /\ setting' = [setting EXCEPT ![c] = Nil]
    /\ UNCHANGED <<keystore, req, shown, chainID>>

Init ==
    /\ keystore \in {{}} \cup {{[addr |-> a, pw |-> pw, ui |-> FALSE]} :
                                 a \in Addrs, pw \in Passwords}
    /\ req = [r \in Reqs |-> [stage |-> "new", addr |-> Nil, approved |-> FALSE,
                             pw |-> Nil, out |-> Nil]]
    /\ shown = {}
    /\ chainID \in ChainIds
    /\ setting = [c \in UICallers |-> Nil]
    /\ returned = [c \in UICallers |-> Nil]

Next ==
    \/ \E r \in Reqs, e \in {"SignData", "SignTypedData"}, ct \in ContentTypes,
          d \in Data, a \in Addrs : Receive(r, e, ct, d, a)
    \/ \E r \in Reqs, ans \in Answers : Approve(r, ans)
    \/ \E r \in Reqs, pw \in Passwords \cup {Nil} : QueryPassword(r, pw)
    \/ \E r \in Reqs : SignWithPassphrase(r)
    \/ \E a \in Addrs, pw \in Passwords, ok \in BOOLEAN : ImportRawKey(a, pw, ok)
    \/ \E a \in Addrs, ok \in BOOLEAN, pw \in Passwords : Import(a, ok, pw)
    \/ \E c \in UICallers, id \in ChainIds : SetChainId(c, id)
    \/ \E c \in UICallers : ChainId(c)

Spec == Init /\ [][Next]_vars

-----------------------------------------------------------------------------
(* Properties *)

Outcomes == {"badrequest", "uierror", "denied", "unknown", "nopassword",
             "decrypt", "signed"}

\* Every key the UI API stored is protected by a password that
\* ValidatePasswordFormat accepts, whichever import path stored it.
TypeOK ==
    /\ keystore \subseteq [addr : Addrs, pw : Passwords, ui : BOOLEAN]
    /\ \A k1, k2 \in keystore : k1.addr = k2.addr => k1 = k2
    /\ \A k \in keystore : k.ui => k.pw \in Strong
    /\ \A r \in Reqs : req[r].stage \in {"new", "approve", "password", "sign", "done"}
                     /\ req[r].out \in Outcomes \cup {Nil}
    /\ shown \subseteq Reqs
    /\ chainID \in ChainIds

\* sign asks the user before it looks the account up, "to prevent
\* account-enumeration via the API": a request the user did not approve
\* is answered the same whether or not the keystore holds its address,
\* however the user's imports interleave with the request.
NoAccountEnumeration ==
    \A r \in Reqs :
        req[r].stage = "done" /\ ~req[r].approved =>
            req[r].out \in {"badrequest", "uierror", "denied"}

=============================================================================
