----------------------------- MODULE CertStore -----------------------------
(***************************************************************************)
(* The certificate store of a CA (src/keyset/ca_*.c) under the server that *)
(* fills it (src/session/cmp_svr.c).  Certificates are issued in several   *)
(* transactions: a new one is added under an escaped ID ("esc1", invisible *)
(* to queries), and completed when the client has confirmed it; a renewal  *)
(* is moved to a second escape ("esc2") first, then the certificate that   *)
(* it replaces is revoked, and then it is completed.  Any statement may    *)
(* fail, and the program may crash between any two transactions; caCleanup *)
(* must then make the store whole before anybody else uses it.             *)
(*                                                                         *)
(* Each request is served by a process of its own, with its own connection *)
(* to the database.  A transaction is one step: the database undoes those  *)
(* that are not committed.  A certificate is named like its request.       *)
(***************************************************************************)
EXTENDS Naturals, FiniteSets

CONSTANTS Requests,    \* what clients ask for, each once
          Originals,   \* the certificates active at the start
          Kind,        \* "initial", "renewal", "direct" or "revocation" of a request
          KeyOf,       \* the key of each request (its certificate) and original
          UserOf,      \* the PKI user who authorises each request
          Target,      \* the certificate that each revocation request names
          Cleaner,     \* the process that runs caCleanup
          NoCert,
          MayFail,     \* may statements fail?
          MaxErrors,   \* failed iterations after which a cleanup loop gives up (5 in the code)
          MaxEntries,  \* iterations after which a cleanup loop gives up (500 in the code)
          MaxCrashes   \* bound on the number of crashes

Processes == Requests \cup {Cleaner}
Certs == Requests \cup Originals
Forms == {"std", "esc1", "esc2"}

\* The unique indices hold from the start.
ASSUME StoreConstants ==
    /\ Kind \in [Requests -> {"initial", "renewal", "direct", "revocation"}]
    /\ Target \in [Requests -> Certs]
    /\ DOMAIN KeyOf = Certs
    /\ Originals \cap Requests = {}
    /\ \A c, d \in Originals : KeyOf[c] = KeyOf[d] => c = d
    /\ Cleaner \notin Certs /\ NoCert \notin Certs
    /\ MaxErrors \in Nat \ {0} /\ MaxEntries \in Nat \ {0}
    /\ MaxCrashes \in Nat

VARIABLES certificates,  \* the rows <<certificate, form of its IDs>>
          certRequests,  \* the pending requests
          CRLs,          \* the revoked certificates
          certLog,       \* what is logged, as <<action, certificate or request>>
          pc,            \* where each process is
          original,      \* the certificate that a renewal has found for its key
          prev,          \* prevCertData: what the cleanup loop has handled last
          errors,        \* errorCount of the cleanup loop
          entries,       \* noEntriesProcessed of the cleanup loop
          failures,      \* failed statements of this cleanup: 0, 1 or more (2)
          crashes,
          accepted,      \* history: certificates whose confirmation the server has read
          acknowledged,  \* history: requests answered with success
          discarded      \* history: renewals that the cleanup could not read and deleted

tables == <<certificates, certRequests, CRLs, certLog>>
loop == <<prev, errors, entries>>
history == <<accepted, acknowledged, discarded>>
vars == <<tables, pc, original, loop, failures, crashes, history>>

------------------------------------------------------------------------------
At(p, l) == pc[p] = l

GoTo(p, l) == pc' = [pc EXCEPT ![p] = l]

\* The cleanup comes before anyone else accesses the store.
Running(p, l) == At(p, l) /\ (p = Cleaner \/ At(Cleaner, "idle"))

\* The row of the certificate that p handles.
Subject(p) == IF p = Cleaner THEN prev ELSE p

HasKey(form, k) == \E c \in Certs : <<c, form>> \in certificates /\ KeyOf[c] = k

\* Mutant: an index on the certificate alone.
MayInsertSameKey(c, form) == <<c, form>> \notin certificates

\* The unique indices on issuerID, keyID and certID, escape included.
MayInsert(c, form) == ~HasKey(form, KeyOf[c])

Logged(a, c) == <<a, c>> \in certLog

\* A statement or transaction that the constraints allow succeeds, or fails all the same.
Succeeds(allowed) == allowed /\ UNCHANGED failures

Fails(p, allowed) ==
    /\ ~allowed \/ MayFail
    /\ failures' = IF p = Cleaner /\ allowed THEN (IF failures = 0 THEN 1 ELSE 2) ELSE failures

\* Where a procedure that sessions and the cleanup share goes on.
Return(p, cleanupLoop, serverStep) ==
    GoTo(p, IF p = Cleaner THEN cleanupLoop ELSE serverStep)

------------------------------------------------------------------------------
(* Requests: caAddCertRequest *)

Log(a, c) == certLog' = certLog \cup {<<a, c>>}

\* The certificate to revoke must be active; a user's first certificate must be
\* the first one.  A query that fails refuses the one and lets the other pass.
CheckRequest(s) ==
    /\ Running(s, "new")
    /\ LET revocable == <<Target[s], "std">> \in certificates
           used == \E r \in Requests : UserOf[r] = UserOf[s] /\ Logged("request", r)
       IN  \/ /\ Kind[s] = "revocation"
              /\ \/ Succeeds(revocable) /\ GoTo(s, "insert")
                 \/ Fails(s, revocable) /\ GoTo(s, "ended")
           \/ /\ Kind[s] = "initial"
              /\ \/ Succeeds(used) /\ GoTo(s, "ended")
                 \/ Fails(s, used) /\ GoTo(s, "insert")
           \/ /\ Kind[s] \in {"renewal", "direct"}
              /\ GoTo(s, "insert")
              /\ UNCHANGED failures
    /\ UNCHANGED <<tables, original, loop, crashes, history>>

RequestAction(s) == CASE Kind[s] = "revocation" -> "request_revocation"
                      [] Kind[s] = "renewal" -> "request_renewal"
                      [] OTHER -> "request"

InsertRequest(s) ==
    /\ Running(s, "insert")
    /\ \/ /\ Succeeds(TRUE)
          /\ certRequests' = certRequests \cup {s}
          /\ Log(RequestAction(s), s)
          /\ GoTo(s, IF Kind[s] = "revocation" THEN "target" ELSE "check")
       \/ /\ Fails(s, TRUE)
          /\ GoTo(s, "ended")
          /\ UNCHANGED <<certRequests, certLog>>
    /\ UNCHANGED <<certificates, CRLs, original, loop, crashes, history>>

------------------------------------------------------------------------------
(* Issue: caIssueCert *)

\* getCertIssueType and checkDuplicateAdd: a new certificate must not clash with
\* an active one when it is completed.  A failed look for one counts as none found.
CheckDuplicateAdd(s) ==
    /\ Running(s, "check")
    /\ LET duplicate == Kind[s] = "initial" /\ HasKey("std", KeyOf[s])
       IN  \/ Fails(s, ~duplicate) /\ GoTo(s, "ended")
           \/ Fails(s, duplicate) /\ GoTo(s, "create")
    /\ UNCHANGED <<tables, original, loop, crashes, history>>

\* Add the certificate, partially unless it is issued directly, and take the
\* request away.
IssueCert(s) ==
    /\ Running(s, "create")
    /\ LET form == IF Kind[s] = "direct" THEN "std" ELSE "esc1"
           allowed == MayInsert(s, form) /\ s \in certRequests
       IN  \/ /\ Succeeds(allowed)
              /\ certificates' = certificates \cup {<<s, form>>}
              /\ Log(IF Kind[s] = "direct" THEN "issue" ELSE "creation", s)
              /\ certRequests' = certRequests \ {s}
              /\ GoTo(s, IF Kind[s] = "direct" THEN "acknowledge" ELSE "respond")
           \/ /\ Fails(s, allowed)
              /\ GoTo(s, "ended")
              /\ UNCHANGED <<certificates, certRequests, certLog>>
    /\ UNCHANGED <<CRLs, original, loop, crashes, history>>

------------------------------------------------------------------------------
(* The dialogue with the client: cmp_svr.c *)

SendResponse(s) ==
    /\ Running(s, "respond")
    /\ \E l \in {"confirm", "drop"} : GoTo(s, l)
    /\ UNCHANGED <<tables, original, loop, failures, crashes, history>>

\* Mutant: what the confirmation says is not looked at.
ReadConfirmationOnly(s) ==
    /\ Running(s, "confirm")
    /\ accepted' \in {accepted, accepted \cup {s}}
    /\ GoTo(s, "complete")
    /\ UNCHANGED <<tables, original, loop, failures, crashes, acknowledged, discarded>>

\* The client accepts; or it rejects or the confirmation cannot be read.
ReadConfirmation(s) ==
    /\ Running(s, "confirm")
    /\ \/ accepted' = accepted \cup {s} /\ GoTo(s, "complete")
       \/ UNCHANGED accepted /\ GoTo(s, "reverse")
    /\ UNCHANGED <<tables, original, loop, failures, crashes, acknowledged, discarded>>

\* The final answer, which may get lost.
Acknowledge(s) ==
    /\ Running(s, "acknowledge")
    /\ acknowledged' \in {acknowledged, acknowledged \cup {s}}
    /\ GoTo(s, "ended")
    /\ UNCHANGED <<tables, original, loop, failures, crashes, accepted, discarded>>

------------------------------------------------------------------------------
(* Completion: caIssueCertComplete, completeCert, completeCertRenewal *)

Replace(c, from, to) == certificates' = (certificates \ {<<c, from>>}) \cup {<<c, to>>}

\* ESC1 -> std and logged, or, for a renewal, ESC1 -> ESC2.
CompleteCert(s) ==
    /\ Running(s, "complete")
    /\ LET form == IF Kind[s] = "renewal" THEN "esc2" ELSE "std"
           allowed == MayInsert(s, form) /\ <<s, "esc1">> \in certificates
       IN  \/ /\ Succeeds(allowed)
              /\ Replace(s, "esc1", form)
              /\ IF Kind[s] = "renewal" THEN UNCHANGED certLog ELSE Log("complete", s)
              /\ GoTo(s, IF Kind[s] = "renewal" THEN "fetch" ELSE "acknowledge")
           \/ /\ Fails(s, allowed)
              /\ GoTo(s, "ended")
              /\ UNCHANGED <<certificates, certLog>>
    /\ UNCHANGED <<certRequests, CRLs, original, loop, crashes, history>>

\* The active certificate with the key of the new one, if there is still one.
FetchOriginal(p) ==
    /\ Running(p, "fetch")
    /\ LET k == KeyOf[Subject(p)]
       IN  \/ /\ Succeeds(~HasKey("std", k))
              /\ GoTo(p, "replace")
              /\ UNCHANGED original
           \/ \E c \in Certs :
                 /\ Succeeds(<<c, "std">> \in certificates /\ KeyOf[c] = k)
                 /\ original' = [original EXCEPT ![p] = c]
                 /\ GoTo(p, "revoke")
           \/ /\ MayFail /\ Fails(p, TRUE)
              /\ Return(p, "renewals", "ended")
              /\ UNCHANGED original
    /\ UNCHANGED <<tables, loop, crashes, history>>

\* Mutant: the row is looked for under the escaped ID.
RevokeOriginalEscaped(p) ==
    /\ Running(p, "revoke")
    /\ CRLs' = CRLs \cup {original[p]}
    /\ Log("revoke", original[p])
    /\ certificates' = certificates \ {<<original[p], "esc1">>}
    /\ GoTo(p, "replace")
    /\ UNCHANGED <<certRequests, original, loop, failures, crashes, history>>

\* revokeCertDirect: CRL entry, log and deletion in one transaction ...
RevokeOriginal(p) ==
    /\ Running(p, "revoke")
    /\ LET c == original[p]
           allowed == c \notin CRLs /\ <<c, "std">> \in certificates
       IN  \/ /\ Succeeds(allowed)
              /\ CRLs' = CRLs \cup {c}
              /\ Log("revoke", c)
              /\ certificates' = certificates \ {<<c, "std">>}
              /\ GoTo(p, "replace")
           \/ /\ Fails(p, allowed)
              /\ GoTo(p, "delete")
              /\ UNCHANGED <<certificates, CRLs, certLog>>
    /\ UNCHANGED <<certRequests, original, loop, crashes, history>>

\* ... and, if that fails, a straight delete.
DeleteOriginal(p) ==
    /\ Running(p, "delete")
    /\ LET row == <<original[p], "std">>
       IN  \/ /\ Succeeds(row \in certificates)
              /\ certificates' = certificates \ {row}
              /\ GoTo(p, "replace")
           \/ /\ Fails(p, row \in certificates)
              /\ Return(p, "renewals", "ended")
              /\ UNCHANGED certificates
    /\ UNCHANGED <<certRequests, CRLs, certLog, original, loop, crashes, history>>

\* Mutant: a completion that fails is not noticed.
CompleteRenewalUnchecked(p) ==
    /\ Running(p, "replace")
    /\ LET c == Subject(p)
           allowed == MayInsert(c, "std") /\ <<c, "esc2">> \in certificates
       IN  \/ Succeeds(allowed) /\ Replace(c, "esc2", "std") /\ Log("complete", c)
           \/ Fails(p, allowed) /\ UNCHANGED <<certificates, certLog>>
    /\ Return(p, "renewals", "acknowledge")
    /\ UNCHANGED <<certRequests, CRLs, original, loop, crashes, history>>

\* ESC2 -> std.
CompleteRenewal(p) ==
    /\ Running(p, "replace")
    /\ LET c == Subject(p)
           allowed == MayInsert(c, "std") /\ <<c, "esc2">> \in certificates
       IN  \/ /\ Succeeds(allowed)
              /\ Replace(c, "esc2", "std")
              /\ Log("complete", c)
              /\ Return(p, "renewals", "acknowledge")
           \/ /\ Fails(p, allowed)
              /\ Return(p, "renewals", "ended")
              /\ UNCHANGED <<certificates, certLog>>
    /\ UNCHANGED <<certRequests, CRLs, original, loop, crashes, history>>

------------------------------------------------------------------------------
(* Abandoning an issue *)

\* CERT_CREATION_DROP, and its straight delete.
DropCert(s) ==
    /\ Running(s, "drop")
    /\ LET row == <<s, "esc1">>
       IN  \/ /\ Succeeds(row \in certificates)
              /\ certificates' = certificates \ {row}
              /\ Log("drop", s)
              /\ GoTo(s, "ended")
           \/ /\ Fails(s, row \in certificates)
              /\ GoTo(s, "undo")
              /\ UNCHANGED <<certificates, certLog>>
    /\ UNCHANGED <<certRequests, CRLs, original, loop, crashes, history>>

\* CERT_CREATION_REVERSE: the certificate goes to the CRL ...
ReverseCert(p) ==
    /\ Running(p, "reverse")
    /\ LET c == Subject(p)
           allowed == c \notin CRLs /\ <<c, "esc1">> \in certificates
       IN  \/ /\ Succeeds(allowed)
              /\ CRLs' = CRLs \cup {c}
              /\ Log("reverse", c)
              /\ certificates' = certificates \ {<<c, "esc1">>}
              /\ Return(p, "partials", "ended")
           \/ /\ Fails(p, allowed)
              /\ GoTo(p, "undo")
              /\ UNCHANGED <<certificates, CRLs, certLog>>
    /\ UNCHANGED <<certRequests, original, loop, crashes, history>>

\* ... or, if that fails, is deleted.
UndoCert(p) ==
    /\ Running(p, "undo")
    /\ LET row == <<Subject(p), "esc1">>
       IN  \/ Succeeds(row \in certificates) /\ certificates' = certificates \ {row}
           \/ Fails(p, row \in certificates) /\ UNCHANGED certificates
    /\ Return(p, "partials", "ended")
    /\ UNCHANGED <<certRequests, CRLs, certLog, original, loop, crashes, history>>

------------------------------------------------------------------------------
(* Revocation on request: caRevokeCert *)

FetchTarget(p) ==
    /\ Running(p, "target")
    /\ LET active == <<Target[Subject(p)], "std">> \in certificates
       IN  \/ Succeeds(active) /\ GoTo(p, "revoke_target")
           \/ Fails(p, active) /\ Return(p, "drop_request", "ended")
    /\ UNCHANGED <<tables, original, loop, crashes, history>>

RevokeTarget(p) ==
    /\ Running(p, "revoke_target")
    /\ LET r == Subject(p)
           c == Target[r]
           allowed == c \notin CRLs /\ <<c, "std">> \in certificates /\ r \in certRequests
       IN  \/ /\ Succeeds(allowed)
              /\ CRLs' = CRLs \cup {c}
              /\ Log("revoke", c)
              /\ certRequests' = certRequests \ {r}
              /\ certificates' = certificates \ {<<c, "std">>}
              /\ Return(p, "revocations", "acknowledge")
           \/ /\ Fails(p, allowed)
              /\ Return(p, "drop_request", "ended")
              /\ UNCHANGED tables
    /\ UNCHANGED <<original, loop, crashes, history>>

------------------------------------------------------------------------------
(* Cleanup at the start: caCleanup.  Each loop takes one row after the other,  *)
(* stops when there is none left, when it meets the row that it has just       *)
(* handled, or after too many errors, and then deletes what is left outright.  *)

Enter(l) == GoTo(Cleaner, l) /\ prev' = NoCert /\ errors' = 0 /\ entries' = 0

Iterating(l) == At(Cleaner, l) /\ errors < MaxErrors /\ entries < MaxEntries
GivingUp(l) == At(Cleaner, l) /\ ~(errors < MaxErrors /\ entries < MaxEntries)

\* An iteration that comes to nothing.
CountError ==
    /\ errors' = errors + 1 /\ entries' = entries + 1
    /\ UNCHANGED pc

\* Mutant: iterations are not counted.
TakeUncounted(c, stuck, handle) ==
    /\ Succeeds(TRUE)
    /\ GoTo(Cleaner, IF c = prev THEN stuck ELSE handle)
    /\ prev' = c
    /\ UNCHANGED <<errors, entries>>

\* The next row of a loop: seen before, or to be handled.
Take(c, stuck, handle) ==
    /\ Succeeds(TRUE)
    /\ GoTo(Cleaner, IF c = prev THEN stuck ELSE handle)
    /\ prev' = c
    /\ entries' = entries + 1
    /\ UNCHANGED errors

PendingRequests == {r \in certRequests : Kind[r] # "revocation"}
PendingRevocations == {r \in certRequests : Kind[r] = "revocation"}
Partial(form) == {c \in Certs : <<c, form>> \in certificates}

NextRequest ==
    /\ \/ /\ Iterating("requests")
          /\ \/ PendingRequests = {} /\ Succeeds(TRUE) /\ Enter("partials")
             \/ \E r \in PendingRequests : Take(r, "delete_requests", "delete_request")
             \/ MayFail /\ Fails(Cleaner, TRUE) /\ CountError /\ UNCHANGED prev
       \/ /\ GivingUp("requests")
          /\ GoTo(Cleaner, "delete_requests")
          /\ UNCHANGED <<loop, failures>>
    /\ UNCHANGED <<tables, original, crashes, history>>

\* Only a log entry that cannot be written counts as an error.
DeleteRequest ==
    /\ At(Cleaner, "delete_request")
    /\ \/ /\ Succeeds(prev \in certRequests)
          /\ certRequests' = certRequests \ {prev}
          /\ Log("cleanup", prev)
          /\ UNCHANGED errors
       \/ /\ Fails(Cleaner, prev \in certRequests)
          /\ errors' \in {errors, errors + 1}
          /\ UNCHANGED <<certRequests, certLog>>
    /\ GoTo(Cleaner, "requests")
    /\ UNCHANGED <<certificates, CRLs, original, prev, entries, crashes, history>>

\* Mutant: no straight delete.
DeleteRequestsNot ==
    /\ At(Cleaner, "delete_requests")
    /\ Enter("partials")
    /\ UNCHANGED <<tables, original, failures, crashes, history>>

DeleteRequests ==
    /\ At(Cleaner, "delete_requests")
    /\ \/ Succeeds(TRUE) /\ certRequests' = certRequests \ PendingRequests
       \/ Fails(Cleaner, PendingRequests # {}) /\ UNCHANGED certRequests
    /\ Enter("partials")
    /\ UNCHANGED <<certificates, CRLs, certLog, original, crashes, history>>

\* deleteIncompleteCert, for a certificate that getNextPartialCert could not read (and may have
\* remembered nevertheless).
DeleteIncomplete(form) ==
    /\ MayFail /\ Fails(Cleaner, TRUE)
    /\ \/ \E c \in Partial(form) :
             /\ certificates' = certificates \ {<<c, form>>}
             /\ discarded' = IF form = "esc2" THEN discarded \cup {c} ELSE discarded
       \/ UNCHANGED <<certificates, discarded>>
    /\ CountError /\ prev' \in {prev} \cup Partial(form)

\* Certificates whose issue was interrupted are revoked, for want of better knowledge.
NextPartial ==
    /\ \/ /\ Iterating("partials")
          /\ \/ Partial("esc1") = {} /\ Succeeds(TRUE) /\ Enter("renewals")
             \/ \E c \in Partial("esc1") : Take(c, "delete_partials", "reverse")
          /\ UNCHANGED <<certificates, discarded>>
       \/ Iterating("partials") /\ DeleteIncomplete("esc1")
       \/ /\ GivingUp("partials")
          /\ GoTo(Cleaner, "delete_partials")
          /\ UNCHANGED <<certificates, discarded, loop, failures>>
    /\ UNCHANGED <<certRequests, CRLs, certLog, original, crashes, accepted, acknowledged>>

\* Mutant: the pattern fits both escapes.
DeletePartialsOfAnyForm ==
    /\ At(Cleaner, "delete_partials")
    /\ certificates' = certificates \ {<<c, f>> : c \in Certs, f \in {"esc1", "esc2"}}
    /\ Enter("renewals")
    /\ UNCHANGED <<certRequests, CRLs, certLog, original, failures, crashes, history>>

DeletePartials ==
    /\ At(Cleaner, "delete_partials")
    /\ \/ /\ Succeeds(TRUE)
          /\ certificates' = certificates \ {<<c, "esc1">> : c \in Certs}
       \/ Fails(Cleaner, Partial("esc1") # {}) /\ UNCHANGED certificates
    /\ Enter("renewals")
    /\ UNCHANGED <<certRequests, CRLs, certLog, original, crashes, history>>

\* Renewals whose second half is missing are completed; there is no straight delete.
NextRenewal ==
    /\ \/ /\ Iterating("renewals")
          /\ \/ Partial("esc2") = {} /\ Succeeds(TRUE) /\ Enter("revocations")
             \/ \E c \in Partial("esc2") \ {prev} : Take(c, "fetch", "fetch")
             \/ prev \in Partial("esc2") /\ Succeeds(TRUE) /\ Enter("revocations")
          /\ UNCHANGED <<certificates, discarded>>
       \/ Iterating("renewals") /\ DeleteIncomplete("esc2")
       \/ /\ GivingUp("renewals")
          /\ Enter("revocations")
          /\ UNCHANGED <<certificates, discarded, failures>>
    /\ UNCHANGED <<certRequests, CRLs, certLog, original, crashes, accepted, acknowledged>>

\* A request that cannot be read is dropped.
NextRevocation ==
    /\ \/ /\ Iterating("revocations")
          /\ \/ PendingRevocations = {} /\ Succeeds(TRUE) /\ Enter("idle")
             \/ \E r \in PendingRevocations : Take(r, "delete_revocations", "target")
             \/ \E r \in PendingRevocations \ {prev} :
                   /\ MayFail /\ Fails(Cleaner, TRUE)
                   /\ GoTo(Cleaner, "drop_request")
                   /\ prev' = r /\ errors' = errors + 1 /\ entries' = entries + 1
             \/ MayFail /\ Fails(Cleaner, TRUE) /\ CountError /\ UNCHANGED prev
       \/ /\ GivingUp("revocations")
          /\ GoTo(Cleaner, "delete_revocations")
          /\ UNCHANGED <<loop, failures>>
    /\ UNCHANGED <<tables, original, crashes, history>>

\* deleteIncompleteRequest: a revocation that cannot be carried out is dropped.
DropRequest ==
    /\ At(Cleaner, "drop_request")
    /\ \/ Succeeds(TRUE) /\ certRequests' = certRequests \ {prev}
       \/ Fails(Cleaner, TRUE) /\ UNCHANGED certRequests
    /\ GoTo(Cleaner, "revocations")
    /\ UNCHANGED <<certificates, CRLs, certLog, original, loop, crashes, history>>

DeleteRevocations ==
    /\ At(Cleaner, "delete_revocations")
    /\ \/ Succeeds(TRUE) /\ certRequests' = certRequests \ PendingRevocations
       \/ Fails(Cleaner, PendingRevocations # {}) /\ UNCHANGED certRequests
    /\ Enter("idle")
    /\ UNCHANGED <<certificates, CRLs, certLog, original, crashes, history>>

------------------------------------------------------------------------------
\* The program ends anywhere and is started again, with a cleanup.
Crash ==
    /\ crashes < MaxCrashes
    /\ crashes' = crashes + 1
    /\ pc' = [p \in Processes |-> IF p = Cleaner THEN "requests"
                                  ELSE IF pc[p] = "new" THEN "new" ELSE "ended"]
    /\ prev' = NoCert /\ errors' = 0 /\ entries' = 0 /\ failures' = 0
    /\ UNCHANGED <<tables, original, history>>

Serve(s) == \/ CheckRequest(s) \/ InsertRequest(s) \/ CheckDuplicateAdd(s) \/ IssueCert(s)
            \/ SendResponse(s) \/ ReadConfirmation(s) \/ CompleteCert(s)
            \/ DropCert(s) \/ Acknowledge(s)

\* The procedures that the server and the cleanup share.
Shared(p) == \/ FetchOriginal(p) \/ RevokeOriginal(p) \/ DeleteOriginal(p) \/ CompleteRenewal(p)
             \/ ReverseCert(p) \/ UndoCert(p) \/ FetchTarget(p) \/ RevokeTarget(p)

caCleanup == \/ NextRequest \/ DeleteRequest \/ DeleteRequests
             \/ NextPartial \/ DeletePartials \/ NextRenewal
             \/ NextRevocation \/ DropRequest \/ DeleteRevocations

Init ==
    /\ certificates = {<<c, "std">> : c \in Originals}
    /\ certRequests = {} /\ CRLs = {} /\ certLog = {}
    /\ pc = [p \in Processes |-> IF p = Cleaner THEN "idle" ELSE "new"]
    /\ original = [p \in Processes |-> NoCert]
    /\ prev = NoCert /\ errors = 0 /\ entries = 0 /\ failures = 0 /\ crashes = 0
    /\ accepted = {} /\ acknowledged = {} /\ discarded = {}

\* All requests are served.
Finished ==
    /\ At(Cleaner, "idle") /\ \A s \in Requests : At(s, "ended")
    /\ UNCHANGED vars

Next == \/ \E s \in Requests : Serve(s)
        \/ \E p \in Processes : Shared(p)
        \/ caCleanup
        \/ Crash
        \/ Finished

Spec == Init /\ [][Next]_vars

\* The cleanup runs to its end unless the program does.
FairSpec == Spec /\ WF_vars(caCleanup \/ Shared(Cleaner))

------------------------------------------------------------------------------
Labels == {"new", "insert", "check", "create", "respond", "confirm", "complete", "drop",
           "fetch", "revoke", "delete", "replace", "reverse", "undo", "target", "revoke_target",
           "acknowledge", "ended", "idle", "requests", "delete_request", "delete_requests",
           "partials", "delete_partials", "renewals", "revocations", "drop_request",
           "delete_revocations"}

TypeOK ==
    /\ pc \in [Processes -> Labels]
    /\ certificates \subseteq Certs \X Forms
    /\ certRequests \subseteq Requests
    /\ CRLs \subseteq Certs
    /\ original \in [Processes -> Certs \cup {NoCert}]
    /\ prev \in Certs \cup {NoCert}
    /\ errors \in Nat /\ entries \in Nat /\ failures \in 0 .. 2 /\ crashes \in Nat
    /\ accepted \subseteq Requests /\ acknowledged \subseteq Requests
    /\ discarded \subseteq Certs

\* A certificate that has been revoked is in the store in no form, and no completion,
\* cleanup or race between a renewal and a revocation request brings it back.
RevokedIsGone == \A c \in CRLs : \A f \in Forms : <<c, f>> \notin certificates

\* A certificate with the key of c is there, active or to be completed by the next
\* cleanup, unless a client has asked for a revocation or the cleanup has deleted a
\* renewal that it could not read.
Kept(c) ==
    \/ \E d \in Certs : KeyOf[d] = KeyOf[c] /\ {<<d, "std">>, <<d, "esc2">>} \cap certificates # {}
    \/ \E r \in Requests : Logged("request_revocation", r) /\ KeyOf[Target[r]] = KeyOf[c]
    \/ \E d \in discarded : KeyOf[d] = KeyOf[c]

\* A renewal never leaves its key without a certificate, whatever fails and whenever
\* the program stops.
KeyKept == \A o \in Originals : Kept(o)

\* A certificate that needs a confirmation becomes active only after the client has
\* given it, be it in the session or at the restart.
OnlyConfirmedActive ==
    \A s \in Requests : /\ Kind[s] \in {"initial", "renewal"}
                        /\ {<<s, "std">>, <<s, "esc2">>} \cap certificates # {}
                        => s \in accepted

Done(s) == IF Kind[s] = "revocation"
             THEN Target[s] \in CRLs
             ELSE (Logged("complete", s) \/ Logged("issue", s)) /\ ~Logged("reverse", s)

\* What a client has been told stays true: a certificate whose issue was acknowledged
\* has been completed and is not taken back as an incomplete one, and one whose
\* revocation was acknowledged is on the CRL.
AcknowledgedIsDone == \A s \in acknowledged : Done(s)

\* The log agrees with the tables: an active certificate is logged as issued or
\* completed, the CRL holds what is logged as revoked or reversed, and a request is
\* pending only if it is logged and has not led to a certificate.
LogAgrees ==
    /\ \A s \in Requests : <<s, "std">> \in certificates => Logged("complete", s) \/ Logged("issue", s)
    /\ CRLs = {c \in Certs : Logged("revoke", c) \/ Logged("reverse", c)}
    /\ \A r \in certRequests : Logged(RequestAction(r), r) /\ ~Logged("creation", r) /\ ~Logged("issue", r)

\* What holds at every step in between: the cleanup is alone; the renewal that a
\* process completes is there, and what it is about to revoke has the same key; a
\* request is logged when it is pending; and a certificate has one form at a time.
CleanupAlone == At(Cleaner, "idle") \/ \A s \in Requests : pc[s] \in {"new", "ended"}

RenewalAtHand ==
    \A p \in Processes :
       /\ pc[p] \in {"fetch", "revoke", "delete", "replace"} => <<Subject(p), "esc2">> \in certificates
       /\ pc[p] \in {"revoke", "delete"} => /\ original[p] \in Certs
                                           /\ KeyOf[original[p]] = KeyOf[Subject(p)]

RevocationAtHand ==
    /\ \A p \in Processes : pc[p] \in {"target", "revoke_target"}
          => Subject(p) \in Requests /\ Kind[Subject(p)] = "revocation"
    /\ \A r \in certRequests : Logged(RequestAction(r), r)

NotYetThere ==
    \A s \in Requests : pc[s] \in {"new", "insert", "check", "create"}
       => s \notin CRLs /\ \A f \in Forms : <<s, f>> \notin certificates

OneForm ==
    \A c \in Certs : \A f, g \in Forms :
       <<c, f>> \in certificates /\ <<c, g>> \in certificates => f = g

ConfirmedFirst == \A s \in Requests : pc[s] = "complete" => s \in accepted

StoreInv ==
    /\ TypeOK /\ CleanupAlone /\ RenewalAtHand /\ RevocationAtHand /\ NotYetThere
    /\ OneForm /\ ConfirmedFirst /\ RevokedIsGone /\ KeyKept /\ OnlyConfirmedActive

\* And for the log and the answers: nothing is logged of a certificate before it is
\* issued, a completed one is not partial, and what is about to be acknowledged is done.
FreshIsUnlogged ==
    \A s \in Requests : pc[s] \in {"new", "insert", "check", "create"}
       => ~Logged("creation", s) /\ ~Logged("issue", s) /\ ~Logged("complete", s)

CompletedIsWhole ==
    \A s \in Requests : Logged("complete", s) \/ Logged("issue", s)
       => <<s, "esc1">> \notin certificates

AnsweredIsDone == \A s \in Requests : pc[s] = "acknowledge" => Done(s)

\* Only requests for certificates lead to certificates.
IssuesOnly ==
    \A s \in Requests : pc[s] \in {"check", "create"} \/ (\E f \in Forms : <<s, f>> \in certificates)
       => Kind[s] # "revocation"

AnswerInv == /\ FreshIsUnlogged /\ CompletedIsWhole /\ IssuesOnly /\ AnsweredIsDone
             /\ LogAgrees /\ AcknowledgedIsDone

\* The cleanup does its work: when services start again nothing is left half done if
\* no statement has failed, and after a single failure at most a renewal is.
CleanedUp ==
    [][~At(Cleaner, "idle") /\ At(Cleaner, "idle")' =>
         /\ failures' = 0 => Partial("esc2")' = {}
         /\ failures' <= 1 => certRequests' = {} /\ Partial("esc1")' = {}]_vars

\* The inductive invariant behind CleanedUp.  Which loop the cleanup is in, and its rows.
InRequests == pc[Cleaner] \in {"requests", "delete_request", "delete_requests"}
InPartials == pc[Cleaner] \in {"partials", "reverse", "undo", "delete_partials"}
InRenewals == pc[Cleaner] \in {"renewals", "fetch", "revoke", "delete", "replace"}
InRevocations == pc[Cleaner] \in {"revocations", "target", "revoke_target", "drop_request",
                                  "delete_revocations"}

Between == {"requests", "partials", "renewals", "revocations"}          \* two iterations
AllAtOnce == {"delete_requests", "delete_partials", "delete_revocations"}

RowsLeft == CASE InRequests -> PendingRequests
              [] InPartials -> Partial("esc1")
              [] InRenewals -> Partial("esc2")
              [] InRevocations -> PendingRevocations
              [] OTHER -> {}

\* One active certificate for each key, and only what a request has led to is escaped.
OneActive ==
    \A c, d \in Certs :
       {<<c, "std">>, <<d, "std">>} \subseteq certificates /\ KeyOf[c] = KeyOf[d] => c = d
EscapedIssued ==
    \A c \in Certs : {<<c, "esc1">>, <<c, "esc2">>} \cap certificates # {} => c \in Requests

\* The row that an iteration is about is there, and so is the certificate that a renewal
\* replaces until its key is free.
RowAtHand ==
    /\ ~At(Cleaner, "idle") /\ pc[Cleaner] \notin Between \cup AllAtOnce => prev \in RowsLeft
    /\ pc[Cleaner] \in {"revoke", "delete"} => <<original[Cleaner], "std">> \in certificates
    /\ At(Cleaner, "replace") => ~HasKey("std", KeyOf[prev])

\* Without a failure each iteration takes one row away, and they suffice for all rows.
LoopOnCourse ==
    ~At(Cleaner, "idle") /\ failures = 0 =>
       /\ errors = 0
       /\ entries + Cardinality(RowsLeft \ {prev}) <= Cardinality(Requests)
       /\ pc[Cleaner] \in Between => prev \notin RowsLeft
       /\ pc[Cleaner] \in AllAtOnce => RowsLeft = {}

\* What the loops that have ended leave behind.
LoopsBehind ==
    /\ InPartials \/ InRenewals \/ InRevocations => PendingRequests = {} \/ failures = 2
    /\ InRenewals \/ InRevocations => Partial("esc1") = {} \/ failures = 2
    /\ InRevocations => Partial("esc2") = {} \/ failures # 0

CleanupInv == OneActive /\ EscapedIssued /\ RowAtHand /\ LoopOnCourse /\ LoopsBehind

\* A loop of the cleanup can go through the rows of all requests (500 in the code).
StoreFits == IsFiniteSet(Requests) /\ Cardinality(Requests) <= MaxEntries

\* A cleanup ends, however often statements fail.
CleanupEnds == (~At(Cleaner, "idle")) ~> At(Cleaner, "idle")

------------------------------------------------------------------------------
(* What the store promises about each certificate: CertLifecycle.            *)
Requested(c) == c \in Requests /\ pc[c] \in {"new", "insert", "check", "create"}

\* Where a certificate is in its life, from the rows that there are of it.
Status(c) == IF <<c, "std">> \in certificates THEN "active"
             ELSE IF <<c, "esc2">> \in certificates THEN "renewing"
             ELSE IF <<c, "esc1">> \in certificates
                    THEN IF c \in accepted THEN "confirmed" ELSE "partial"
             ELSE IF c \in CRLs THEN "revoked"
             ELSE IF Requested(c) THEN "requested"
             ELSE "gone"

RequestsOf(kind) == {s \in Requests : Kind[s] = kind}

Life == INSTANCE CertLifecycle
          WITH status <- [c \in Certs |-> Status(c)],
               Direct <- RequestsOf("direct"), Renewals <- RequestsOf("renewal"),
               Revocable <- {Target[r] : r \in RequestsOf("revocation")}

\* The store, with its escaped rows, CRL, sessions, failures, crashes and cleanup, keeps
\* the promise of CertLifecycle: one certificate of a key at each stage, active only when
\* confirmed, replaced only by a renewal that is there, and gone for good.
CertLifecycleSpec == Life!Spec

\* What that takes besides StoreInv: nobody has confirmed what is not issued yet.
FreshIsUnconfirmed ==
    \A s \in accepted : pc[s] \notin {"new", "insert", "check", "create", "respond", "confirm"}
=============================================================================
