-------------------------- MODULE CertStore_proofs --------------------------
(***************************************************************************)
(* The CA store for any requests, keys, failures and crashes: no revoked   *)
(* certificate is in the store, no renewal leaves its key without a        *)
(* certificate, none becomes active without its confirmation, the log      *)
(* agrees with the tables and what was acknowledged stays done; and a      *)
(* cleanup in which no statement fails leaves nothing half done.           *)
(*                                                                         *)
(* StoreInv is inductive, and so is StoreInv /\ AnswerInv: one lemma for   *)
(* each action and invariant, with a step for each conjunct.               *)
(***************************************************************************)
EXTENDS CertStore, FiniteSetTheorems, TLAPS

USE DEF At, GoTo, Running, Processes, Certs, Forms, Succeeds, Fails, tables, loop, history,
        Subject, Return, Log, Logged

------------------------------------------------------------------------------
(* What changes of the tables mean for the invariants *)

\* A certificate that goes to the CRL as its only row is deleted is gone.
LEMMA Gone ==
  ASSUME OneForm, RevokedIsGone, NEW c \in Certs, NEW f \in Forms, <<c, f>> \in certificates,
         certificates' = certificates \ {<<c, f>>}, CRLs' = CRLs \cup {c}
  PROVE  RevokedIsGone'
<1>1. \A d \in Certs : \A g \in Forms :
         <<d, g>> \in certificates' => <<d, g>> \in certificates /\ ~(d = c /\ g = f)
    OBVIOUS
<1>2. \A g \in Forms : <<c, g>> \notin certificates'
    BY <1>1 DEF OneForm
<1> QED BY <1>1, <1>2 DEF RevokedIsGone

\* A key is kept if each of its certificates is replaced or excused.
LEMMA KeysStay ==
  ASSUME KeyKept, certLog \subseteq certLog', discarded \subseteq discarded',
         \A c \in Certs : {<<c, "std">>, <<c, "esc2">>} \cap certificates # {} => Kept(c)'
  PROVE  KeyKept'
  BY DEF KeyKept, Kept

\* A key is kept if no row but a partial one is deleted.
LEMMA RowsStay ==
  ASSUME KeyKept, certLog \subseteq certLog', discarded \subseteq discarded',
         \A c \in Certs : /\ <<c, "std">> \in certificates => <<c, "std">> \in certificates'
                          /\ <<c, "esc2">> \in certificates => <<c, "esc2">> \in certificates'
  PROVE  KeyKept'
<1>1. \A c \in Certs : {<<c, "std">>, <<c, "esc2">>} \cap certificates # {} => Kept(c)'
    BY DEF Kept
<1> QED BY <1>1, KeysStay

\* The counters and the row of a cleanup loop keep their types.
LEMMA LoopTypes ==
  ASSUME TypeOK, NEW l1 \in Labels, NEW l2 \in Labels, NEW l3 \in Labels,
         \/ Enter(l1)
         \/ CountError /\ prev' \in Certs \cup {NoCert}
         \/ GoTo(Cleaner, l2) /\ UNCHANGED loop
         \/ \E c \in Certs : Take(c, l2, l3)
  PROVE  /\ pc' \in [Processes -> Labels] /\ prev' \in Certs \cup {NoCert}
         /\ errors' \in Nat /\ entries' \in Nat
  BY DEF TypeOK, Enter, CountError, Take

\* What is done stays done when only partial certificates are reversed.
LEMMA DoneStays ==
  ASSUME CompletedIsWhole, CRLs \subseteq CRLs', certLog \subseteq certLog',
         \A c \in Certs : Logged("reverse", c)' => Logged("reverse", c) \/ <<c, "esc1">> \in certificates
  PROVE  \A r \in Requests : Done(r) => Done(r)'
  BY DEF Done, CompletedIsWhole

------------------------------------------------------------------------------
(* StoreInv: one lemma for each action *)

\* CheckRequest preserves the invariant.
LEMMA CheckRequestKeeps ==
  ASSUME StoreInv, NEW s \in Requests, CheckRequest(s)
  PROVE  StoreInv'
<1>1. /\ TypeOK' /\ CleanupAlone' /\ RenewalAtHand' /\ RevocationAtHand' /\ NotYetThere'
      /\ OneForm' /\ ConfirmedFirst' /\ RevokedIsGone' /\ OnlyConfirmedActive'
    BY StoreConstants DEF CheckRequest, StoreInv, TypeOK, CleanupAlone, RenewalAtHand,
       RevocationAtHand, NotYetThere, OneForm, ConfirmedFirst, RevokedIsGone,
       OnlyConfirmedActive, Labels, RequestAction
<1>2. KeyKept'
    BY RowsStay DEF StoreInv, CheckRequest
<1> QED
    BY <1>1, <1>2 DEF StoreInv

\* InsertRequest preserves the invariant.
LEMMA InsertRequestKeeps ==
  ASSUME StoreInv, NEW s \in Requests, InsertRequest(s)
  PROVE  StoreInv'
<1>1. /\ TypeOK' /\ CleanupAlone' /\ RenewalAtHand' /\ RevocationAtHand' /\ NotYetThere'
      /\ OneForm' /\ ConfirmedFirst' /\ RevokedIsGone' /\ OnlyConfirmedActive'
    BY StoreConstants DEF InsertRequest, StoreInv, TypeOK, CleanupAlone, RenewalAtHand,
       RevocationAtHand, NotYetThere, OneForm, ConfirmedFirst, RevokedIsGone,
       OnlyConfirmedActive, Labels, RequestAction
<1>2. KeyKept'
    BY RowsStay DEF StoreInv, InsertRequest
<1> QED
    BY <1>1, <1>2 DEF StoreInv

\* CheckDuplicateAdd preserves the invariant.
LEMMA CheckDuplicateAddKeeps ==
  ASSUME StoreInv, NEW s \in Requests, CheckDuplicateAdd(s)
  PROVE  StoreInv'
<1>1. /\ TypeOK' /\ CleanupAlone' /\ RenewalAtHand' /\ RevocationAtHand' /\ NotYetThere'
      /\ OneForm' /\ ConfirmedFirst' /\ RevokedIsGone' /\ OnlyConfirmedActive'
    BY StoreConstants DEF CheckDuplicateAdd, StoreInv, TypeOK, CleanupAlone, RenewalAtHand,
       RevocationAtHand, NotYetThere, OneForm, ConfirmedFirst, RevokedIsGone,
       OnlyConfirmedActive, Labels, RequestAction
<1>2. KeyKept'
    BY RowsStay DEF StoreInv, CheckDuplicateAdd
<1> QED
    BY <1>1, <1>2 DEF StoreInv

\* IssueCert preserves the invariant.
LEMMA IssueCertKeeps ==
  ASSUME StoreInv, NEW s \in Requests, IssueCert(s)
  PROVE  StoreInv'
<1>1. TypeOK'
    BY StoreConstants DEF StoreInv, IssueCert, TypeOK, Labels
<1>2. (CleanupAlone /\ ConfirmedFirst)'
    BY StoreConstants DEF StoreInv, IssueCert, TypeOK, CleanupAlone, ConfirmedFirst
<1>3. RenewalAtHand'
    BY StoreConstants DEF StoreInv, IssueCert, TypeOK, RenewalAtHand, OneForm, CleanupAlone,
       RequestAction
<1>4. RevocationAtHand'
    BY StoreConstants DEF StoreInv, IssueCert, TypeOK, RevocationAtHand, RequestAction
<1>5. NotYetThere'
    BY StoreConstants DEF StoreInv, IssueCert, TypeOK, NotYetThere, CleanupAlone
<1>6. OneForm'
    BY StoreConstants DEF StoreInv, IssueCert, TypeOK, OneForm, NotYetThere
<1>7. RevokedIsGone'
    BY StoreConstants DEF StoreInv, IssueCert, TypeOK, RevokedIsGone, NotYetThere, OneForm
<1>8. OnlyConfirmedActive'
    BY StoreConstants DEF StoreInv, IssueCert, TypeOK, OnlyConfirmedActive, RenewalAtHand,
       ConfirmedFirst
<1>9. KeyKept'
    BY RowsStay DEF StoreInv, IssueCert
<1> QED
    BY <1>1, <1>2, <1>3, <1>4, <1>5, <1>6, <1>7, <1>8, <1>9 DEF StoreInv

\* SendResponse preserves the invariant.
LEMMA SendResponseKeeps ==
  ASSUME StoreInv, NEW s \in Requests, SendResponse(s)
  PROVE  StoreInv'
<1>1. /\ TypeOK' /\ CleanupAlone' /\ RenewalAtHand' /\ RevocationAtHand' /\ NotYetThere'
      /\ OneForm' /\ ConfirmedFirst' /\ RevokedIsGone' /\ OnlyConfirmedActive'
    BY StoreConstants DEF SendResponse, StoreInv, TypeOK, CleanupAlone, RenewalAtHand,
       RevocationAtHand, NotYetThere, OneForm, ConfirmedFirst, RevokedIsGone,
       OnlyConfirmedActive, Labels, RequestAction
<1>2. KeyKept'
    BY RowsStay DEF StoreInv, SendResponse
<1> QED
    BY <1>1, <1>2 DEF StoreInv

\* ReadConfirmation preserves the invariant.
LEMMA ReadConfirmationKeeps ==
  ASSUME StoreInv, NEW s \in Requests, ReadConfirmation(s)
  PROVE  StoreInv'
<1>1. /\ TypeOK' /\ CleanupAlone' /\ RenewalAtHand' /\ RevocationAtHand' /\ NotYetThere'
      /\ OneForm' /\ ConfirmedFirst' /\ RevokedIsGone' /\ OnlyConfirmedActive'
    BY StoreConstants DEF ReadConfirmation, StoreInv, TypeOK, CleanupAlone, RenewalAtHand,
       RevocationAtHand, NotYetThere, OneForm, ConfirmedFirst, RevokedIsGone,
       OnlyConfirmedActive, Labels, RequestAction
<1>2. KeyKept'
    BY RowsStay DEF StoreInv, ReadConfirmation
<1> QED
    BY <1>1, <1>2 DEF StoreInv

\* Acknowledge preserves the invariant.
LEMMA AcknowledgeKeeps ==
  ASSUME StoreInv, NEW s \in Requests, Acknowledge(s)
  PROVE  StoreInv'
<1>1. /\ TypeOK' /\ CleanupAlone' /\ RenewalAtHand' /\ RevocationAtHand' /\ NotYetThere'
      /\ OneForm' /\ ConfirmedFirst' /\ RevokedIsGone' /\ OnlyConfirmedActive'
    BY StoreConstants DEF Acknowledge, StoreInv, TypeOK, CleanupAlone, RenewalAtHand,
       RevocationAtHand, NotYetThere, OneForm, ConfirmedFirst, RevokedIsGone,
       OnlyConfirmedActive, Labels, RequestAction
<1>2. KeyKept'
    BY RowsStay DEF StoreInv, Acknowledge
<1> QED
    BY <1>1, <1>2 DEF StoreInv

\* CompleteCert preserves the invariant.
LEMMA CompleteCertKeeps ==
  ASSUME StoreInv, NEW s \in Requests, CompleteCert(s)
  PROVE  StoreInv'
<1>1. TypeOK'
    BY StoreConstants DEF StoreInv, CompleteCert, TypeOK, Labels, Replace
<1>2. (CleanupAlone /\ ConfirmedFirst)'
    BY StoreConstants DEF StoreInv, CompleteCert, TypeOK, CleanupAlone, ConfirmedFirst,
       Replace
<1>3. RenewalAtHand'
    BY StoreConstants DEF StoreInv, CompleteCert, TypeOK, RenewalAtHand, OneForm,
       CleanupAlone, RequestAction, Replace
<1>4. RevocationAtHand'
    BY StoreConstants DEF StoreInv, CompleteCert, TypeOK, RevocationAtHand, RequestAction,
       Replace
<1>5. NotYetThere'
    BY StoreConstants DEF StoreInv, CompleteCert, TypeOK, NotYetThere, CleanupAlone, Replace
<1>6. OneForm'
    BY StoreConstants DEF StoreInv, CompleteCert, TypeOK, OneForm, NotYetThere, Replace
<1>7. RevokedIsGone'
    BY StoreConstants DEF StoreInv, CompleteCert, TypeOK, RevokedIsGone, NotYetThere,
       OneForm, Replace
<1>8. OnlyConfirmedActive'
    BY StoreConstants DEF StoreInv, CompleteCert, TypeOK, OnlyConfirmedActive, RenewalAtHand,
       ConfirmedFirst, Replace
<1>9. KeyKept'
    BY RowsStay DEF StoreInv, CompleteCert, Replace
<1> QED
    BY <1>1, <1>2, <1>3, <1>4, <1>5, <1>6, <1>7, <1>8, <1>9 DEF StoreInv

\* FetchOriginal preserves the invariant.
LEMMA FetchOriginalKeeps ==
  ASSUME StoreInv, NEW p \in Processes, FetchOriginal(p)
  PROVE  StoreInv'
<1>1. TypeOK'
  <2>1. pc' \in [Processes -> Labels]
      BY StoreConstants DEF StoreInv, FetchOriginal, TypeOK, Labels
  <2>4. original' \in [Processes -> Certs \cup {NoCert}]
      BY StoreConstants DEF StoreInv, FetchOriginal, TypeOK
  <2>2. UNCHANGED failures \/ Fails(p, TRUE)
      BY DEF FetchOriginal
  <2>3. failures' \in 0 .. 2
      BY <2>2 DEF StoreInv, TypeOK
  <2> QED BY <2>1, <2>3, <2>4 DEF StoreInv, FetchOriginal, TypeOK
<1>2. (CleanupAlone /\ ConfirmedFirst)'
    BY StoreConstants DEF StoreInv, FetchOriginal, TypeOK, CleanupAlone, ConfirmedFirst
<1>3. RenewalAtHand'
  <2>1. \A q \in Processes \ {p} : original'[q] = original[q] /\ pc'[q] = pc[q]
      BY DEF StoreInv, FetchOriginal, TypeOK
  <2>2. pc'[p] \in {"revoke", "delete"}
           => original'[p] \in Certs /\ KeyOf[original'[p]] = KeyOf[Subject(p)]
      BY DEF StoreInv, FetchOriginal, TypeOK, Labels
  <2>3. \A q \in Processes : Subject(q)' = Subject(q)
      BY DEF FetchOriginal
  <2>4. <<Subject(p), "esc2">> \in certificates /\ certificates' = certificates
      BY DEF FetchOriginal, StoreInv, RenewalAtHand
  <2> QED BY <2>1, <2>2, <2>3, <2>4 DEF StoreInv, RenewalAtHand
<1>4. RevocationAtHand'
    BY StoreConstants DEF StoreInv, FetchOriginal, TypeOK, RevocationAtHand, RequestAction
<1>5. NotYetThere'
    BY StoreConstants DEF StoreInv, FetchOriginal, TypeOK, NotYetThere, CleanupAlone
<1>6. OneForm'
    BY StoreConstants DEF StoreInv, FetchOriginal, TypeOK, OneForm, NotYetThere
<1>7. RevokedIsGone'
    BY StoreConstants DEF StoreInv, FetchOriginal, TypeOK, RevokedIsGone, NotYetThere,
       OneForm
<1>8. OnlyConfirmedActive'
    BY StoreConstants DEF StoreInv, FetchOriginal, TypeOK, OnlyConfirmedActive,
       RenewalAtHand, ConfirmedFirst
<1>9. KeyKept'
    BY RowsStay DEF StoreInv, FetchOriginal
<1> QED
    BY <1>1, <1>2, <1>3, <1>4, <1>5, <1>6, <1>7, <1>8, <1>9 DEF StoreInv

\* The certificate that a renewal replaces is revoked while the renewal is there.
LEMMA RevokeOriginalKeeps ==
  ASSUME StoreInv, NEW p \in Processes, RevokeOriginal(p)
  PROVE  StoreInv'
<1>1. TypeOK'
    BY StoreConstants DEF StoreInv, RevokeOriginal, TypeOK, Labels
<1>2. (CleanupAlone /\ ConfirmedFirst)'
    BY StoreConstants DEF StoreInv, RevokeOriginal, TypeOK, CleanupAlone, ConfirmedFirst
<1>3. RenewalAtHand'
    BY StoreConstants DEF StoreInv, RevokeOriginal, TypeOK, RenewalAtHand, OneForm,
       CleanupAlone, RequestAction
<1>4. RevocationAtHand'
    BY StoreConstants DEF StoreInv, RevokeOriginal, TypeOK, RevocationAtHand, RequestAction
<1>5. NotYetThere'
    BY StoreConstants DEF StoreInv, RevokeOriginal, TypeOK, NotYetThere, CleanupAlone
<1>6. OneForm'
    BY StoreConstants DEF StoreInv, RevokeOriginal, TypeOK, OneForm, NotYetThere
<1>7. RevokedIsGone'
  <2>1. original[p] \in Certs
      BY DEF StoreInv, RevokeOriginal, RenewalAtHand
  <2>2. CASE UNCHANGED <<certificates, CRLs>>
      BY <2>2 DEF StoreInv, RevokedIsGone
  <2>3. CASE ~UNCHANGED <<certificates, CRLs>>
      BY <2>1, <2>3, Gone DEF StoreInv, RevokeOriginal
  <2> QED BY <2>2, <2>3
<1>8. OnlyConfirmedActive'
    BY StoreConstants DEF StoreInv, RevokeOriginal, TypeOK, OnlyConfirmedActive,
       RenewalAtHand, ConfirmedFirst
<1>9. KeyKept'
  <2>1. /\ KeyOf[original[p]] = KeyOf[Subject(p)] /\ Subject(p) \in Certs
        /\ <<Subject(p), "esc2">> \in certificates
      BY DEF StoreInv, RenewalAtHand, RevokeOriginal, TypeOK
  <2>2. certificates' = certificates \/ certificates' = certificates \ {<<original[p], "std">>}
      BY DEF RevokeOriginal
  <2>3. \A c \in Certs : {<<c, "std">>, <<c, "esc2">>} \cap certificates # {} => Kept(c)'
      BY <2>1, <2>2 DEF Kept
  <2> QED BY <2>3, KeysStay DEF StoreInv, RevokeOriginal
<1> QED
    BY <1>1, <1>2, <1>3, <1>4, <1>5, <1>6, <1>7, <1>8, <1>9 DEF StoreInv

\* DeleteOriginal preserves the invariant.
LEMMA DeleteOriginalKeeps ==
  ASSUME StoreInv, NEW p \in Processes, DeleteOriginal(p)
  PROVE  StoreInv'
<1>1. TypeOK'
    BY StoreConstants DEF StoreInv, DeleteOriginal, TypeOK, Labels
<1>2. (CleanupAlone /\ ConfirmedFirst)'
    BY StoreConstants DEF StoreInv, DeleteOriginal, TypeOK, CleanupAlone, ConfirmedFirst
<1>3. RenewalAtHand'
    BY StoreConstants DEF StoreInv, DeleteOriginal, TypeOK, RenewalAtHand, OneForm,
       CleanupAlone, RequestAction
<1>4. RevocationAtHand'
    BY StoreConstants DEF StoreInv, DeleteOriginal, TypeOK, RevocationAtHand, RequestAction
<1>5. NotYetThere'
    BY StoreConstants DEF StoreInv, DeleteOriginal, TypeOK, NotYetThere, CleanupAlone
<1>6. OneForm'
    BY StoreConstants DEF StoreInv, DeleteOriginal, TypeOK, OneForm, NotYetThere
<1>7. RevokedIsGone'
    BY StoreConstants DEF StoreInv, DeleteOriginal, TypeOK, RevokedIsGone, NotYetThere,
       OneForm
<1>8. OnlyConfirmedActive'
    BY StoreConstants DEF StoreInv, DeleteOriginal, TypeOK, OnlyConfirmedActive,
       RenewalAtHand, ConfirmedFirst
<1>9. KeyKept'
  <2>1. /\ KeyOf[original[p]] = KeyOf[Subject(p)] /\ Subject(p) \in Certs
        /\ <<Subject(p), "esc2">> \in certificates
      BY DEF StoreInv, RenewalAtHand, DeleteOriginal, TypeOK
  <2>2. certificates' = certificates \/ certificates' = certificates \ {<<original[p], "std">>}
      BY DEF DeleteOriginal
  <2>3. \A c \in Certs : {<<c, "std">>, <<c, "esc2">>} \cap certificates # {} => Kept(c)'
      BY <2>1, <2>2 DEF Kept
  <2> QED BY <2>3, KeysStay DEF StoreInv, DeleteOriginal
<1> QED
    BY <1>1, <1>2, <1>3, <1>4, <1>5, <1>6, <1>7, <1>8, <1>9 DEF StoreInv

\* The renewal becomes active in its place.
LEMMA CompleteRenewalKeeps ==
  ASSUME StoreInv, NEW p \in Processes, CompleteRenewal(p)
  PROVE  StoreInv'
<1>1. TypeOK'
    BY StoreConstants DEF StoreInv, CompleteRenewal, TypeOK, Labels, Replace
<1>2. (CleanupAlone /\ ConfirmedFirst)'
    BY StoreConstants DEF StoreInv, CompleteRenewal, TypeOK, CleanupAlone, ConfirmedFirst,
       Replace
<1>3. RenewalAtHand'
    BY StoreConstants DEF StoreInv, CompleteRenewal, TypeOK, RenewalAtHand, OneForm,
       CleanupAlone, RequestAction, Replace
<1>4. RevocationAtHand'
    BY StoreConstants DEF StoreInv, CompleteRenewal, TypeOK, RevocationAtHand, RequestAction,
       Replace
<1>5. NotYetThere'
    BY StoreConstants DEF StoreInv, CompleteRenewal, TypeOK, NotYetThere, CleanupAlone,
       Replace
<1>6. OneForm'
    BY StoreConstants DEF StoreInv, CompleteRenewal, TypeOK, OneForm, NotYetThere, Replace
<1>7. RevokedIsGone'
    BY StoreConstants DEF StoreInv, CompleteRenewal, TypeOK, RevokedIsGone, NotYetThere,
       OneForm, Replace
<1>8. OnlyConfirmedActive'
    BY StoreConstants DEF StoreInv, CompleteRenewal, TypeOK, OnlyConfirmedActive,
       RenewalAtHand, ConfirmedFirst, Replace
<1>9. KeyKept'
  <2>1. \A c \in Certs : {<<c, "std">>, <<c, "esc2">>} \cap certificates # {} => Kept(c)'
      BY DEF Kept, CompleteRenewal, Replace
  <2> QED BY <2>1, KeysStay DEF StoreInv, CompleteRenewal
<1> QED
    BY <1>1, <1>2, <1>3, <1>4, <1>5, <1>6, <1>7, <1>8, <1>9 DEF StoreInv

\* DropCert preserves the invariant.
LEMMA DropCertKeeps ==
  ASSUME StoreInv, NEW s \in Requests, DropCert(s)
  PROVE  StoreInv'
<1>1. TypeOK'
    BY StoreConstants DEF StoreInv, DropCert, TypeOK, Labels
<1>2. (CleanupAlone /\ ConfirmedFirst)'
    BY StoreConstants DEF StoreInv, DropCert, TypeOK, CleanupAlone, ConfirmedFirst
<1>3. RenewalAtHand'
    BY StoreConstants DEF StoreInv, DropCert, TypeOK, RenewalAtHand, OneForm, CleanupAlone,
       RequestAction
<1>4. RevocationAtHand'
    BY StoreConstants DEF StoreInv, DropCert, TypeOK, RevocationAtHand, RequestAction
<1>5. NotYetThere'
    BY StoreConstants DEF StoreInv, DropCert, TypeOK, NotYetThere, CleanupAlone
<1>6. OneForm'
    BY StoreConstants DEF StoreInv, DropCert, TypeOK, OneForm, NotYetThere
<1>7. RevokedIsGone'
    BY StoreConstants DEF StoreInv, DropCert, TypeOK, RevokedIsGone, NotYetThere, OneForm
<1>8. OnlyConfirmedActive'
    BY StoreConstants DEF StoreInv, DropCert, TypeOK, OnlyConfirmedActive, RenewalAtHand,
       ConfirmedFirst
<1>9. KeyKept'
    BY RowsStay DEF StoreInv, DropCert
<1> QED
    BY <1>1, <1>2, <1>3, <1>4, <1>5, <1>6, <1>7, <1>8, <1>9 DEF StoreInv

\* ReverseCert preserves the invariant.
LEMMA ReverseCertKeeps ==
  ASSUME StoreInv, NEW p \in Processes, ReverseCert(p)
  PROVE  StoreInv'
<1>1. TypeOK'
    BY StoreConstants DEF StoreInv, ReverseCert, TypeOK, Labels
<1>2. (CleanupAlone /\ ConfirmedFirst)'
    BY StoreConstants DEF StoreInv, ReverseCert, TypeOK, CleanupAlone, ConfirmedFirst
<1>3. RenewalAtHand'
    BY StoreConstants DEF StoreInv, ReverseCert, TypeOK, RenewalAtHand, OneForm,
       CleanupAlone, RequestAction
<1>4. RevocationAtHand'
    BY StoreConstants DEF StoreInv, ReverseCert, TypeOK, RevocationAtHand, RequestAction
<1>5. NotYetThere'
    BY StoreConstants DEF StoreInv, ReverseCert, TypeOK, NotYetThere, CleanupAlone
<1>6. OneForm'
    BY StoreConstants DEF StoreInv, ReverseCert, TypeOK, OneForm, NotYetThere
<1>7. RevokedIsGone'
  <2>1. CASE UNCHANGED <<certificates, CRLs>>
      BY <2>1 DEF StoreInv, RevokedIsGone
  <2>2. CASE ~UNCHANGED <<certificates, CRLs>>
    <3>1. Subject(p) \in Certs
        BY <2>2 DEF StoreInv, ReverseCert, TypeOK
    <3> QED BY <2>2, <3>1, Gone DEF StoreInv, ReverseCert
  <2> QED BY <2>1, <2>2
<1>8. OnlyConfirmedActive'
    BY StoreConstants DEF StoreInv, ReverseCert, TypeOK, OnlyConfirmedActive, RenewalAtHand,
       ConfirmedFirst
<1>9. KeyKept'
    BY RowsStay DEF StoreInv, ReverseCert
<1> QED
    BY <1>1, <1>2, <1>3, <1>4, <1>5, <1>6, <1>7, <1>8, <1>9 DEF StoreInv

\* UndoCert preserves the invariant.
LEMMA UndoCertKeeps ==
  ASSUME StoreInv, NEW p \in Processes, UndoCert(p)
  PROVE  StoreInv'
<1>1. TypeOK'
    BY StoreConstants DEF StoreInv, UndoCert, TypeOK, Labels
<1>2. (CleanupAlone /\ ConfirmedFirst)'
    BY StoreConstants DEF StoreInv, UndoCert, TypeOK, CleanupAlone, ConfirmedFirst
<1>3. RenewalAtHand'
    BY StoreConstants DEF StoreInv, UndoCert, TypeOK, RenewalAtHand, OneForm, CleanupAlone,
       RequestAction
<1>4. RevocationAtHand'
    BY StoreConstants DEF StoreInv, UndoCert, TypeOK, RevocationAtHand, RequestAction
<1>5. NotYetThere'
    BY StoreConstants DEF StoreInv, UndoCert, TypeOK, NotYetThere, CleanupAlone
<1>6. OneForm'
    BY StoreConstants DEF StoreInv, UndoCert, TypeOK, OneForm, NotYetThere
<1>7. RevokedIsGone'
    BY StoreConstants DEF StoreInv, UndoCert, TypeOK, RevokedIsGone, NotYetThere, OneForm
<1>8. OnlyConfirmedActive'
    BY StoreConstants DEF StoreInv, UndoCert, TypeOK, OnlyConfirmedActive, RenewalAtHand,
       ConfirmedFirst
<1>9. KeyKept'
    BY RowsStay DEF StoreInv, UndoCert
<1> QED
    BY <1>1, <1>2, <1>3, <1>4, <1>5, <1>6, <1>7, <1>8, <1>9 DEF StoreInv

\* FetchTarget preserves the invariant.
LEMMA FetchTargetKeeps ==
  ASSUME StoreInv, NEW p \in Processes, FetchTarget(p)
  PROVE  StoreInv'
<1>1. /\ TypeOK' /\ CleanupAlone' /\ RenewalAtHand' /\ RevocationAtHand' /\ NotYetThere'
      /\ OneForm' /\ ConfirmedFirst' /\ RevokedIsGone' /\ OnlyConfirmedActive'
    BY StoreConstants DEF FetchTarget, StoreInv, TypeOK, CleanupAlone, RenewalAtHand,
       RevocationAtHand, NotYetThere, OneForm, ConfirmedFirst, RevokedIsGone,
       OnlyConfirmedActive, Labels, RequestAction
<1>2. KeyKept'
    BY RowsStay DEF StoreInv, FetchTarget
<1> QED
    BY <1>1, <1>2 DEF StoreInv

\* A revocation on request takes a certificate away, and its key may be left without.
LEMMA RevokeTargetKeeps ==
  ASSUME StoreInv, NEW p \in Processes, RevokeTarget(p)
  PROVE  StoreInv'
<1>1. TypeOK'
    BY StoreConstants DEF StoreInv, RevokeTarget, TypeOK, Labels
<1>2. (CleanupAlone /\ ConfirmedFirst)'
    BY StoreConstants DEF StoreInv, RevokeTarget, TypeOK, CleanupAlone, ConfirmedFirst
<1>3. RenewalAtHand'
    BY StoreConstants DEF StoreInv, RevokeTarget, TypeOK, RenewalAtHand, OneForm,
       CleanupAlone, RequestAction
<1>4. RevocationAtHand'
    BY StoreConstants DEF StoreInv, RevokeTarget, TypeOK, RevocationAtHand, RequestAction
<1>5. NotYetThere'
    BY StoreConstants DEF StoreInv, RevokeTarget, TypeOK, NotYetThere, CleanupAlone
<1>6. OneForm'
    BY StoreConstants DEF StoreInv, RevokeTarget, TypeOK, OneForm, NotYetThere
<1>7. RevokedIsGone'
  <2>1. Target[Subject(p)] \in Certs
      BY StoreConstants DEF StoreInv, RevokeTarget, RevocationAtHand
  <2>2. CASE UNCHANGED <<certificates, CRLs>>
      BY <2>2 DEF StoreInv, RevokedIsGone
  <2>3. CASE ~UNCHANGED <<certificates, CRLs>>
      BY <2>1, <2>3, Gone DEF StoreInv, RevokeTarget
  <2> QED BY <2>2, <2>3
<1>8. OnlyConfirmedActive'
    BY StoreConstants DEF StoreInv, RevokeTarget, TypeOK, OnlyConfirmedActive, RenewalAtHand,
       ConfirmedFirst
<1>9. KeyKept'
  <2>1. CASE UNCHANGED tables
      BY <2>1, RowsStay DEF StoreInv, RevokeTarget
  <2>2. CASE ~UNCHANGED tables
    <3>0. PICK r \in Requests : r = Subject(p)
        BY DEF RevokeTarget, StoreInv, RevocationAtHand
    <3>1. /\ certificates' = certificates \ {<<Target[r], "std">>} /\ certLog \subseteq certLog'
          /\ r \in certRequests /\ Kind[r] = "revocation"
        BY <2>2, <3>0 DEF RevokeTarget, StoreInv, RevocationAtHand
    <3>2. RequestAction(r) = "request_revocation" /\ r \in Requests
        BY <3>1 DEF StoreInv, TypeOK, RequestAction
    <3>3. <<"request_revocation", r>> \in certLog'
        BY <3>1, <3>2 DEF StoreInv, RevocationAtHand
    <3>4. \A c \in Certs \ {Target[r]} :
             {<<c, "std">>, <<c, "esc2">>} \cap certificates # {} => Kept(c)'
        BY <3>1 DEF Kept
    <3>5. Kept(Target[r])'
        BY <3>2, <3>3 DEF Kept
    <3> QED BY <3>1, <3>4, <3>5, KeysStay DEF StoreInv, RevokeTarget
  <2> QED BY <2>1, <2>2
<1> QED
    BY <1>1, <1>2, <1>3, <1>4, <1>5, <1>6, <1>7, <1>8, <1>9 DEF StoreInv

\* NextRequest preserves the invariant.
LEMMA NextRequestKeeps ==
  ASSUME StoreInv, NextRequest
  PROVE  StoreInv'
<1>1. /\ TypeOK' /\ CleanupAlone' /\ RenewalAtHand' /\ RevocationAtHand' /\ NotYetThere'
      /\ OneForm' /\ ConfirmedFirst' /\ RevokedIsGone' /\ OnlyConfirmedActive'
    BY StoreConstants DEF NextRequest, StoreInv, TypeOK, CleanupAlone, RenewalAtHand,
       RevocationAtHand, NotYetThere, OneForm, ConfirmedFirst, RevokedIsGone,
       OnlyConfirmedActive, Labels, RequestAction, Enter, Iterating, GivingUp, CountError, Take,
       PendingRequests, PendingRevocations, Partial
<1>2. KeyKept'
    BY RowsStay DEF StoreInv, NextRequest, Partial
<1> QED
    BY <1>1, <1>2 DEF StoreInv

\* DeleteRequest preserves the invariant.
LEMMA DeleteRequestKeeps ==
  ASSUME StoreInv, DeleteRequest
  PROVE  StoreInv'
<1>1. /\ TypeOK' /\ CleanupAlone' /\ RenewalAtHand' /\ RevocationAtHand' /\ NotYetThere'
      /\ OneForm' /\ ConfirmedFirst' /\ RevokedIsGone' /\ OnlyConfirmedActive'
    BY StoreConstants DEF DeleteRequest, StoreInv, TypeOK, CleanupAlone, RenewalAtHand,
       RevocationAtHand, NotYetThere, OneForm, ConfirmedFirst, RevokedIsGone,
       OnlyConfirmedActive, Labels, RequestAction, Enter, Iterating, GivingUp, CountError, Take,
       PendingRequests, PendingRevocations, Partial
<1>2. KeyKept'
    BY RowsStay DEF StoreInv, DeleteRequest, Partial
<1> QED
    BY <1>1, <1>2 DEF StoreInv

\* DeleteRequests preserves the invariant.
LEMMA DeleteRequestsKeeps ==
  ASSUME StoreInv, DeleteRequests
  PROVE  StoreInv'
<1>1. /\ TypeOK' /\ CleanupAlone' /\ RenewalAtHand' /\ RevocationAtHand' /\ NotYetThere'
      /\ OneForm' /\ ConfirmedFirst' /\ RevokedIsGone' /\ OnlyConfirmedActive'
    BY StoreConstants DEF DeleteRequests, StoreInv, TypeOK, CleanupAlone, RenewalAtHand,
       RevocationAtHand, NotYetThere, OneForm, ConfirmedFirst, RevokedIsGone,
       OnlyConfirmedActive, Labels, RequestAction, Enter, Iterating, GivingUp, CountError, Take,
       PendingRequests, PendingRevocations, Partial
<1>2. KeyKept'
    BY RowsStay DEF StoreInv, DeleteRequests, Partial
<1> QED
    BY <1>1, <1>2 DEF StoreInv

\* NextPartial preserves the invariant.
LEMMA NextPartialKeeps ==
  ASSUME StoreInv, NextPartial
  PROVE  StoreInv'
<1>1. TypeOK'
  <2>1. \/ Enter("renewals")
        \/ CountError /\ prev' \in Certs \cup {NoCert}
        \/ GoTo(Cleaner, "delete_partials") /\ UNCHANGED loop
        \/ \E c \in Certs : Take(c, "delete_partials", "reverse")
      BY DEF NextPartial, DeleteIncomplete, Partial, StoreInv, TypeOK
  <2>2. {"renewals", "delete_partials", "reverse"} \subseteq Labels
      BY DEF Labels
  <2>3. /\ pc' \in [Processes -> Labels] /\ prev' \in Certs \cup {NoCert}
        /\ errors' \in Nat /\ entries' \in Nat
      BY <2>1, <2>2, LoopTypes DEF StoreInv
  <2>4. certificates' \subseteq certificates
      BY DEF NextPartial, DeleteIncomplete
  <2>5. discarded' \subseteq Certs
      BY DEF NextPartial, DeleteIncomplete, StoreInv, TypeOK, Partial
  <2>6. failures' \in 0 .. 2
      BY DEF NextPartial, DeleteIncomplete, StoreInv, TypeOK, Take
  <2> QED BY <2>3, <2>4, <2>5, <2>6 DEF NextPartial, StoreInv, TypeOK
<1>2. (CleanupAlone /\ ConfirmedFirst)'
    BY StoreConstants DEF StoreInv, NextPartial, TypeOK, CleanupAlone, ConfirmedFirst, Enter,
       Iterating, GivingUp, CountError, Take, PendingRequests, PendingRevocations, Partial,
       DeleteIncomplete
<1>3. RenewalAtHand'
  <2>1. \A q \in Requests : pc'[q] = pc[q]
      BY StoreConstants DEF NextPartial, DeleteIncomplete, StoreInv, TypeOK, Enter, Take, CountError
  <2>2. pc'[Cleaner] \in {"partials", "renewals", "reverse", "delete_partials"}
      BY StoreConstants DEF NextPartial, DeleteIncomplete, StoreInv, TypeOK, Enter, Take,
         CountError, Iterating
  <2>3. \A q \in Processes : pc'[q] \notin {"fetch", "revoke", "delete", "replace"}
      BY <2>1, <2>2 DEF NextPartial, Iterating, GivingUp, StoreInv, CleanupAlone
  <2> QED BY <2>3 DEF RenewalAtHand
<1>4. RevocationAtHand'
    BY StoreConstants DEF StoreInv, NextPartial, TypeOK, RevocationAtHand, RequestAction,
       Enter, Iterating, GivingUp, CountError, Take, PendingRequests, PendingRevocations,
       Partial, DeleteIncomplete
<1>5. NotYetThere'
    BY StoreConstants DEF StoreInv, NextPartial, TypeOK, NotYetThere, CleanupAlone, Enter,
       Iterating, GivingUp, CountError, Take, PendingRequests, PendingRevocations, Partial,
       DeleteIncomplete
<1>6. OneForm'
    BY StoreConstants DEF StoreInv, NextPartial, TypeOK, OneForm, NotYetThere, Enter,
       Iterating, GivingUp, CountError, Take, PendingRequests, PendingRevocations, Partial,
       DeleteIncomplete
<1>7. RevokedIsGone'
    BY StoreConstants DEF StoreInv, NextPartial, TypeOK, RevokedIsGone, NotYetThere, OneForm,
       Enter, Iterating, GivingUp, CountError, Take, PendingRequests, PendingRevocations,
       Partial, DeleteIncomplete
<1>8. OnlyConfirmedActive'
    BY StoreConstants DEF StoreInv, NextPartial, TypeOK, OnlyConfirmedActive, RenewalAtHand,
       ConfirmedFirst, Enter, Iterating, GivingUp, CountError, Take, PendingRequests,
       PendingRevocations, Partial, DeleteIncomplete
<1>9. KeyKept'
    BY RowsStay DEF StoreInv, NextPartial, Partial, DeleteIncomplete
<1> QED
    BY <1>1, <1>2, <1>3, <1>4, <1>5, <1>6, <1>7, <1>8, <1>9 DEF StoreInv

\* DeletePartials preserves the invariant.
LEMMA DeletePartialsKeeps ==
  ASSUME StoreInv, DeletePartials
  PROVE  StoreInv'
<1>1. TypeOK'
  <2>1. pc' \in [Processes -> Labels]
      BY StoreConstants DEF StoreInv, TypeOK, Labels, DeletePartials, Enter
  <2>2. certificates' \subseteq certificates
      BY DEF DeletePartials
  <2> QED BY <2>1, <2>2 DEF DeletePartials, StoreInv, TypeOK, Enter
<1>2. (CleanupAlone /\ ConfirmedFirst)'
    BY StoreConstants DEF StoreInv, DeletePartials, TypeOK, CleanupAlone, ConfirmedFirst,
       Enter, Iterating, GivingUp, CountError, Take, PendingRequests, PendingRevocations,
       Partial
<1>3. RenewalAtHand'
    BY StoreConstants DEF StoreInv, DeletePartials, TypeOK, RenewalAtHand, OneForm,
       CleanupAlone, RequestAction, Enter, Iterating, GivingUp, CountError, Take,
       PendingRequests, PendingRevocations, Partial
<1>4. RevocationAtHand'
    BY StoreConstants DEF StoreInv, DeletePartials, TypeOK, RevocationAtHand, RequestAction,
       Enter, Iterating, GivingUp, CountError, Take, PendingRequests, PendingRevocations,
       Partial
<1>5. NotYetThere'
    BY StoreConstants DEF StoreInv, DeletePartials, TypeOK, NotYetThere, CleanupAlone, Enter,
       Iterating, GivingUp, CountError, Take, PendingRequests, PendingRevocations, Partial
<1>6. OneForm'
    BY StoreConstants DEF StoreInv, DeletePartials, TypeOK, OneForm, NotYetThere, Enter,
       Iterating, GivingUp, CountError, Take, PendingRequests, PendingRevocations, Partial
<1>7. RevokedIsGone'
    BY StoreConstants DEF StoreInv, DeletePartials, TypeOK, RevokedIsGone, NotYetThere,
       OneForm, Enter, Iterating, GivingUp, CountError, Take, PendingRequests,
       PendingRevocations, Partial
<1>8. OnlyConfirmedActive'
    BY StoreConstants DEF StoreInv, DeletePartials, TypeOK, OnlyConfirmedActive,
       RenewalAtHand, ConfirmedFirst, Enter, Iterating, GivingUp, CountError, Take,
       PendingRequests, PendingRevocations, Partial
<1>9. KeyKept'
    BY RowsStay DEF StoreInv, DeletePartials, Partial
<1> QED
    BY <1>1, <1>2, <1>3, <1>4, <1>5, <1>6, <1>7, <1>8, <1>9 DEF StoreInv

\* A renewal that cannot be read may be deleted, and then counts as discarded.
LEMMA NextRenewalKeeps ==
  ASSUME StoreInv, NextRenewal
  PROVE  StoreInv'
<1>1. TypeOK'
  <2>1. \/ Enter("revocations")
        \/ CountError /\ prev' \in Certs \cup {NoCert}
        \/ \E c \in Certs : Take(c, "fetch", "fetch")
      BY DEF NextRenewal, DeleteIncomplete, Partial, StoreInv, TypeOK
  <2>2. {"revocations", "fetch"} \subseteq Labels
      BY DEF Labels
  <2>3. /\ pc' \in [Processes -> Labels] /\ prev' \in Certs \cup {NoCert}
        /\ errors' \in Nat /\ entries' \in Nat
      BY <2>1, <2>2, LoopTypes DEF StoreInv
  <2>4. certificates' \subseteq certificates
      BY DEF NextRenewal, DeleteIncomplete
  <2>5. discarded' \subseteq Certs
      BY DEF NextRenewal, DeleteIncomplete, StoreInv, TypeOK, Partial
  <2>6. failures' \in 0 .. 2
      BY DEF NextRenewal, DeleteIncomplete, StoreInv, TypeOK, Take
  <2> QED BY <2>3, <2>4, <2>5, <2>6 DEF NextRenewal, StoreInv, TypeOK
<1>2. (CleanupAlone /\ ConfirmedFirst)'
    BY StoreConstants DEF StoreInv, NextRenewal, TypeOK, CleanupAlone, ConfirmedFirst, Enter,
       Iterating, GivingUp, CountError, Take, PendingRequests, PendingRevocations, Partial,
       DeleteIncomplete
<1>3. RenewalAtHand'
  <2>1. \A q \in Requests : pc'[q] = pc[q]
      BY StoreConstants DEF NextRenewal, DeleteIncomplete, StoreInv, TypeOK, Enter, Take, CountError
  <2>2. pc'[Cleaner] \in {"renewals", "revocations", "fetch"}
      BY StoreConstants DEF NextRenewal, DeleteIncomplete, StoreInv, TypeOK, Enter, Take,
         CountError, Iterating
  <2>3. pc'[Cleaner] = "fetch" => <<prev', "esc2">> \in certificates'
      BY StoreConstants DEF NextRenewal, DeleteIncomplete, StoreInv, TypeOK, Enter, Take,
         CountError, Iterating, Partial
  <2>4. \A q \in Requests : pc'[q] \notin {"fetch", "revoke", "delete", "replace"}
      BY <2>1 DEF NextRenewal, Iterating, GivingUp, StoreInv, CleanupAlone
  <2> QED BY <2>2, <2>3, <2>4 DEF RenewalAtHand
<1>4. RevocationAtHand'
    BY StoreConstants DEF StoreInv, NextRenewal, TypeOK, RevocationAtHand, RequestAction,
       Enter, Iterating, GivingUp, CountError, Take, PendingRequests, PendingRevocations,
       Partial, DeleteIncomplete
<1>5. NotYetThere'
    BY StoreConstants DEF StoreInv, NextRenewal, TypeOK, NotYetThere, CleanupAlone, Enter,
       Iterating, GivingUp, CountError, Take, PendingRequests, PendingRevocations, Partial,
       DeleteIncomplete
<1>6. OneForm'
    BY StoreConstants DEF StoreInv, NextRenewal, TypeOK, OneForm, NotYetThere, Enter,
       Iterating, GivingUp, CountError, Take, PendingRequests, PendingRevocations, Partial,
       DeleteIncomplete
<1>7. RevokedIsGone'
    BY StoreConstants DEF StoreInv, NextRenewal, TypeOK, RevokedIsGone, NotYetThere, OneForm,
       Enter, Iterating, GivingUp, CountError, Take, PendingRequests, PendingRevocations,
       Partial, DeleteIncomplete
<1>8. OnlyConfirmedActive'
    BY StoreConstants DEF StoreInv, NextRenewal, TypeOK, OnlyConfirmedActive, RenewalAtHand,
       ConfirmedFirst, Enter, Iterating, GivingUp, CountError, Take, PendingRequests,
       PendingRevocations, Partial, DeleteIncomplete
<1>9. KeyKept'
  <2>1. \/ UNCHANGED <<certificates, discarded>>
        \/ \E c \in Certs : /\ certificates' = certificates \ {<<c, "esc2">>}
                            /\ discarded' = discarded \cup {c}
      BY DEF NextRenewal, DeleteIncomplete, Partial, StoreInv, TypeOK
  <2>2. \A c \in Certs : {<<c, "std">>, <<c, "esc2">>} \cap certificates # {} => Kept(c)'
      BY <2>1 DEF Kept
  <2> QED BY <2>1, <2>2, KeysStay DEF StoreInv, NextRenewal
<1> QED
    BY <1>1, <1>2, <1>3, <1>4, <1>5, <1>6, <1>7, <1>8, <1>9 DEF StoreInv

\* NextRevocation preserves the invariant.
LEMMA NextRevocationKeeps ==
  ASSUME StoreInv, NextRevocation
  PROVE  StoreInv'
<1>1. /\ TypeOK' /\ CleanupAlone' /\ RenewalAtHand' /\ RevocationAtHand' /\ NotYetThere'
      /\ OneForm' /\ ConfirmedFirst' /\ RevokedIsGone' /\ OnlyConfirmedActive'
    BY StoreConstants DEF NextRevocation, StoreInv, TypeOK, CleanupAlone, RenewalAtHand,
       RevocationAtHand, NotYetThere, OneForm, ConfirmedFirst, RevokedIsGone,
       OnlyConfirmedActive, Labels, RequestAction, Enter, Iterating, GivingUp, CountError, Take,
       PendingRequests, PendingRevocations, Partial
<1>2. KeyKept'
    BY RowsStay DEF StoreInv, NextRevocation, Partial
<1> QED
    BY <1>1, <1>2 DEF StoreInv

\* DropRequest preserves the invariant.
LEMMA DropRequestKeeps ==
  ASSUME StoreInv, DropRequest
  PROVE  StoreInv'
<1>1. /\ TypeOK' /\ CleanupAlone' /\ RenewalAtHand' /\ RevocationAtHand' /\ NotYetThere'
      /\ OneForm' /\ ConfirmedFirst' /\ RevokedIsGone' /\ OnlyConfirmedActive'
    BY StoreConstants DEF DropRequest, StoreInv, TypeOK, CleanupAlone, RenewalAtHand,
       RevocationAtHand, NotYetThere, OneForm, ConfirmedFirst, RevokedIsGone,
       OnlyConfirmedActive, Labels, RequestAction, Enter, Iterating, GivingUp, CountError, Take,
       PendingRequests, PendingRevocations, Partial
<1>2. KeyKept'
    BY RowsStay DEF StoreInv, DropRequest, Partial
<1> QED
    BY <1>1, <1>2 DEF StoreInv

\* DeleteRevocations preserves the invariant.
LEMMA DeleteRevocationsKeeps ==
  ASSUME StoreInv, DeleteRevocations
  PROVE  StoreInv'
<1>1. /\ TypeOK' /\ CleanupAlone' /\ RenewalAtHand' /\ RevocationAtHand' /\ NotYetThere'
      /\ OneForm' /\ ConfirmedFirst' /\ RevokedIsGone' /\ OnlyConfirmedActive'
    BY StoreConstants DEF DeleteRevocations, StoreInv, TypeOK, CleanupAlone, RenewalAtHand,
       RevocationAtHand, NotYetThere, OneForm, ConfirmedFirst, RevokedIsGone,
       OnlyConfirmedActive, Labels, RequestAction, Enter, Iterating, GivingUp, CountError, Take,
       PendingRequests, PendingRevocations, Partial
<1>2. KeyKept'
    BY RowsStay DEF StoreInv, DeleteRevocations, Partial
<1> QED
    BY <1>1, <1>2 DEF StoreInv

\* Crash preserves the invariant.
LEMMA CrashKeeps ==
  ASSUME StoreInv, Crash
  PROVE  StoreInv'
<1>1. /\ TypeOK' /\ CleanupAlone' /\ RenewalAtHand' /\ RevocationAtHand' /\ NotYetThere'
      /\ OneForm' /\ ConfirmedFirst' /\ RevokedIsGone' /\ OnlyConfirmedActive'
    BY StoreConstants DEF Crash, StoreInv, TypeOK, CleanupAlone, RenewalAtHand,
       RevocationAtHand, NotYetThere, OneForm, ConfirmedFirst, RevokedIsGone,
       OnlyConfirmedActive, Labels, RequestAction
<1>2. KeyKept'
    BY RowsStay DEF StoreInv, Crash
<1> QED
    BY <1>1, <1>2 DEF StoreInv

\* Finished preserves the invariant.
LEMMA FinishedKeeps ==
  ASSUME StoreInv, Finished
  PROVE  StoreInv'
<1>1. /\ TypeOK' /\ CleanupAlone' /\ RenewalAtHand' /\ RevocationAtHand' /\ NotYetThere'
      /\ OneForm' /\ ConfirmedFirst' /\ RevokedIsGone' /\ OnlyConfirmedActive'
    BY StoreConstants DEF Finished, StoreInv, TypeOK, CleanupAlone, RenewalAtHand,
       RevocationAtHand, NotYetThere, OneForm, ConfirmedFirst, RevokedIsGone,
       OnlyConfirmedActive, Labels, RequestAction, vars
<1>2. KeyKept'
    BY RowsStay DEF StoreInv, Finished, vars
<1> QED
    BY <1>1, <1>2 DEF StoreInv

------------------------------------------------------------------------------
(* AnswerInv: one lemma for each action *)

\* CheckRequest.
LEMMA CheckRequestAnswers ==
  ASSUME StoreInv, AnswerInv, NEW s \in Requests, CheckRequest(s)
  PROVE  AnswerInv'
<1>1. \A r \in Requests : Done(r) => Done(r)'
    BY DoneStays DEF StoreInv, AnswerInv, CheckRequest
<1>2. FreshIsUnlogged'
    BY StoreConstants DEF StoreInv, AnswerInv, TypeOK, CheckRequest, FreshIsUnlogged,
       CleanupAlone, NotYetThere
<1>3. CompletedIsWhole'
    BY StoreConstants DEF StoreInv, AnswerInv, TypeOK, CheckRequest, CompletedIsWhole,
       FreshIsUnlogged, OneForm, NotYetThere
<1>4. IssuesOnly'
    BY StoreConstants DEF StoreInv, AnswerInv, TypeOK, CheckRequest, IssuesOnly, CleanupAlone
<1>5. AnsweredIsDone'
    BY StoreConstants, <1>1 DEF StoreInv, AnswerInv, TypeOK, CheckRequest, AnsweredIsDone,
       CleanupAlone
<1>6. LogAgrees'
    BY StoreConstants DEF StoreInv, AnswerInv, TypeOK, CheckRequest, LogAgrees,
       FreshIsUnlogged, RequestAction, RevocationAtHand, RenewalAtHand
<1>7. AcknowledgedIsDone'
    BY StoreConstants, <1>1 DEF StoreInv, AnswerInv, TypeOK, CheckRequest,
       AcknowledgedIsDone, AnsweredIsDone
<1> QED
    BY <1>2, <1>3, <1>4, <1>5, <1>6, <1>7 DEF AnswerInv

\* InsertRequest.
LEMMA InsertRequestAnswers ==
  ASSUME StoreInv, AnswerInv, NEW s \in Requests, InsertRequest(s)
  PROVE  AnswerInv'
<1>1. \A r \in Requests : Done(r) => Done(r)'
  <2>1. RequestAction(s) # "reverse"
      BY DEF RequestAction
  <2> QED BY <2>1, DoneStays DEF StoreInv, AnswerInv, InsertRequest
<1>2. FreshIsUnlogged'
  <2>1. RequestAction(s) \notin {"creation", "issue", "complete"}
      BY DEF RequestAction
  <2> QED BY <2>1 DEF StoreInv, AnswerInv, TypeOK, InsertRequest, FreshIsUnlogged
<1>3. CompletedIsWhole'
  <2>1. RequestAction(s) \notin {"issue", "complete"}
      BY DEF RequestAction
  <2> QED BY <2>1 DEF AnswerInv, InsertRequest, CompletedIsWhole
<1>4. IssuesOnly'
    BY StoreConstants DEF StoreInv, AnswerInv, TypeOK, InsertRequest, IssuesOnly,
       CleanupAlone
<1>5. AnsweredIsDone'
    BY StoreConstants, <1>1 DEF StoreInv, AnswerInv, TypeOK, InsertRequest, AnsweredIsDone,
       CleanupAlone
<1>6. LogAgrees'
  <2>1. RequestAction(s) \notin {"creation", "issue", "complete", "revoke", "reverse"}
      BY DEF RequestAction
  <2>2. \A r \in Requests : RequestAction(r)' = RequestAction(r)
      BY DEF RequestAction
  <2>3. ~Logged("creation", s) /\ ~Logged("issue", s)
      BY DEF AnswerInv, InsertRequest, FreshIsUnlogged
  <2>4. certRequests \subseteq Requests
      BY DEF StoreInv, TypeOK
  <2> QED BY <2>1, <2>2, <2>3, <2>4 DEF AnswerInv, InsertRequest, LogAgrees
<1>7. AcknowledgedIsDone'
    BY StoreConstants, <1>1 DEF StoreInv, AnswerInv, TypeOK, InsertRequest,
       AcknowledgedIsDone, AnsweredIsDone
<1> QED
    BY <1>2, <1>3, <1>4, <1>5, <1>6, <1>7 DEF AnswerInv

\* CheckDuplicateAdd.
LEMMA CheckDuplicateAddAnswers ==
  ASSUME StoreInv, AnswerInv, NEW s \in Requests, CheckDuplicateAdd(s)
  PROVE  AnswerInv'
<1>1. \A r \in Requests : Done(r) => Done(r)'
    BY DoneStays DEF StoreInv, AnswerInv, CheckDuplicateAdd
<1>2. FreshIsUnlogged'
    BY StoreConstants DEF StoreInv, AnswerInv, TypeOK, CheckDuplicateAdd, FreshIsUnlogged,
       CleanupAlone, NotYetThere
<1>3. CompletedIsWhole'
    BY StoreConstants DEF StoreInv, AnswerInv, TypeOK, CheckDuplicateAdd, CompletedIsWhole,
       FreshIsUnlogged, OneForm, NotYetThere
<1>4. IssuesOnly'
    BY StoreConstants DEF StoreInv, AnswerInv, TypeOK, CheckDuplicateAdd, IssuesOnly,
       CleanupAlone
<1>5. AnsweredIsDone'
    BY StoreConstants, <1>1 DEF StoreInv, AnswerInv, TypeOK, CheckDuplicateAdd,
       AnsweredIsDone, CleanupAlone
<1>6. LogAgrees'
    BY StoreConstants DEF StoreInv, AnswerInv, TypeOK, CheckDuplicateAdd, LogAgrees,
       FreshIsUnlogged, RequestAction, RevocationAtHand, RenewalAtHand
<1>7. AcknowledgedIsDone'
    BY StoreConstants, <1>1 DEF StoreInv, AnswerInv, TypeOK, CheckDuplicateAdd,
       AcknowledgedIsDone, AnsweredIsDone
<1> QED
    BY <1>2, <1>3, <1>4, <1>5, <1>6, <1>7 DEF AnswerInv

\* IssueCert.
LEMMA IssueCertAnswers ==
  ASSUME StoreInv, AnswerInv, NEW s \in Requests, IssueCert(s)
  PROVE  AnswerInv'
<1>1. \A r \in Requests : Done(r) => Done(r)'
    BY DoneStays DEF StoreInv, AnswerInv, IssueCert
<1>2. FreshIsUnlogged'
    BY StoreConstants DEF StoreInv, AnswerInv, TypeOK, IssueCert, FreshIsUnlogged,
       CleanupAlone, NotYetThere
<1>3. CompletedIsWhole'
  <2>1. ~Logged("complete", s) /\ ~Logged("issue", s) /\ <<s, "esc1">> \notin certificates
      BY DEF StoreInv, AnswerInv, IssueCert, FreshIsUnlogged, NotYetThere
  <2> QED BY <2>1 DEF AnswerInv, IssueCert, CompletedIsWhole
<1>4. IssuesOnly'
    BY StoreConstants DEF StoreInv, AnswerInv, TypeOK, IssueCert, IssuesOnly, CleanupAlone
<1>5. AnsweredIsDone'
  <2>1. ~Logged("reverse", s)
      BY DEF StoreInv, AnswerInv, IssueCert, NotYetThere, LogAgrees
  <2>2. pc'[s] = "acknowledge" => Done(s)'
      BY <2>1 DEF StoreInv, TypeOK, IssueCert, Done
  <2>3. \A r \in Requests \ {s} : pc'[r] = pc[r]
      BY DEF StoreInv, TypeOK, IssueCert
  <2> QED BY <1>1, <2>2, <2>3 DEF AnswerInv, AnsweredIsDone
<1>6. LogAgrees'
    BY StoreConstants DEF StoreInv, AnswerInv, TypeOK, IssueCert, LogAgrees, FreshIsUnlogged,
       RequestAction, RevocationAtHand, RenewalAtHand
<1>7. AcknowledgedIsDone'
    BY StoreConstants, <1>1 DEF StoreInv, AnswerInv, TypeOK, IssueCert, AcknowledgedIsDone,
       AnsweredIsDone
<1> QED
    BY <1>2, <1>3, <1>4, <1>5, <1>6, <1>7 DEF AnswerInv

\* SendResponse.
LEMMA SendResponseAnswers ==
  ASSUME StoreInv, AnswerInv, NEW s \in Requests, SendResponse(s)
  PROVE  AnswerInv'
<1>1. \A r \in Requests : Done(r) => Done(r)'
    BY DoneStays DEF StoreInv, AnswerInv, SendResponse
<1>2. FreshIsUnlogged'
    BY StoreConstants DEF StoreInv, AnswerInv, TypeOK, SendResponse, FreshIsUnlogged,
       CleanupAlone, NotYetThere
<1>3. CompletedIsWhole'
    BY StoreConstants DEF StoreInv, AnswerInv, TypeOK, SendResponse, CompletedIsWhole,
       FreshIsUnlogged, OneForm, NotYetThere
<1>4. IssuesOnly'
    BY StoreConstants DEF StoreInv, AnswerInv, TypeOK, SendResponse, IssuesOnly, CleanupAlone
<1>5. AnsweredIsDone'
    BY StoreConstants, <1>1 DEF StoreInv, AnswerInv, TypeOK, SendResponse, AnsweredIsDone,
       CleanupAlone
<1>6. LogAgrees'
    BY StoreConstants DEF StoreInv, AnswerInv, TypeOK, SendResponse, LogAgrees,
       FreshIsUnlogged, RequestAction, RevocationAtHand, RenewalAtHand
<1>7. AcknowledgedIsDone'
    BY StoreConstants, <1>1 DEF StoreInv, AnswerInv, TypeOK, SendResponse,
       AcknowledgedIsDone, AnsweredIsDone
<1> QED
    BY <1>2, <1>3, <1>4, <1>5, <1>6, <1>7 DEF AnswerInv

\* ReadConfirmation.
LEMMA ReadConfirmationAnswers ==
  ASSUME StoreInv, AnswerInv, NEW s \in Requests, ReadConfirmation(s)
  PROVE  AnswerInv'
<1>1. \A r \in Requests : Done(r) => Done(r)'
    BY DoneStays DEF StoreInv, AnswerInv, ReadConfirmation
<1>2. FreshIsUnlogged'
    BY StoreConstants DEF StoreInv, AnswerInv, TypeOK, ReadConfirmation, FreshIsUnlogged,
       CleanupAlone, NotYetThere
<1>3. CompletedIsWhole'
    BY StoreConstants DEF StoreInv, AnswerInv, TypeOK, ReadConfirmation, CompletedIsWhole,
       FreshIsUnlogged, OneForm, NotYetThere
<1>4. IssuesOnly'
    BY StoreConstants DEF StoreInv, AnswerInv, TypeOK, ReadConfirmation, IssuesOnly,
       CleanupAlone
<1>5. AnsweredIsDone'
    BY StoreConstants, <1>1 DEF StoreInv, AnswerInv, TypeOK, ReadConfirmation,
       AnsweredIsDone, CleanupAlone
<1>6. LogAgrees'
    BY StoreConstants DEF StoreInv, AnswerInv, TypeOK, ReadConfirmation, LogAgrees,
       FreshIsUnlogged, RequestAction, RevocationAtHand, RenewalAtHand
<1>7. AcknowledgedIsDone'
    BY StoreConstants, <1>1 DEF StoreInv, AnswerInv, TypeOK, ReadConfirmation,
       AcknowledgedIsDone, AnsweredIsDone
<1> QED
    BY <1>2, <1>3, <1>4, <1>5, <1>6, <1>7 DEF AnswerInv

\* Acknowledge.
LEMMA AcknowledgeAnswers ==
  ASSUME StoreInv, AnswerInv, NEW s \in Requests, Acknowledge(s)
  PROVE  AnswerInv'
<1>1. \A r \in Requests : Done(r) => Done(r)'
    BY DoneStays DEF StoreInv, AnswerInv, Acknowledge
<1>2. FreshIsUnlogged'
    BY StoreConstants DEF StoreInv, AnswerInv, TypeOK, Acknowledge, FreshIsUnlogged,
       CleanupAlone, NotYetThere
<1>3. CompletedIsWhole'
    BY StoreConstants DEF StoreInv, AnswerInv, TypeOK, Acknowledge, CompletedIsWhole,
       FreshIsUnlogged, OneForm, NotYetThere
<1>4. IssuesOnly'
    BY StoreConstants DEF StoreInv, AnswerInv, TypeOK, Acknowledge, IssuesOnly, CleanupAlone
<1>5. AnsweredIsDone'
    BY StoreConstants, <1>1 DEF StoreInv, AnswerInv, TypeOK, Acknowledge, AnsweredIsDone,
       CleanupAlone
<1>6. LogAgrees'
    BY StoreConstants DEF StoreInv, AnswerInv, TypeOK, Acknowledge, LogAgrees,
       FreshIsUnlogged, RequestAction, RevocationAtHand, RenewalAtHand
<1>7. AcknowledgedIsDone'
    BY StoreConstants, <1>1 DEF StoreInv, AnswerInv, TypeOK, Acknowledge, AcknowledgedIsDone,
       AnsweredIsDone
<1> QED
    BY <1>2, <1>3, <1>4, <1>5, <1>6, <1>7 DEF AnswerInv

\* CompleteCert.
LEMMA CompleteCertAnswers ==
  ASSUME StoreInv, AnswerInv, NEW s \in Requests, CompleteCert(s)
  PROVE  AnswerInv'
<1>1. \A r \in Requests : Done(r) => Done(r)'
    BY DoneStays DEF StoreInv, AnswerInv, CompleteCert
<1>2. FreshIsUnlogged'
    BY StoreConstants DEF StoreInv, AnswerInv, TypeOK, CompleteCert, FreshIsUnlogged,
       CleanupAlone, NotYetThere, Replace
<1>3. CompletedIsWhole'
    BY StoreConstants DEF StoreInv, AnswerInv, TypeOK, CompleteCert, CompletedIsWhole,
       FreshIsUnlogged, OneForm, NotYetThere, Replace
<1>4. IssuesOnly'
    BY StoreConstants DEF StoreInv, AnswerInv, TypeOK, CompleteCert, IssuesOnly,
       CleanupAlone, Replace
<1>5. AnsweredIsDone'
  <2>1. pc'[s] = "acknowledge" => <<s, "esc1">> \in certificates /\ <<"complete", s>> \in certLog'
      BY DEF StoreInv, TypeOK, CompleteCert
  <2>2. <<s, "esc1">> \in certificates => ~Logged("reverse", s) /\ Kind[s] # "revocation"
      BY DEF StoreInv, AnswerInv, RevokedIsGone, LogAgrees, IssuesOnly
  <2>3. Logged("reverse", s)' => Logged("reverse", s)
      BY DEF CompleteCert
  <2>4. pc'[s] = "acknowledge" => Done(s)'
      BY <2>1, <2>2, <2>3 DEF Done
  <2>5. \A r \in Requests \ {s} : pc'[r] = pc[r]
      BY DEF StoreInv, TypeOK, CompleteCert
  <2> QED BY <1>1, <2>4, <2>5 DEF AnswerInv, AnsweredIsDone
<1>6. LogAgrees'
    BY StoreConstants DEF StoreInv, AnswerInv, TypeOK, CompleteCert, LogAgrees,
       FreshIsUnlogged, RequestAction, RevocationAtHand, RenewalAtHand, Replace
<1>7. AcknowledgedIsDone'
    BY StoreConstants, <1>1 DEF StoreInv, AnswerInv, TypeOK, CompleteCert,
       AcknowledgedIsDone, AnsweredIsDone, Replace
<1> QED
    BY <1>2, <1>3, <1>4, <1>5, <1>6, <1>7 DEF AnswerInv

\* FetchOriginal.
LEMMA FetchOriginalAnswers ==
  ASSUME StoreInv, AnswerInv, NEW p \in Processes, FetchOriginal(p)
  PROVE  AnswerInv'
<1>1. \A r \in Requests : Done(r) => Done(r)'
    BY DoneStays DEF StoreInv, AnswerInv, FetchOriginal
<1>2. FreshIsUnlogged'
    BY StoreConstants DEF StoreInv, AnswerInv, TypeOK, FetchOriginal, FreshIsUnlogged,
       CleanupAlone, NotYetThere
<1>3. CompletedIsWhole'
    BY StoreConstants DEF StoreInv, AnswerInv, TypeOK, FetchOriginal, CompletedIsWhole,
       FreshIsUnlogged, OneForm, NotYetThere
<1>4. IssuesOnly'
    BY StoreConstants DEF StoreInv, AnswerInv, TypeOK, FetchOriginal, IssuesOnly,
       CleanupAlone
<1>5. AnsweredIsDone'
    BY StoreConstants, <1>1 DEF StoreInv, AnswerInv, TypeOK, FetchOriginal, AnsweredIsDone,
       CleanupAlone
<1>6. LogAgrees'
    BY StoreConstants DEF StoreInv, AnswerInv, TypeOK, FetchOriginal, LogAgrees,
       FreshIsUnlogged, RequestAction, RevocationAtHand, RenewalAtHand
<1>7. AcknowledgedIsDone'
    BY StoreConstants, <1>1 DEF StoreInv, AnswerInv, TypeOK, FetchOriginal,
       AcknowledgedIsDone, AnsweredIsDone
<1> QED
    BY <1>2, <1>3, <1>4, <1>5, <1>6, <1>7 DEF AnswerInv

\* RevokeOriginal.
LEMMA RevokeOriginalAnswers ==
  ASSUME StoreInv, AnswerInv, NEW p \in Processes, RevokeOriginal(p)
  PROVE  AnswerInv'
<1>1. \A r \in Requests : Done(r) => Done(r)'
    BY DoneStays DEF StoreInv, AnswerInv, RevokeOriginal
<1>2. FreshIsUnlogged'
    BY StoreConstants DEF StoreInv, AnswerInv, TypeOK, RevokeOriginal, FreshIsUnlogged,
       CleanupAlone, NotYetThere
<1>3. CompletedIsWhole'
    BY StoreConstants DEF StoreInv, AnswerInv, TypeOK, RevokeOriginal, CompletedIsWhole,
       FreshIsUnlogged, OneForm, NotYetThere
<1>4. IssuesOnly'
    BY StoreConstants DEF StoreInv, AnswerInv, TypeOK, RevokeOriginal, IssuesOnly,
       CleanupAlone
<1>5. AnsweredIsDone'
    BY StoreConstants, <1>1 DEF StoreInv, AnswerInv, TypeOK, RevokeOriginal, AnsweredIsDone,
       CleanupAlone
<1>6. LogAgrees'
    BY StoreConstants DEF StoreInv, AnswerInv, TypeOK, RevokeOriginal, LogAgrees,
       FreshIsUnlogged, RequestAction, RevocationAtHand, RenewalAtHand
<1>7. AcknowledgedIsDone'
    BY StoreConstants, <1>1 DEF StoreInv, AnswerInv, TypeOK, RevokeOriginal,
       AcknowledgedIsDone, AnsweredIsDone
<1> QED
    BY <1>2, <1>3, <1>4, <1>5, <1>6, <1>7 DEF AnswerInv

\* DeleteOriginal.
LEMMA DeleteOriginalAnswers ==
  ASSUME StoreInv, AnswerInv, NEW p \in Processes, DeleteOriginal(p)
  PROVE  AnswerInv'
<1>1. \A r \in Requests : Done(r) => Done(r)'
    BY DoneStays DEF StoreInv, AnswerInv, DeleteOriginal
<1>2. FreshIsUnlogged'
    BY StoreConstants DEF StoreInv, AnswerInv, TypeOK, DeleteOriginal, FreshIsUnlogged,
       CleanupAlone, NotYetThere
<1>3. CompletedIsWhole'
    BY StoreConstants DEF StoreInv, AnswerInv, TypeOK, DeleteOriginal, CompletedIsWhole,
       FreshIsUnlogged, OneForm, NotYetThere
<1>4. IssuesOnly'
    BY StoreConstants DEF StoreInv, AnswerInv, TypeOK, DeleteOriginal, IssuesOnly,
       CleanupAlone
<1>5. AnsweredIsDone'
    BY StoreConstants, <1>1 DEF StoreInv, AnswerInv, TypeOK, DeleteOriginal, AnsweredIsDone,
       CleanupAlone
<1>6. LogAgrees'
    BY StoreConstants DEF StoreInv, AnswerInv, TypeOK, DeleteOriginal, LogAgrees,
       FreshIsUnlogged, RequestAction, RevocationAtHand, RenewalAtHand
<1>7. AcknowledgedIsDone'
    BY StoreConstants, <1>1 DEF StoreInv, AnswerInv, TypeOK, DeleteOriginal,
       AcknowledgedIsDone, AnsweredIsDone
<1> QED
    BY <1>2, <1>3, <1>4, <1>5, <1>6, <1>7 DEF AnswerInv

\* CompleteRenewal.
LEMMA CompleteRenewalAnswers ==
  ASSUME StoreInv, AnswerInv, NEW p \in Processes, CompleteRenewal(p)
  PROVE  AnswerInv'
<1>1. \A r \in Requests : Done(r) => Done(r)'
    BY DoneStays DEF StoreInv, AnswerInv, CompleteRenewal
<1>2. FreshIsUnlogged'
  <2>1. \A r \in Requests : pc'[r] \in {"new", "insert", "check", "create"} => pc'[r] = pc[r]
      BY DEF StoreInv, TypeOK, CompleteRenewal
  <2>2. UNCHANGED certLog \/ Log("complete", Subject(p))
      BY DEF CompleteRenewal
  <2>3. \A r \in Requests : pc[r] \in {"new", "insert", "check", "create"} => r # Subject(p)
      BY DEF StoreInv, CompleteRenewal, RenewalAtHand, NotYetThere
  <2> QED BY <2>1, <2>2, <2>3 DEF AnswerInv, FreshIsUnlogged
<1>3. CompletedIsWhole'
  <2>1. <<Subject(p), "esc1">> \notin certificates
      BY DEF StoreInv, TypeOK, CompleteRenewal, RenewalAtHand, OneForm
  <2>2. UNCHANGED certLog \/ Log("complete", Subject(p))
      BY DEF CompleteRenewal
  <2>3. \A r \in Requests : <<r, "esc1">> \in certificates' => <<r, "esc1">> \in certificates
      BY DEF CompleteRenewal, Replace
  <2> QED BY <2>1, <2>2, <2>3 DEF AnswerInv, CompletedIsWhole
<1>4. IssuesOnly'
    BY StoreConstants DEF StoreInv, AnswerInv, TypeOK, CompleteRenewal, IssuesOnly,
       CleanupAlone, Replace
<1>5. AnsweredIsDone'
  <2>1. ASSUME p \in Requests, pc'[p] = "acknowledge" PROVE Done(p)'
    <3>1. /\ <<p, "esc2">> \in certificates
          /\ <<"complete", p>> \in certLog'
        BY <2>1, StoreConstants DEF StoreInv, TypeOK, CompleteRenewal
    <3>2. ~Logged("reverse", p) /\ Kind[p] # "revocation"
        BY <2>1, <3>1 DEF StoreInv, AnswerInv, RevokedIsGone, LogAgrees, IssuesOnly
    <3>3. Logged("reverse", p)' => Logged("reverse", p)
        BY DEF CompleteRenewal
    <3> QED BY <3>1, <3>2, <3>3 DEF Done
  <2>2. \A r \in Requests \ {p} : pc'[r] = pc[r]
      BY DEF StoreInv, TypeOK, CompleteRenewal
  <2> QED BY <1>1, <2>1, <2>2 DEF AnswerInv, AnsweredIsDone
<1>6. LogAgrees'
    BY StoreConstants DEF StoreInv, AnswerInv, TypeOK, CompleteRenewal, LogAgrees,
       FreshIsUnlogged, RequestAction, RevocationAtHand, RenewalAtHand, Replace
<1>7. AcknowledgedIsDone'
    BY StoreConstants, <1>1 DEF StoreInv, AnswerInv, TypeOK, CompleteRenewal,
       AcknowledgedIsDone, AnsweredIsDone, Replace
<1> QED
    BY <1>2, <1>3, <1>4, <1>5, <1>6, <1>7 DEF AnswerInv

\* DropCert.
LEMMA DropCertAnswers ==
  ASSUME StoreInv, AnswerInv, NEW s \in Requests, DropCert(s)
  PROVE  AnswerInv'
<1>1. \A r \in Requests : Done(r) => Done(r)'
    BY DoneStays DEF StoreInv, AnswerInv, DropCert
<1>2. FreshIsUnlogged'
    BY StoreConstants DEF StoreInv, AnswerInv, TypeOK, DropCert, FreshIsUnlogged,
       CleanupAlone, NotYetThere
<1>3. CompletedIsWhole'
    BY StoreConstants DEF StoreInv, AnswerInv, TypeOK, DropCert, CompletedIsWhole,
       FreshIsUnlogged, OneForm, NotYetThere
<1>4. IssuesOnly'
    BY StoreConstants DEF StoreInv, AnswerInv, TypeOK, DropCert, IssuesOnly, CleanupAlone
<1>5. AnsweredIsDone'
    BY StoreConstants, <1>1 DEF StoreInv, AnswerInv, TypeOK, DropCert, AnsweredIsDone,
       CleanupAlone
<1>6. LogAgrees'
    BY StoreConstants DEF StoreInv, AnswerInv, TypeOK, DropCert, LogAgrees, FreshIsUnlogged,
       RequestAction, RevocationAtHand, RenewalAtHand
<1>7. AcknowledgedIsDone'
    BY StoreConstants, <1>1 DEF StoreInv, AnswerInv, TypeOK, DropCert, AcknowledgedIsDone,
       AnsweredIsDone
<1> QED
    BY <1>2, <1>3, <1>4, <1>5, <1>6, <1>7 DEF AnswerInv

\* Only what is still partial is reversed, so nothing that is done is undone.
LEMMA ReverseCertAnswers ==
  ASSUME StoreInv, AnswerInv, NEW p \in Processes, ReverseCert(p)
  PROVE  AnswerInv'
<1>1. \A r \in Requests : Done(r) => Done(r)'
    BY DoneStays DEF StoreInv, AnswerInv, ReverseCert
<1>2. FreshIsUnlogged'
    BY StoreConstants DEF StoreInv, AnswerInv, TypeOK, ReverseCert, FreshIsUnlogged,
       CleanupAlone, NotYetThere
<1>3. CompletedIsWhole'
    BY StoreConstants DEF StoreInv, AnswerInv, TypeOK, ReverseCert, CompletedIsWhole,
       FreshIsUnlogged, OneForm, NotYetThere
<1>4. IssuesOnly'
    BY StoreConstants DEF StoreInv, AnswerInv, TypeOK, ReverseCert, IssuesOnly, CleanupAlone
<1>5. AnsweredIsDone'
    BY StoreConstants, <1>1 DEF StoreInv, AnswerInv, TypeOK, ReverseCert, AnsweredIsDone,
       CleanupAlone
<1>6. LogAgrees'
    BY StoreConstants DEF StoreInv, AnswerInv, TypeOK, ReverseCert, LogAgrees,
       FreshIsUnlogged, RequestAction, RevocationAtHand, RenewalAtHand
<1>7. AcknowledgedIsDone'
    BY StoreConstants, <1>1 DEF StoreInv, AnswerInv, TypeOK, ReverseCert, AcknowledgedIsDone,
       AnsweredIsDone
<1> QED
    BY <1>2, <1>3, <1>4, <1>5, <1>6, <1>7 DEF AnswerInv

\* UndoCert.
LEMMA UndoCertAnswers ==
  ASSUME StoreInv, AnswerInv, NEW p \in Processes, UndoCert(p)
  PROVE  AnswerInv'
<1>1. \A r \in Requests : Done(r) => Done(r)'
    BY DoneStays DEF StoreInv, AnswerInv, UndoCert
<1>2. FreshIsUnlogged'
    BY StoreConstants DEF StoreInv, AnswerInv, TypeOK, UndoCert, FreshIsUnlogged,
       CleanupAlone, NotYetThere
<1>3. CompletedIsWhole'
    BY StoreConstants DEF StoreInv, AnswerInv, TypeOK, UndoCert, CompletedIsWhole,
       FreshIsUnlogged, OneForm, NotYetThere
<1>4. IssuesOnly'
    BY StoreConstants DEF StoreInv, AnswerInv, TypeOK, UndoCert, IssuesOnly, CleanupAlone
<1>5. AnsweredIsDone'
    BY StoreConstants, <1>1 DEF StoreInv, AnswerInv, TypeOK, UndoCert, AnsweredIsDone,
       CleanupAlone
<1>6. LogAgrees'
    BY StoreConstants DEF StoreInv, AnswerInv, TypeOK, UndoCert, LogAgrees, FreshIsUnlogged,
       RequestAction, RevocationAtHand, RenewalAtHand
<1>7. AcknowledgedIsDone'
    BY StoreConstants, <1>1 DEF StoreInv, AnswerInv, TypeOK, UndoCert, AcknowledgedIsDone,
       AnsweredIsDone
<1> QED
    BY <1>2, <1>3, <1>4, <1>5, <1>6, <1>7 DEF AnswerInv

\* FetchTarget.
LEMMA FetchTargetAnswers ==
  ASSUME StoreInv, AnswerInv, NEW p \in Processes, FetchTarget(p)
  PROVE  AnswerInv'
<1>1. \A r \in Requests : Done(r) => Done(r)'
    BY DoneStays DEF StoreInv, AnswerInv, FetchTarget
<1>2. FreshIsUnlogged'
    BY StoreConstants DEF StoreInv, AnswerInv, TypeOK, FetchTarget, FreshIsUnlogged,
       CleanupAlone, NotYetThere
<1>3. CompletedIsWhole'
    BY StoreConstants DEF StoreInv, AnswerInv, TypeOK, FetchTarget, CompletedIsWhole,
       FreshIsUnlogged, OneForm, NotYetThere
<1>4. IssuesOnly'
    BY StoreConstants DEF StoreInv, AnswerInv, TypeOK, FetchTarget, IssuesOnly, CleanupAlone
<1>5. AnsweredIsDone'
    BY StoreConstants, <1>1 DEF StoreInv, AnswerInv, TypeOK, FetchTarget, AnsweredIsDone,
       CleanupAlone
<1>6. LogAgrees'
    BY StoreConstants DEF StoreInv, AnswerInv, TypeOK, FetchTarget, LogAgrees,
       FreshIsUnlogged, RequestAction, RevocationAtHand, RenewalAtHand
<1>7. AcknowledgedIsDone'
    BY StoreConstants, <1>1 DEF StoreInv, AnswerInv, TypeOK, FetchTarget, AcknowledgedIsDone,
       AnsweredIsDone
<1> QED
    BY <1>2, <1>3, <1>4, <1>5, <1>6, <1>7 DEF AnswerInv

\* RevokeTarget.
LEMMA RevokeTargetAnswers ==
  ASSUME StoreInv, AnswerInv, NEW p \in Processes, RevokeTarget(p)
  PROVE  AnswerInv'
<1>1. \A r \in Requests : Done(r) => Done(r)'
    BY DoneStays DEF StoreInv, AnswerInv, RevokeTarget
<1>2. FreshIsUnlogged'
    BY StoreConstants DEF StoreInv, AnswerInv, TypeOK, RevokeTarget, FreshIsUnlogged,
       CleanupAlone, NotYetThere
<1>3. CompletedIsWhole'
    BY StoreConstants DEF StoreInv, AnswerInv, TypeOK, RevokeTarget, CompletedIsWhole,
       FreshIsUnlogged, OneForm, NotYetThere
<1>4. IssuesOnly'
    BY StoreConstants DEF StoreInv, AnswerInv, TypeOK, RevokeTarget, IssuesOnly, CleanupAlone
<1>5. AnsweredIsDone'
  <2>1. ASSUME p \in Requests, pc'[p] = "acknowledge" PROVE Done(p)'
      BY <2>1, StoreConstants DEF StoreInv, TypeOK, RevokeTarget, RevocationAtHand, Done
  <2>2. \A r \in Requests \ {p} : pc'[r] = pc[r]
      BY DEF StoreInv, TypeOK, RevokeTarget
  <2> QED BY <1>1, <2>1, <2>2 DEF AnswerInv, AnsweredIsDone
<1>6. LogAgrees'
    BY StoreConstants DEF StoreInv, AnswerInv, TypeOK, RevokeTarget, LogAgrees,
       FreshIsUnlogged, RequestAction, RevocationAtHand, RenewalAtHand
<1>7. AcknowledgedIsDone'
    BY StoreConstants, <1>1 DEF StoreInv, AnswerInv, TypeOK, RevokeTarget,
       AcknowledgedIsDone, AnsweredIsDone
<1> QED
    BY <1>2, <1>3, <1>4, <1>5, <1>6, <1>7 DEF AnswerInv

\* NextRequest.
LEMMA NextRequestAnswers ==
  ASSUME StoreInv, AnswerInv, NextRequest
  PROVE  AnswerInv'
<1>1. \A r \in Requests : Done(r) => Done(r)'
    BY DoneStays DEF StoreInv, AnswerInv, NextRequest
<1>2. FreshIsUnlogged'
    BY StoreConstants DEF StoreInv, AnswerInv, TypeOK, NextRequest, FreshIsUnlogged,
       CleanupAlone, NotYetThere, Enter, Iterating, GivingUp, CountError, Take, PendingRequests,
       PendingRevocations, Partial
<1>3. CompletedIsWhole'
    BY StoreConstants DEF StoreInv, AnswerInv, TypeOK, NextRequest, CompletedIsWhole,
       FreshIsUnlogged, OneForm, NotYetThere, Enter, Iterating, GivingUp, CountError, Take,
       PendingRequests, PendingRevocations, Partial
<1>4. IssuesOnly'
    BY StoreConstants DEF StoreInv, AnswerInv, TypeOK, NextRequest, IssuesOnly, CleanupAlone,
       Enter, Iterating, GivingUp, CountError, Take, PendingRequests, PendingRevocations,
       Partial
<1>5. AnsweredIsDone'
    BY StoreConstants, <1>1 DEF StoreInv, AnswerInv, TypeOK, NextRequest, AnsweredIsDone,
       CleanupAlone, Enter, Iterating, GivingUp, CountError, Take, PendingRequests,
       PendingRevocations, Partial
<1>6. LogAgrees'
    BY StoreConstants DEF StoreInv, AnswerInv, TypeOK, NextRequest, LogAgrees,
       FreshIsUnlogged, RequestAction, RevocationAtHand, RenewalAtHand, Enter, Iterating,
       GivingUp, CountError, Take, PendingRequests, PendingRevocations, Partial
<1>7. AcknowledgedIsDone'
    BY StoreConstants, <1>1 DEF StoreInv, AnswerInv, TypeOK, NextRequest, AcknowledgedIsDone,
       AnsweredIsDone, Enter, Iterating, GivingUp, CountError, Take, PendingRequests,
       PendingRevocations, Partial
<1> QED
    BY <1>2, <1>3, <1>4, <1>5, <1>6, <1>7 DEF AnswerInv

\* DeleteRequest.
LEMMA DeleteRequestAnswers ==
  ASSUME StoreInv, AnswerInv, DeleteRequest
  PROVE  AnswerInv'
<1>1. \A r \in Requests : Done(r) => Done(r)'
    BY DoneStays DEF StoreInv, AnswerInv, DeleteRequest
<1>2. FreshIsUnlogged'
    BY StoreConstants DEF StoreInv, AnswerInv, TypeOK, DeleteRequest, FreshIsUnlogged,
       CleanupAlone, NotYetThere, Enter, Iterating, GivingUp, CountError, Take, PendingRequests,
       PendingRevocations, Partial
<1>3. CompletedIsWhole'
    BY StoreConstants DEF StoreInv, AnswerInv, TypeOK, DeleteRequest, CompletedIsWhole,
       FreshIsUnlogged, OneForm, NotYetThere, Enter, Iterating, GivingUp, CountError, Take,
       PendingRequests, PendingRevocations, Partial
<1>4. IssuesOnly'
    BY StoreConstants DEF StoreInv, AnswerInv, TypeOK, DeleteRequest, IssuesOnly,
       CleanupAlone, Enter, Iterating, GivingUp, CountError, Take, PendingRequests,
       PendingRevocations, Partial
<1>5. AnsweredIsDone'
    BY StoreConstants, <1>1 DEF StoreInv, AnswerInv, TypeOK, DeleteRequest, AnsweredIsDone,
       CleanupAlone, Enter, Iterating, GivingUp, CountError, Take, PendingRequests,
       PendingRevocations, Partial
<1>6. LogAgrees'
    BY StoreConstants DEF StoreInv, AnswerInv, TypeOK, DeleteRequest, LogAgrees,
       FreshIsUnlogged, RequestAction, RevocationAtHand, RenewalAtHand, Enter, Iterating,
       GivingUp, CountError, Take, PendingRequests, PendingRevocations, Partial
<1>7. AcknowledgedIsDone'
    BY StoreConstants, <1>1 DEF StoreInv, AnswerInv, TypeOK, DeleteRequest,
       AcknowledgedIsDone, AnsweredIsDone, Enter, Iterating, GivingUp, CountError, Take,
       PendingRequests, PendingRevocations, Partial
<1> QED
    BY <1>2, <1>3, <1>4, <1>5, <1>6, <1>7 DEF AnswerInv

\* DeleteRequests.
LEMMA DeleteRequestsAnswers ==
  ASSUME StoreInv, AnswerInv, DeleteRequests
  PROVE  AnswerInv'
<1>1. \A r \in Requests : Done(r) => Done(r)'
    BY DoneStays DEF StoreInv, AnswerInv, DeleteRequests
<1>2. FreshIsUnlogged'
    BY StoreConstants DEF StoreInv, AnswerInv, TypeOK, DeleteRequests, FreshIsUnlogged,
       CleanupAlone, NotYetThere, Enter, Iterating, GivingUp, CountError, Take, PendingRequests,
       PendingRevocations, Partial
<1>3. CompletedIsWhole'
    BY StoreConstants DEF StoreInv, AnswerInv, TypeOK, DeleteRequests, CompletedIsWhole,
       FreshIsUnlogged, OneForm, NotYetThere, Enter, Iterating, GivingUp, CountError, Take,
       PendingRequests, PendingRevocations, Partial
<1>4. IssuesOnly'
    BY StoreConstants DEF StoreInv, AnswerInv, TypeOK, DeleteRequests, IssuesOnly,
       CleanupAlone, Enter, Iterating, GivingUp, CountError, Take, PendingRequests,
       PendingRevocations, Partial
<1>5. AnsweredIsDone'
    BY StoreConstants, <1>1 DEF StoreInv, AnswerInv, TypeOK, DeleteRequests, AnsweredIsDone,
       CleanupAlone, Enter, Iterating, GivingUp, CountError, Take, PendingRequests,
       PendingRevocations, Partial
<1>6. LogAgrees'
    BY StoreConstants DEF StoreInv, AnswerInv, TypeOK, DeleteRequests, LogAgrees,
       FreshIsUnlogged, RequestAction, RevocationAtHand, RenewalAtHand, Enter, Iterating,
       GivingUp, CountError, Take, PendingRequests, PendingRevocations, Partial
<1>7. AcknowledgedIsDone'
    BY StoreConstants, <1>1 DEF StoreInv, AnswerInv, TypeOK, DeleteRequests,
       AcknowledgedIsDone, AnsweredIsDone, Enter, Iterating, GivingUp, CountError, Take,
       PendingRequests, PendingRevocations, Partial
<1> QED
    BY <1>2, <1>3, <1>4, <1>5, <1>6, <1>7 DEF AnswerInv

\* NextPartial.
LEMMA NextPartialAnswers ==
  ASSUME StoreInv, AnswerInv, NextPartial
  PROVE  AnswerInv'
<1>1. \A r \in Requests : Done(r) => Done(r)'
    BY DoneStays DEF StoreInv, AnswerInv, NextPartial
<1>2. FreshIsUnlogged'
    BY StoreConstants DEF StoreInv, AnswerInv, TypeOK, NextPartial, FreshIsUnlogged,
       CleanupAlone, NotYetThere, Enter, Iterating, GivingUp, CountError, Take, PendingRequests,
       PendingRevocations, Partial, DeleteIncomplete
<1>3. CompletedIsWhole'
    BY StoreConstants DEF StoreInv, AnswerInv, TypeOK, NextPartial, CompletedIsWhole,
       FreshIsUnlogged, OneForm, NotYetThere, Enter, Iterating, GivingUp, CountError, Take,
       PendingRequests, PendingRevocations, Partial, DeleteIncomplete
<1>4. IssuesOnly'
    BY StoreConstants DEF StoreInv, AnswerInv, TypeOK, NextPartial, IssuesOnly, CleanupAlone,
       Enter, Iterating, GivingUp, CountError, Take, PendingRequests, PendingRevocations,
       Partial, DeleteIncomplete
<1>5. AnsweredIsDone'
    BY StoreConstants, <1>1 DEF StoreInv, AnswerInv, TypeOK, NextPartial, AnsweredIsDone,
       CleanupAlone, Enter, Iterating, GivingUp, CountError, Take, PendingRequests,
       PendingRevocations, Partial, DeleteIncomplete
<1>6. LogAgrees'
  <2>1. certificates' \subseteq certificates
      BY DEF NextPartial, DeleteIncomplete
  <2> QED BY <2>1 DEF AnswerInv, NextPartial, LogAgrees, RequestAction
<1>7. AcknowledgedIsDone'
    BY StoreConstants, <1>1 DEF StoreInv, AnswerInv, TypeOK, NextPartial, AcknowledgedIsDone,
       AnsweredIsDone, Enter, Iterating, GivingUp, CountError, Take, PendingRequests,
       PendingRevocations, Partial, DeleteIncomplete
<1> QED
    BY <1>2, <1>3, <1>4, <1>5, <1>6, <1>7 DEF AnswerInv

\* DeletePartials.
LEMMA DeletePartialsAnswers ==
  ASSUME StoreInv, AnswerInv, DeletePartials
  PROVE  AnswerInv'
<1>1. \A r \in Requests : Done(r) => Done(r)'
    BY DoneStays DEF StoreInv, AnswerInv, DeletePartials
<1>2. FreshIsUnlogged'
    BY StoreConstants DEF StoreInv, AnswerInv, TypeOK, DeletePartials, FreshIsUnlogged,
       CleanupAlone, NotYetThere, Enter, Iterating, GivingUp, CountError, Take, PendingRequests,
       PendingRevocations, Partial
<1>3. CompletedIsWhole'
    BY StoreConstants DEF StoreInv, AnswerInv, TypeOK, DeletePartials, CompletedIsWhole,
       FreshIsUnlogged, OneForm, NotYetThere, Enter, Iterating, GivingUp, CountError, Take,
       PendingRequests, PendingRevocations, Partial
<1>4. IssuesOnly'
    BY StoreConstants DEF StoreInv, AnswerInv, TypeOK, DeletePartials, IssuesOnly,
       CleanupAlone, Enter, Iterating, GivingUp, CountError, Take, PendingRequests,
       PendingRevocations, Partial
<1>5. AnsweredIsDone'
    BY StoreConstants, <1>1 DEF StoreInv, AnswerInv, TypeOK, DeletePartials, AnsweredIsDone,
       CleanupAlone, Enter, Iterating, GivingUp, CountError, Take, PendingRequests,
       PendingRevocations, Partial
<1>6. LogAgrees'
    BY StoreConstants DEF StoreInv, AnswerInv, TypeOK, DeletePartials, LogAgrees,
       FreshIsUnlogged, RequestAction, RevocationAtHand, RenewalAtHand, Enter, Iterating,
       GivingUp, CountError, Take, PendingRequests, PendingRevocations, Partial
<1>7. AcknowledgedIsDone'
    BY StoreConstants, <1>1 DEF StoreInv, AnswerInv, TypeOK, DeletePartials,
       AcknowledgedIsDone, AnsweredIsDone, Enter, Iterating, GivingUp, CountError, Take,
       PendingRequests, PendingRevocations, Partial
<1> QED
    BY <1>2, <1>3, <1>4, <1>5, <1>6, <1>7 DEF AnswerInv

\* NextRenewal.
LEMMA NextRenewalAnswers ==
  ASSUME StoreInv, AnswerInv, NextRenewal
  PROVE  AnswerInv'
<1>1. \A r \in Requests : Done(r) => Done(r)'
    BY DoneStays DEF StoreInv, AnswerInv, NextRenewal
<1>2. FreshIsUnlogged'
    BY StoreConstants DEF StoreInv, AnswerInv, TypeOK, NextRenewal, FreshIsUnlogged,
       CleanupAlone, NotYetThere, Enter, Iterating, GivingUp, CountError, Take, PendingRequests,
       PendingRevocations, Partial, DeleteIncomplete
<1>3. CompletedIsWhole'
    BY StoreConstants DEF StoreInv, AnswerInv, TypeOK, NextRenewal, CompletedIsWhole,
       FreshIsUnlogged, OneForm, NotYetThere, Enter, Iterating, GivingUp, CountError, Take,
       PendingRequests, PendingRevocations, Partial, DeleteIncomplete
<1>4. IssuesOnly'
    BY StoreConstants DEF StoreInv, AnswerInv, TypeOK, NextRenewal, IssuesOnly, CleanupAlone,
       Enter, Iterating, GivingUp, CountError, Take, PendingRequests, PendingRevocations,
       Partial, DeleteIncomplete
<1>5. AnsweredIsDone'
    BY StoreConstants, <1>1 DEF StoreInv, AnswerInv, TypeOK, NextRenewal, AnsweredIsDone,
       CleanupAlone, Enter, Iterating, GivingUp, CountError, Take, PendingRequests,
       PendingRevocations, Partial, DeleteIncomplete
<1>6. LogAgrees'
  <2>1. certificates' \subseteq certificates
      BY DEF NextRenewal, DeleteIncomplete
  <2> QED BY <2>1 DEF AnswerInv, NextRenewal, LogAgrees, RequestAction
<1>7. AcknowledgedIsDone'
    BY StoreConstants, <1>1 DEF StoreInv, AnswerInv, TypeOK, NextRenewal, AcknowledgedIsDone,
       AnsweredIsDone, Enter, Iterating, GivingUp, CountError, Take, PendingRequests,
       PendingRevocations, Partial, DeleteIncomplete
<1> QED
    BY <1>2, <1>3, <1>4, <1>5, <1>6, <1>7 DEF AnswerInv

\* NextRevocation.
LEMMA NextRevocationAnswers ==
  ASSUME StoreInv, AnswerInv, NextRevocation
  PROVE  AnswerInv'
<1>1. \A r \in Requests : Done(r) => Done(r)'
    BY DoneStays DEF StoreInv, AnswerInv, NextRevocation
<1>2. FreshIsUnlogged'
    BY StoreConstants DEF StoreInv, AnswerInv, TypeOK, NextRevocation, FreshIsUnlogged,
       CleanupAlone, NotYetThere, Enter, Iterating, GivingUp, CountError, Take, PendingRequests,
       PendingRevocations, Partial
<1>3. CompletedIsWhole'
    BY StoreConstants DEF StoreInv, AnswerInv, TypeOK, NextRevocation, CompletedIsWhole,
       FreshIsUnlogged, OneForm, NotYetThere, Enter, Iterating, GivingUp, CountError, Take,
       PendingRequests, PendingRevocations, Partial
<1>4. IssuesOnly'
    BY StoreConstants DEF StoreInv, AnswerInv, TypeOK, NextRevocation, IssuesOnly,
       CleanupAlone, Enter, Iterating, GivingUp, CountError, Take, PendingRequests,
       PendingRevocations, Partial
<1>5. AnsweredIsDone'
    BY StoreConstants, <1>1 DEF StoreInv, AnswerInv, TypeOK, NextRevocation, AnsweredIsDone,
       CleanupAlone, Enter, Iterating, GivingUp, CountError, Take, PendingRequests,
       PendingRevocations, Partial
<1>6. LogAgrees'
    BY StoreConstants DEF StoreInv, AnswerInv, TypeOK, NextRevocation, LogAgrees,
       FreshIsUnlogged, RequestAction, RevocationAtHand, RenewalAtHand, Enter, Iterating,
       GivingUp, CountError, Take, PendingRequests, PendingRevocations, Partial
<1>7. AcknowledgedIsDone'
    BY StoreConstants, <1>1 DEF StoreInv, AnswerInv, TypeOK, NextRevocation,
       AcknowledgedIsDone, AnsweredIsDone, Enter, Iterating, GivingUp, CountError, Take,
       PendingRequests, PendingRevocations, Partial
<1> QED
    BY <1>2, <1>3, <1>4, <1>5, <1>6, <1>7 DEF AnswerInv

\* DropRequest.
LEMMA DropRequestAnswers ==
  ASSUME StoreInv, AnswerInv, DropRequest
  PROVE  AnswerInv'
<1>1. \A r \in Requests : Done(r) => Done(r)'
    BY DoneStays DEF StoreInv, AnswerInv, DropRequest
<1>2. FreshIsUnlogged'
    BY StoreConstants DEF StoreInv, AnswerInv, TypeOK, DropRequest, FreshIsUnlogged,
       CleanupAlone, NotYetThere, Enter, Iterating, GivingUp, CountError, Take, PendingRequests,
       PendingRevocations, Partial
<1>3. CompletedIsWhole'
    BY StoreConstants DEF StoreInv, AnswerInv, TypeOK, DropRequest, CompletedIsWhole,
       FreshIsUnlogged, OneForm, NotYetThere, Enter, Iterating, GivingUp, CountError, Take,
       PendingRequests, PendingRevocations, Partial
<1>4. IssuesOnly'
    BY StoreConstants DEF StoreInv, AnswerInv, TypeOK, DropRequest, IssuesOnly, CleanupAlone,
       Enter, Iterating, GivingUp, CountError, Take, PendingRequests, PendingRevocations,
       Partial
<1>5. AnsweredIsDone'
    BY StoreConstants, <1>1 DEF StoreInv, AnswerInv, TypeOK, DropRequest, AnsweredIsDone,
       CleanupAlone, Enter, Iterating, GivingUp, CountError, Take, PendingRequests,
       PendingRevocations, Partial
<1>6. LogAgrees'
    BY StoreConstants DEF StoreInv, AnswerInv, TypeOK, DropRequest, LogAgrees,
       FreshIsUnlogged, RequestAction, RevocationAtHand, RenewalAtHand, Enter, Iterating,
       GivingUp, CountError, Take, PendingRequests, PendingRevocations, Partial
<1>7. AcknowledgedIsDone'
    BY StoreConstants, <1>1 DEF StoreInv, AnswerInv, TypeOK, DropRequest, AcknowledgedIsDone,
       AnsweredIsDone, Enter, Iterating, GivingUp, CountError, Take, PendingRequests,
       PendingRevocations, Partial
<1> QED
    BY <1>2, <1>3, <1>4, <1>5, <1>6, <1>7 DEF AnswerInv

\* DeleteRevocations.
LEMMA DeleteRevocationsAnswers ==
  ASSUME StoreInv, AnswerInv, DeleteRevocations
  PROVE  AnswerInv'
<1>1. \A r \in Requests : Done(r) => Done(r)'
    BY DoneStays DEF StoreInv, AnswerInv, DeleteRevocations
<1>2. FreshIsUnlogged'
    BY StoreConstants DEF StoreInv, AnswerInv, TypeOK, DeleteRevocations, FreshIsUnlogged,
       CleanupAlone, NotYetThere, Enter, Iterating, GivingUp, CountError, Take, PendingRequests,
       PendingRevocations, Partial
<1>3. CompletedIsWhole'
    BY StoreConstants DEF StoreInv, AnswerInv, TypeOK, DeleteRevocations, CompletedIsWhole,
       FreshIsUnlogged, OneForm, NotYetThere, Enter, Iterating, GivingUp, CountError, Take,
       PendingRequests, PendingRevocations, Partial
<1>4. IssuesOnly'
    BY StoreConstants DEF StoreInv, AnswerInv, TypeOK, DeleteRevocations, IssuesOnly,
       CleanupAlone, Enter, Iterating, GivingUp, CountError, Take, PendingRequests,
       PendingRevocations, Partial
<1>5. AnsweredIsDone'
    BY StoreConstants, <1>1 DEF StoreInv, AnswerInv, TypeOK, DeleteRevocations,
       AnsweredIsDone, CleanupAlone, Enter, Iterating, GivingUp, CountError, Take,
       PendingRequests, PendingRevocations, Partial
<1>6. LogAgrees'
    BY StoreConstants DEF StoreInv, AnswerInv, TypeOK, DeleteRevocations, LogAgrees,
       FreshIsUnlogged, RequestAction, RevocationAtHand, RenewalAtHand, Enter, Iterating,
       GivingUp, CountError, Take, PendingRequests, PendingRevocations, Partial
<1>7. AcknowledgedIsDone'
    BY StoreConstants, <1>1 DEF StoreInv, AnswerInv, TypeOK, DeleteRevocations,
       AcknowledgedIsDone, AnsweredIsDone, Enter, Iterating, GivingUp, CountError, Take,
       PendingRequests, PendingRevocations, Partial
<1> QED
    BY <1>2, <1>3, <1>4, <1>5, <1>6, <1>7 DEF AnswerInv

\* Crash.
LEMMA CrashAnswers ==
  ASSUME StoreInv, AnswerInv, Crash
  PROVE  AnswerInv'
<1>1. \A r \in Requests : Done(r) => Done(r)'
    BY DoneStays DEF StoreInv, AnswerInv, Crash
<1>2. FreshIsUnlogged'
    BY StoreConstants DEF StoreInv, AnswerInv, TypeOK, Crash, FreshIsUnlogged, CleanupAlone,
       NotYetThere
<1>3. CompletedIsWhole'
    BY StoreConstants DEF StoreInv, AnswerInv, TypeOK, Crash, CompletedIsWhole,
       FreshIsUnlogged, OneForm, NotYetThere
<1>4. IssuesOnly'
    BY StoreConstants DEF StoreInv, AnswerInv, TypeOK, Crash, IssuesOnly, CleanupAlone
<1>5. AnsweredIsDone'
    BY StoreConstants, <1>1 DEF StoreInv, AnswerInv, TypeOK, Crash, AnsweredIsDone,
       CleanupAlone
<1>6. LogAgrees'
    BY StoreConstants DEF StoreInv, AnswerInv, TypeOK, Crash, LogAgrees, FreshIsUnlogged,
       RequestAction, RevocationAtHand, RenewalAtHand
<1>7. AcknowledgedIsDone'
    BY StoreConstants, <1>1 DEF StoreInv, AnswerInv, TypeOK, Crash, AcknowledgedIsDone,
       AnsweredIsDone
<1> QED
    BY <1>2, <1>3, <1>4, <1>5, <1>6, <1>7 DEF AnswerInv

\* Finished.
LEMMA FinishedAnswers ==
  ASSUME StoreInv, AnswerInv, Finished
  PROVE  AnswerInv'
<1>1. \A r \in Requests : Done(r) => Done(r)'
    BY DoneStays DEF StoreInv, AnswerInv, Finished, vars
<1>2. FreshIsUnlogged'
    BY StoreConstants DEF StoreInv, AnswerInv, TypeOK, Finished, FreshIsUnlogged,
       CleanupAlone, NotYetThere, vars
<1>3. CompletedIsWhole'
    BY StoreConstants DEF StoreInv, AnswerInv, TypeOK, Finished, CompletedIsWhole,
       FreshIsUnlogged, OneForm, NotYetThere, vars
<1>4. IssuesOnly'
    BY StoreConstants DEF StoreInv, AnswerInv, TypeOK, Finished, IssuesOnly, CleanupAlone,
       vars
<1>5. AnsweredIsDone'
    BY StoreConstants, <1>1 DEF StoreInv, AnswerInv, TypeOK, Finished, AnsweredIsDone,
       CleanupAlone, vars
<1>6. LogAgrees'
    BY StoreConstants DEF StoreInv, AnswerInv, TypeOK, Finished, LogAgrees, FreshIsUnlogged,
       RequestAction, RevocationAtHand, RenewalAtHand, vars
<1>7. AcknowledgedIsDone'
    BY StoreConstants, <1>1 DEF StoreInv, AnswerInv, TypeOK, Finished, AcknowledgedIsDone,
       AnsweredIsDone, vars
<1> QED
    BY <1>2, <1>3, <1>4, <1>5, <1>6, <1>7 DEF AnswerInv

------------------------------------------------------------------------------
\* The invariant holds at the start and every step preserves it.
THEOREM StoreCorrect == Spec => []StoreInv
<1>1. Init => StoreInv
  <2> SUFFICES ASSUME Init PROVE StoreInv
      OBVIOUS
  <2>1. TypeOK
      BY StoreConstants DEF Init, TypeOK, Labels
  <2>2. CleanupAlone /\ RenewalAtHand /\ RevocationAtHand /\ ConfirmedFirst /\ RevokedIsGone
      BY StoreConstants DEF Init, CleanupAlone, RenewalAtHand, RevocationAtHand, ConfirmedFirst,
         RevokedIsGone
  <2>3. OneForm /\ NotYetThere /\ OnlyConfirmedActive
      BY StoreConstants DEF Init, OneForm, NotYetThere, OnlyConfirmedActive
  <2>4. KeyKept
      BY DEF Init, KeyKept, Kept
  <2> QED BY <2>1, <2>2, <2>3, <2>4 DEF StoreInv
<1>2. StoreInv /\ [Next]_vars => StoreInv'
  <2> SUFFICES ASSUME StoreInv, [Next]_vars PROVE StoreInv'
      OBVIOUS
  <2>1. CASE UNCHANGED vars
    <3>1. \A c \in Certs : Kept(c)' = Kept(c)
        BY <2>1 DEF vars, Kept
    <3> QED
        BY <2>1, <3>1 DEF vars, StoreInv, TypeOK, Labels, CleanupAlone, RenewalAtHand, RevocationAtHand,
           NotYetThere, OneForm, ConfirmedFirst, RevokedIsGone, KeyKept, OnlyConfirmedActive,
           RequestAction
  <2>2. ASSUME NEW s \in Requests, Serve(s) PROVE StoreInv'
      BY <2>2, CheckRequestKeeps, InsertRequestKeeps, CheckDuplicateAddKeeps, IssueCertKeeps,
         SendResponseKeeps, ReadConfirmationKeeps, CompleteCertKeeps, DropCertKeeps,
         AcknowledgeKeeps DEF Serve
  <2>3. ASSUME NEW p \in Processes, Shared(p) PROVE StoreInv'
      BY <2>3, FetchOriginalKeeps, RevokeOriginalKeeps, DeleteOriginalKeeps,
         CompleteRenewalKeeps, ReverseCertKeeps, UndoCertKeeps, FetchTargetKeeps,
         RevokeTargetKeeps DEF Shared
  <2>4. CASE caCleanup
      BY <2>4, NextRequestKeeps, DeleteRequestKeeps, DeleteRequestsKeeps, NextPartialKeeps,
         DeletePartialsKeeps, NextRenewalKeeps, NextRevocationKeeps, DropRequestKeeps,
         DeleteRevocationsKeeps DEF caCleanup
  <2>5. CASE Crash
      BY <2>5, CrashKeeps
  <2>6. CASE Finished
      BY <2>6, FinishedKeeps
  <2> QED BY <2>1, <2>2, <2>3, <2>4, <2>5, <2>6 DEF Next
<1> QED BY <1>1, <1>2, PTL DEF Spec

\* A revoked certificate is in the store in no form.
THEOREM RevokedIsGoneAlways == Spec => []RevokedIsGone
<1>1. StoreInv => RevokedIsGone
    BY DEF StoreInv
<1> QED BY <1>1, StoreCorrect, PTL

\* A renewal never leaves its key without a certificate.
THEOREM KeyKeptAlways == Spec => []KeyKept
<1>1. StoreInv => KeyKept
    BY DEF StoreInv
<1> QED BY <1>1, StoreCorrect, PTL

\* No certificate becomes active without its confirmation.
THEOREM OnlyConfirmedActiveAlways == Spec => []OnlyConfirmedActive
<1>1. StoreInv => OnlyConfirmedActive
    BY DEF StoreInv
<1> QED BY <1>1, StoreCorrect, PTL

\* The log agrees with the tables and what has been acknowledged is done.
THEOREM AnswersCorrect == Spec => []AnswerInv
<1>1. Init => AnswerInv
  <2> SUFFICES ASSUME Init PROVE AnswerInv
      OBVIOUS
  <2>1. FreshIsUnlogged /\ CompletedIsWhole /\ AnsweredIsDone /\ AcknowledgedIsDone
      BY StoreConstants DEF Init, FreshIsUnlogged, CompletedIsWhole, AnsweredIsDone,
         AcknowledgedIsDone
  <2>2. IssuesOnly /\ LogAgrees
      BY StoreConstants DEF Init, IssuesOnly, LogAgrees
  <2> QED BY <2>1, <2>2 DEF AnswerInv
<1>2. StoreInv /\ AnswerInv /\ [Next]_vars => AnswerInv'
  <2> SUFFICES ASSUME StoreInv, AnswerInv, [Next]_vars PROVE AnswerInv'
      OBVIOUS
  <2>1. CASE UNCHANGED vars
      BY <2>1 DEF vars, AnswerInv, FreshIsUnlogged, CompletedIsWhole, IssuesOnly, AnsweredIsDone,
         LogAgrees, AcknowledgedIsDone, Done, RequestAction
  <2>2. ASSUME NEW s \in Requests, Serve(s) PROVE AnswerInv'
      BY <2>2, CheckRequestAnswers, InsertRequestAnswers, CheckDuplicateAddAnswers,
         IssueCertAnswers, SendResponseAnswers, ReadConfirmationAnswers, CompleteCertAnswers,
         DropCertAnswers, AcknowledgeAnswers DEF Serve
  <2>3. ASSUME NEW p \in Processes, Shared(p) PROVE AnswerInv'
      BY <2>3, FetchOriginalAnswers, RevokeOriginalAnswers, DeleteOriginalAnswers,
         CompleteRenewalAnswers, ReverseCertAnswers, UndoCertAnswers, FetchTargetAnswers,
         RevokeTargetAnswers DEF Shared
  <2>4. CASE caCleanup
      BY <2>4, NextRequestAnswers, DeleteRequestAnswers, DeleteRequestsAnswers,
         NextPartialAnswers, DeletePartialsAnswers, NextRenewalAnswers, NextRevocationAnswers,
         DropRequestAnswers, DeleteRevocationsAnswers DEF caCleanup
  <2>5. CASE Crash
      BY <2>5, CrashAnswers
  <2>6. CASE Finished
      BY <2>6, FinishedAnswers
  <2> QED BY <2>1, <2>2, <2>3, <2>4, <2>5, <2>6 DEF Next
<1> QED BY <1>1, <1>2, StoreCorrect, PTL DEF Spec

\* The log agrees with the tables.
THEOREM LogAgreesAlways == Spec => []LogAgrees
<1>1. AnswerInv => LogAgrees
    BY DEF AnswerInv
<1> QED BY <1>1, AnswersCorrect, PTL

\* What a client has been told stays true.
THEOREM AcknowledgedIsDoneAlways == Spec => []AcknowledgedIsDone
<1>1. AnswerInv => AcknowledgedIsDone
    BY DEF AnswerInv
<1> QED BY <1>1, AnswersCorrect, PTL

------------------------------------------------------------------------------
(* The cleanup.  What its loops have to go through, and when. *)

USE DEF InRequests, InPartials, InRenewals, InRevocations, Between, AllAtOnce

\* The rows of each loop.
LEMMA RowsOfLoop ==
  /\ InRequests => RowsLeft = PendingRequests
  /\ InPartials => RowsLeft = Partial("esc1")
  /\ InRenewals => RowsLeft = Partial("esc2")
  /\ InRevocations => RowsLeft = PendingRevocations
  BY DEF RowsLeft

\* The same in the next state.
LEMMA RowsOfLoopNext ==
  /\ InRequests' => RowsLeft' = PendingRequests'
  /\ InPartials' => RowsLeft' = Partial("esc1")'
  /\ InRenewals' => RowsLeft' = Partial("esc2")'
  /\ InRevocations' => RowsLeft' = PendingRevocations'
  BY DEF RowsLeft

\* They are all requests, or what a request has led to.
LEMMA RowsAreRequests ==
  ASSUME certRequests \subseteq Requests, EscapedIssued
  PROVE  RowsLeft \subseteq Requests
  BY DEF RowsLeft, PendingRequests, PendingRevocations, Partial, EscapedIssued

\* The same in the next state.
LEMMA RowsAreRequestsNext ==
  ASSUME certRequests' \subseteq Requests, EscapedIssued'
  PROVE  RowsLeft' \subseteq Requests
  BY DEF RowsLeft, PendingRequests, PendingRevocations, Partial, EscapedIssued

\* A loop with a failed statement behind it may miss rows.
LEMMA FailedLoop ==
  ASSUME failures' # 0
  PROVE  LoopOnCourse'
  BY DEF LoopOnCourse

\* A loop begins with all its rows before it.
LEMMA LoopBegins ==
  ASSUME StoreFits, certRequests' \subseteq Requests, EscapedIssued',
         pc'[Cleaner] \in Between, prev' = NoCert, errors' = 0, entries' = 0
  PROVE  RowAtHand' /\ LoopOnCourse'
<1>2. RowsLeft' \subseteq Requests
    BY RowsAreRequestsNext
<1>3. prev' \notin RowsLeft' /\ RowsLeft' \ {prev'} \subseteq Requests
    BY <1>2, StoreConstants
<1>4. /\ IsFiniteSet(RowsLeft' \ {prev'})
      /\ Cardinality(RowsLeft' \ {prev'}) \in Nat /\ Cardinality(Requests) \in Nat
      /\ Cardinality(RowsLeft' \ {prev'}) <= Cardinality(Requests)
    BY <1>3, FS_Subset, FS_CardinalityType DEF StoreFits
<1>5. entries' + Cardinality(RowsLeft' \ {prev'}) <= Cardinality(Requests)
    BY <1>4
<1> QED BY <1>3, <1>5 DEF RowAtHand, LoopOnCourse

\* Entering a loop begins it.
LEMMA NextLoop ==
  ASSUME StoreFits, TypeOK, certRequests' \subseteq Requests, EscapedIssued',
         NEW l \in Between, Enter(l)
  PROVE  RowAtHand' /\ LoopOnCourse'
<1>1. pc'[Cleaner] = l /\ prev' = NoCert /\ errors' = 0 /\ entries' = 0
    BY DEF Enter, TypeOK
<1> QED BY <1>1, LoopBegins

\* An iteration begins with the next row.
LEMMA IterationBegins ==
  ASSUME StoreFits, TypeOK, EscapedIssued, LoopOnCourse, pc[Cleaner] \in Between,
         UNCHANGED tables, NEW c \in RowsLeft, NEW stuck, NEW handle,
         handle \notin Between \cup AllAtOnce \cup {"idle"}, Take(c, stuck, handle), RowsLeft' = RowsLeft
  PROVE  LoopOnCourse'
<1>1. /\ pc'[Cleaner] = IF c = prev THEN stuck ELSE handle
      /\ prev' = c /\ entries' = entries + 1 /\ errors' = errors /\ failures' = failures
    BY DEF Take, TypeOK
<1> SUFFICES ASSUME failures = 0 PROVE LoopOnCourse'
    BY <1>1, FailedLoop
<1>2. errors = 0 /\ entries + Cardinality(RowsLeft \ {prev}) <= Cardinality(Requests) /\ prev \notin RowsLeft
    BY DEF LoopOnCourse
<1>3. c # prev /\ RowsLeft \ {prev} = RowsLeft
    BY <1>2
<1>4. IsFiniteSet(RowsLeft) /\ Cardinality(RowsLeft) \in Nat
    BY RowsAreRequests, FS_Subset, FS_CardinalityType DEF StoreFits, TypeOK
<1>5. Cardinality(RowsLeft \ {c}) = Cardinality(RowsLeft) - 1
    BY <1>4, FS_RemoveElement
<1>6. entries' + Cardinality(RowsLeft' \ {prev'}) <= Cardinality(Requests)
  <2>1. entries \in Nat /\ entries' = entries + 1 /\ RowsLeft' \ {prev'} = RowsLeft \ {c}
      BY <1>1 DEF TypeOK
  <2>2. Cardinality(RowsLeft' \ {prev'}) = Cardinality(RowsLeft) - 1
      BY <2>1, <1>5
  <2>3. entries + Cardinality(RowsLeft) <= Cardinality(Requests) /\ Cardinality(Requests) \in Nat
      BY <1>2, <1>3, FS_CardinalityType DEF StoreFits
  <2> QED BY <2>1, <2>2, <2>3, <1>4
<1> QED BY <1>1, <1>2, <1>3, <1>6 DEF LoopOnCourse

\* An iteration ends with its row gone.
LEMMA IterationEnds ==
  ASSUME StoreFits, TypeOK, EscapedIssued, LoopOnCourse, ~At(Cleaner, "idle"), pc'[Cleaner] \in Between,
         UNCHANGED loop, failures' = failures, RowsLeft' \subseteq RowsLeft \ {prev}
  PROVE  LoopOnCourse'
<1> SUFFICES ASSUME failures = 0 PROVE LoopOnCourse'
    BY FailedLoop
<1>1. errors = 0 /\ entries + Cardinality(RowsLeft \ {prev}) <= Cardinality(Requests)
    BY DEF LoopOnCourse
<1>2. IsFiniteSet(RowsLeft) /\ IsFiniteSet(Requests)
    BY RowsAreRequests, FS_Subset DEF StoreFits, TypeOK
<1>3. IsFiniteSet(RowsLeft \ {prev}) /\ RowsLeft' \ {prev'} \subseteq RowsLeft \ {prev}
    BY <1>2, FS_Subset
<1>4. /\ Cardinality(RowsLeft' \ {prev'}) <= Cardinality(RowsLeft \ {prev})
      /\ Cardinality(RowsLeft' \ {prev'}) \in Nat /\ Cardinality(RowsLeft \ {prev}) \in Nat
      /\ Cardinality(Requests) \in Nat
    BY <1>2, <1>3, FS_Subset, FS_CardinalityType
<1>5. entries' + Cardinality(RowsLeft' \ {prev'}) <= Cardinality(Requests)
    BY <1>1, <1>4 DEF TypeOK
<1> QED BY <1>1, <1>5 DEF LoopOnCourse

\* An iteration goes on.
LEMMA IterationGoesOn ==
  ASSUME LoopOnCourse, ~At(Cleaner, "idle"), pc'[Cleaner] \notin Between \cup AllAtOnce,
         UNCHANGED loop, failures' = failures, RowsLeft' = RowsLeft
  PROVE  LoopOnCourse'
  BY DEF LoopOnCourse

\* A loop that gives up has met a failure, or has no rows left.
LEMMA GivesUp ==
  ASSUME StoreFits, TypeOK, EscapedIssued, LoopOnCourse, NEW l \in Between, GivingUp(l)
  PROVE  failures # 0 \/ RowsLeft = {}
<1> SUFFICES ASSUME failures = 0 PROVE RowsLeft = {}
    OBVIOUS
<1>1. /\ errors = 0 /\ entries + Cardinality(RowsLeft \ {prev}) <= Cardinality(Requests)
      /\ prev \notin RowsLeft
    BY DEF LoopOnCourse, GivingUp
<1>2. entries >= MaxEntries
    BY <1>1, StoreConstants DEF GivingUp, TypeOK
<1>3. IsFiniteSet(RowsLeft) /\ Cardinality(RowsLeft) \in Nat /\ Cardinality(Requests) \in Nat
    BY RowsAreRequests, FS_Subset, FS_CardinalityType DEF StoreFits, TypeOK
<1>4. RowsLeft \ {prev} = RowsLeft
    BY <1>1
<1>5. Cardinality(RowsLeft) = 0
    BY <1>1, <1>2, <1>3, <1>4, StoreConstants DEF StoreFits, TypeOK
<1> QED BY <1>3, <1>5, FS_EmptySet

\* At rest the cleanup has nothing to do.
LEMMA AtRest ==
  ASSUME pc'[Cleaner] = "idle"
  PROVE  RowAtHand' /\ LoopOnCourse' /\ LoopsBehind'
  BY DEF RowAtHand, LoopOnCourse, LoopsBehind

\* The rows of the tables

\* Deleting rows keeps the keys apart.
LEMMA FewerRows ==
  ASSUME OneActive, EscapedIssued, certificates' \subseteq certificates
  PROVE  OneActive' /\ EscapedIssued'
  BY DEF OneActive, EscapedIssued

\* So does a row that the unique indices allow.
LEMMA OneMoreRow ==
  ASSUME OneActive, EscapedIssued, NEW c \in Certs, NEW f \in Forms, MayInsert(c, f), c \in Requests \/ f = "std",
         certificates' \subseteq certificates \cup {<<c, f>>}
  PROVE  OneActive' /\ EscapedIssued'
<1>1. \A d \in Certs : \A g \in Forms :
         <<d, g>> \in certificates' => <<d, g>> \in certificates \/ (d = c /\ g = f)
    OBVIOUS
<1>2. \A d \in Certs : <<d, f>> \in certificates => KeyOf[d] # KeyOf[c]
    BY DEF MayInsert, HasKey
<1>3. OneActive'
    BY <1>1, <1>2 DEF OneActive
<1>4. EscapedIssued'
    BY <1>1 DEF EscapedIssued
<1> QED BY <1>3, <1>4

\* Every step keeps one active certificate for a key, and escapes what a request has led to.
LEMMA RowsStep ==
  ASSUME StoreInv, OneActive, EscapedIssued, [Next]_vars
  PROVE  OneActive' /\ EscapedIssued'
<1> USE DEF StoreInv, TypeOK
<1>1. ASSUME NEW s \in Requests, Serve(s) PROVE OneActive' /\ EscapedIssued'
  <2>1. CASE IssueCert(s)
    <3>1. CASE certificates' = certificates
        BY <3>1, FewerRows
    <3>2. CASE certificates' # certificates
      <4>1. PICK f \in {"std", "esc1"} : MayInsert(s, f) /\ certificates' = certificates \cup {<<s, f>>}
          BY <2>1, <3>2 DEF IssueCert
      <4> QED BY <4>1, OneMoreRow
    <3> QED BY <3>1, <3>2
  <2>2. CASE CompleteCert(s)
    <3>1. CASE certificates' = certificates
        BY <3>1, FewerRows
    <3>2. CASE certificates' # certificates
      <4>1. PICK f \in {"std", "esc2"} :
               MayInsert(s, f) /\ certificates' = (certificates \ {<<s, "esc1">>}) \cup {<<s, f>>}
          BY <2>2, <3>2 DEF CompleteCert, Replace
      <4> QED BY <4>1, OneMoreRow
    <3> QED BY <3>1, <3>2
  <2>3. CASE DropCert(s)
      BY <2>3, FewerRows DEF DropCert
  <2>4. CASE \/ CheckRequest(s) \/ InsertRequest(s) \/ CheckDuplicateAdd(s) \/ SendResponse(s)
             \/ ReadConfirmation(s) \/ Acknowledge(s)
      BY <2>4, FewerRows DEF CheckRequest, InsertRequest, CheckDuplicateAdd, SendResponse,
         ReadConfirmation, Acknowledge
  <2> QED BY <1>1, <2>1, <2>2, <2>3, <2>4 DEF Serve
<1>2. ASSUME NEW p \in Processes, Shared(p) PROVE OneActive' /\ EscapedIssued'
  <2>1. CASE CompleteRenewal(p)
    <3>1. CASE certificates' = certificates
        BY <3>1, FewerRows
    <3>2. CASE certificates' # certificates
      <4>1. /\ MayInsert(Subject(p), "std")
            /\ certificates' = (certificates \ {<<Subject(p), "esc2">>}) \cup {<<Subject(p), "std">>}
            /\ <<Subject(p), "esc2">> \in certificates
          BY <2>1, <3>2 DEF CompleteRenewal, Replace
      <4>2. Subject(p) \in Certs
          BY <4>1
      <4> HIDE DEF Subject
      <4> QED BY <4>1, <4>2, OneMoreRow
    <3> QED BY <3>1, <3>2
  <2>2. CASE FetchOriginal(p) \/ FetchTarget(p)
      BY <2>2, FewerRows DEF FetchOriginal, FetchTarget
  <2>3. CASE RevokeOriginal(p) \/ DeleteOriginal(p)
      BY <2>3, FewerRows DEF RevokeOriginal, DeleteOriginal
  <2>4. CASE ReverseCert(p) \/ UndoCert(p) \/ RevokeTarget(p)
      BY <2>4, FewerRows DEF ReverseCert, UndoCert, RevokeTarget
  <2> QED BY <1>2, <2>1, <2>2, <2>3, <2>4 DEF Shared
<1>3. CASE caCleanup
  <2>1. CASE NextPartial \/ NextRenewal
    <3>1. ASSUME NEW f, DeleteIncomplete(f) PROVE certificates' \subseteq certificates
        BY <3>1 DEF DeleteIncomplete
    <3> QED BY <2>1, <3>1, FewerRows DEF NextPartial, NextRenewal
  <2>2. CASE \/ NextRequest \/ DeleteRequest \/ DeleteRequests \/ DeletePartials
             \/ NextRevocation \/ DropRequest \/ DeleteRevocations
      BY <2>2, FewerRows DEF NextRequest, DeleteRequest, DeleteRequests, DeletePartials,
         NextRevocation, DropRequest, DeleteRevocations
  <2> QED BY <1>3, <2>1, <2>2 DEF caCleanup
<1>4. CASE Crash \/ Finished \/ UNCHANGED vars
    BY <1>4, FewerRows DEF Crash, Finished, vars
<1> QED BY <1>1, <1>2, <1>3, <1>4 DEF Next

\* The steps of the cleanup

\* The loop over leftover requests.
LEMMA NextRequestCleans ==
  ASSUME StoreFits, StoreInv, StoreInv', CleanupInv, OneActive', EscapedIssued', NextRequest
  PROVE  RowAtHand' /\ LoopOnCourse' /\ LoopsBehind'
<1> USE DEF StoreInv, TypeOK, CleanupInv
<1>1. CASE Iterating("requests") /\ PendingRequests = {} /\ Succeeds(TRUE) /\ Enter("partials")
  <2>1. pc'[Cleaner] = "partials"
      BY <1>1 DEF Enter
  <2>2. LoopsBehind'
      BY <1>1, <2>1 DEF NextRequest, LoopsBehind, PendingRequests
  <2> QED BY <1>1, <2>2, NextLoop
<1>2. ASSUME NEW r \in PendingRequests, Iterating("requests"), Take(r, "delete_requests", "delete_request"),
             UNCHANGED tables
      PROVE  RowAtHand' /\ LoopOnCourse' /\ LoopsBehind'
  <2>1. /\ pc[Cleaner] = "requests" /\ pc'[Cleaner] \in {"delete_requests", "delete_request"} /\ prev' = r
        /\ failures' = failures
      BY <1>2 DEF Iterating, Take
  <2>2. RowsLeft = PendingRequests /\ RowsLeft' = PendingRequests' /\ PendingRequests' = PendingRequests
      BY <2>1, <1>2, RowsOfLoop, RowsOfLoopNext DEF PendingRequests
  <2>3. RowAtHand'
      BY <1>2, <2>1, <2>2 DEF RowAtHand
  <2>4. LoopOnCourse'
      BY <1>2, <2>1, <2>2, IterationBegins
  <2>5. LoopsBehind'
      BY <2>1 DEF LoopsBehind
  <2> QED BY <2>3, <2>4, <2>5
<1>3. CASE Iterating("requests") /\ MayFail /\ Fails(Cleaner, TRUE) /\ CountError
  <2>1. pc'[Cleaner] = "requests" /\ failures' # 0
      BY <1>3 DEF Iterating, CountError
  <2> QED BY <2>1, FailedLoop DEF RowAtHand, LoopsBehind
<1>4. CASE GivingUp("requests") /\ GoTo(Cleaner, "delete_requests") /\ UNCHANGED <<loop, failures, tables>>
  <2>1. pc[Cleaner] = "requests" /\ pc'[Cleaner] = "delete_requests"
      BY <1>4 DEF GivingUp
  <2>2. RowsLeft' = RowsLeft
      BY <1>4, <2>1, RowsOfLoop, RowsOfLoopNext DEF PendingRequests
  <2>3. LoopOnCourse'
      BY <1>4, <2>1, <2>2, GivesUp DEF LoopOnCourse
  <2> QED BY <2>1, <2>3 DEF RowAtHand, LoopsBehind
<1> QED BY <1>1, <1>2, <1>3, <1>4 DEF NextRequest

\* One of them is deleted.
LEMMA DeleteRequestCleans ==
  ASSUME StoreFits, StoreInv, StoreInv', CleanupInv, OneActive', EscapedIssued', DeleteRequest
  PROVE  RowAtHand' /\ LoopOnCourse' /\ LoopsBehind'
<1> USE DEF StoreInv, TypeOK, CleanupInv
<1>1. pc[Cleaner] = "delete_request" /\ pc'[Cleaner] = "requests"
    BY DEF DeleteRequest
<1>2. RowsLeft = PendingRequests /\ RowsLeft' = PendingRequests'
    BY <1>1, RowsOfLoop, RowsOfLoopNext
<1>3. prev \in certRequests
    BY <1>1, <1>2 DEF RowAtHand, PendingRequests
<1>4. LoopOnCourse'
  <2>1. CASE Succeeds(prev \in certRequests) /\ certRequests' = certRequests \ {prev} /\ UNCHANGED errors
    <3>1. RowsLeft' \subseteq RowsLeft \ {prev}
        BY <2>1, <1>2 DEF PendingRequests
    <3>2. UNCHANGED loop /\ failures' = failures
        BY <2>1 DEF DeleteRequest
    <3> QED BY <3>1, <3>2, <1>1, IterationEnds
  <2>2. CASE Fails(Cleaner, prev \in certRequests)
      BY <2>2, <1>3, FailedLoop
  <2> QED BY <2>1, <2>2 DEF DeleteRequest
<1> QED BY <1>1, <1>4 DEF RowAtHand, LoopsBehind

\* All of them are deleted.
LEMMA DeleteRequestsCleans ==
  ASSUME StoreFits, StoreInv, StoreInv', CleanupInv, OneActive', EscapedIssued', DeleteRequests
  PROVE  RowAtHand' /\ LoopOnCourse' /\ LoopsBehind'
<1> USE DEF StoreInv, TypeOK, CleanupInv
<1>1. pc[Cleaner] = "delete_requests" /\ pc'[Cleaner] = "partials" /\ Enter("partials")
    BY DEF DeleteRequests, Enter
<1>2. RowsLeft = PendingRequests
    BY <1>1, RowsOfLoop
<1>3. failures # 0 \/ PendingRequests = {}
    BY <1>1, <1>2 DEF LoopOnCourse
<1>4. PendingRequests' = {} \/ failures' = 2
    BY <1>3 DEF DeleteRequests, PendingRequests
<1> QED BY <1>1, <1>4, NextLoop DEF LoopsBehind

\* A restart begins with the first loop.
LEMMA CrashCleans ==
  ASSUME StoreFits, StoreInv, StoreInv', CleanupInv, OneActive', EscapedIssued', Crash
  PROVE  RowAtHand' /\ LoopOnCourse' /\ LoopsBehind'
<1>1. pc'[Cleaner] = "requests"
    BY DEF Crash
<1> QED BY <1>1, LoopBegins DEF Crash, LoopsBehind, StoreInv, TypeOK

\* The loop over certificates without confirmation.
LEMMA NextPartialCleans ==
  ASSUME StoreFits, StoreInv, StoreInv', CleanupInv, OneActive', EscapedIssued', NextPartial
  PROVE  RowAtHand' /\ LoopOnCourse' /\ LoopsBehind'
<1> USE DEF StoreInv, TypeOK, CleanupInv
<1>0. pc[Cleaner] = "partials" /\ UNCHANGED certRequests /\ PendingRequests' = PendingRequests
    BY DEF NextPartial, Iterating, GivingUp, PendingRequests
<1>1. CASE Partial("esc1") = {} /\ Succeeds(TRUE) /\ Enter("renewals") /\ UNCHANGED certificates
  <2>1. pc'[Cleaner] = "renewals"
      BY <1>1 DEF Enter
  <2>2. LoopsBehind'
      BY <1>0, <1>1, <2>1 DEF LoopsBehind, Partial
  <2> QED BY <1>0, <1>1, <2>2, NextLoop
<1>2. ASSUME NEW c \in Partial("esc1"), Take(c, "delete_partials", "reverse"), UNCHANGED tables
      PROVE  RowAtHand' /\ LoopOnCourse' /\ LoopsBehind'
  <2>1. pc'[Cleaner] \in {"delete_partials", "reverse"} /\ prev' = c /\ failures' = failures
      BY <1>0, <1>2 DEF Take
  <2>2. RowsLeft = Partial("esc1") /\ RowsLeft' = Partial("esc1")' /\ Partial("esc1")' = Partial("esc1")
      BY <2>1, <1>0, <1>2, RowsOfLoop, RowsOfLoopNext DEF Partial
  <2>3. RowAtHand'
      BY <1>2, <2>1, <2>2 DEF RowAtHand
  <2>4. LoopOnCourse'
      BY <1>0, <1>2, <2>1, <2>2, IterationBegins
  <2>5. LoopsBehind'
      BY <1>0, <2>1 DEF LoopsBehind
  <2> QED BY <2>3, <2>4, <2>5
<1>3. CASE DeleteIncomplete("esc1")
  <2>1. pc'[Cleaner] = "partials" /\ failures' # 0 /\ (failures = 2 => failures' = 2)
      BY <1>0, <1>3 DEF DeleteIncomplete, CountError
  <2> QED BY <1>0, <2>1, FailedLoop DEF RowAtHand, LoopsBehind
<1>4. CASE GivingUp("partials") /\ GoTo(Cleaner, "delete_partials") /\ UNCHANGED <<loop, failures, certificates>>
  <2>1. pc'[Cleaner] = "delete_partials"
      BY <1>4
  <2>2. RowsLeft' = RowsLeft
      BY <1>0, <1>4, <2>1, RowsOfLoop, RowsOfLoopNext DEF Partial
  <2>3. LoopOnCourse'
      BY <1>0, <1>4, <2>1, <2>2, GivesUp DEF LoopOnCourse
  <2> QED BY <1>0, <1>4, <2>1, <2>3 DEF RowAtHand, LoopsBehind
<1> QED BY <1>1, <1>2, <1>3, <1>4 DEF NextPartial

\* One of them is reversed ...
LEMMA ReverseCertCleans ==
  ASSUME StoreFits, StoreInv, StoreInv', CleanupInv, OneActive', EscapedIssued', ReverseCert(Cleaner)
  PROVE  RowAtHand' /\ LoopOnCourse' /\ LoopsBehind'
<1> USE DEF StoreInv, TypeOK, CleanupInv
<1>1. pc[Cleaner] = "reverse" /\ pc'[Cleaner] \in {"partials", "undo"} /\ UNCHANGED <<loop, certRequests>>
    BY DEF ReverseCert
<1>2. /\ RowsLeft = Partial("esc1") /\ RowsLeft' = Partial("esc1")' /\ PendingRequests' = PendingRequests
      /\ prev \in RowsLeft
    BY <1>1, RowsOfLoop, RowsOfLoopNext DEF PendingRequests, RowAtHand
<1>3. CASE failures' = failures /\ pc'[Cleaner] = "partials" /\ certificates' = certificates \ {<<prev, "esc1">>}
  <2>1. RowsLeft' \subseteq RowsLeft \ {prev}
      BY <1>2, <1>3 DEF Partial
  <2>2. LoopOnCourse'
      BY <1>1, <1>3, <2>1, IterationEnds
  <2> QED BY <1>1, <1>2, <1>3, <2>2 DEF RowAtHand, LoopsBehind
<1>4. CASE /\ pc'[Cleaner] = "undo" /\ UNCHANGED certificates
           /\ \/ failures' = failures
              \/ failures' # 0 /\ (failures = 2 => failures' = 2)
  <2>1. RowsLeft' = RowsLeft
      BY <1>2, <1>4 DEF Partial
  <2>2. LoopOnCourse'
      BY <1>1, <1>4, <2>1, IterationGoesOn, FailedLoop
  <2> QED BY <1>1, <1>2, <1>4, <2>1, <2>2 DEF RowAtHand, LoopsBehind
<1> QED BY <1>1, <1>3, <1>4 DEF ReverseCert

\* ... or deleted.
LEMMA UndoCertCleans ==
  ASSUME StoreFits, StoreInv, StoreInv', CleanupInv, OneActive', EscapedIssued', UndoCert(Cleaner)
  PROVE  RowAtHand' /\ LoopOnCourse' /\ LoopsBehind'
<1> USE DEF StoreInv, TypeOK, CleanupInv
<1>1. pc[Cleaner] = "undo" /\ pc'[Cleaner] = "partials" /\ UNCHANGED <<loop, certRequests>>
    BY DEF UndoCert
<1>2. /\ RowsLeft = Partial("esc1") /\ RowsLeft' = Partial("esc1")' /\ PendingRequests' = PendingRequests
      /\ prev \in RowsLeft /\ <<prev, "esc1">> \in certificates
    BY <1>1, RowsOfLoop, RowsOfLoopNext DEF PendingRequests, RowAtHand, Partial
<1>3. CASE failures' = failures /\ certificates' = certificates \ {<<prev, "esc1">>}
  <2>1. RowsLeft' \subseteq RowsLeft \ {prev}
      BY <1>2, <1>3 DEF Partial
  <2>2. LoopOnCourse'
      BY <1>1, <1>3, <2>1, IterationEnds
  <2> QED BY <1>1, <1>2, <1>3, <2>2 DEF RowAtHand, LoopsBehind
<1>4. CASE failures' # 0 /\ (failures = 2 => failures' = 2)
    BY <1>1, <1>2, <1>4, FailedLoop DEF RowAtHand, LoopsBehind
<1> QED BY <1>2, <1>3, <1>4 DEF UndoCert

\* All of them are deleted.
LEMMA DeletePartialsCleans ==
  ASSUME StoreFits, StoreInv, StoreInv', CleanupInv, OneActive', EscapedIssued', DeletePartials
  PROVE  RowAtHand' /\ LoopOnCourse' /\ LoopsBehind'
<1> USE DEF StoreInv, TypeOK, CleanupInv
<1>1. pc[Cleaner] = "delete_partials" /\ pc'[Cleaner] = "renewals" /\ Enter("renewals") /\ UNCHANGED certRequests
    BY DEF DeletePartials, Enter
<1>2. RowsLeft = Partial("esc1") /\ PendingRequests' = PendingRequests
    BY <1>1, RowsOfLoop DEF PendingRequests
<1>3. failures # 0 \/ Partial("esc1") = {}
    BY <1>1, <1>2 DEF LoopOnCourse
<1>4. Partial("esc1")' = {} \/ failures' = 2
    BY <1>3 DEF DeletePartials, Partial
<1>5. failures = 2 => failures' = 2
    BY DEF DeletePartials
<1> QED BY <1>1, <1>2, <1>4, <1>5, NextLoop DEF LoopsBehind

\* The loop over renewals.
LEMMA NextRenewalCleans ==
  ASSUME StoreFits, StoreInv, StoreInv', CleanupInv, OneActive', EscapedIssued', NextRenewal
  PROVE  RowAtHand' /\ LoopOnCourse' /\ LoopsBehind'
<1> USE DEF StoreInv, TypeOK, CleanupInv
<1>0. pc[Cleaner] = "renewals" /\ UNCHANGED certRequests /\ PendingRequests' = PendingRequests
    BY DEF NextRenewal, Iterating, GivingUp, PendingRequests
<1>1. RowsLeft = Partial("esc2")
    BY <1>0, RowsOfLoop
<1>2. CASE /\ UNCHANGED <<certificates, failures>> /\ Enter("revocations")
           /\ Partial("esc2") = {} \/ failures # 0
  <2>1. pc'[Cleaner] = "revocations"
      BY <1>2 DEF Enter
  <2>2. LoopsBehind'
      BY <1>0, <1>2, <2>1 DEF LoopsBehind, Partial
  <2> QED BY <1>0, <1>2, <2>2, NextLoop
<1>3. ASSUME NEW c \in Partial("esc2"), Take(c, "fetch", "fetch"), UNCHANGED tables
      PROVE  RowAtHand' /\ LoopOnCourse' /\ LoopsBehind'
  <2>1. pc'[Cleaner] = "fetch" /\ prev' = c /\ failures' = failures
      BY <1>0, <1>3 DEF Take
  <2>2. RowsLeft' = Partial("esc2")' /\ RowsLeft' = RowsLeft /\ Partial("esc1")' = Partial("esc1")
      BY <2>1, <1>0, <1>1, <1>3, RowsOfLoopNext DEF Partial
  <2>3. RowAtHand'
      BY <1>1, <1>3, <2>1, <2>2 DEF RowAtHand
  <2>4. LoopOnCourse'
      BY <1>0, <1>1, <1>3, <2>1, <2>2, IterationBegins
  <2>5. LoopsBehind'
      BY <1>0, <2>1, <2>2 DEF LoopsBehind
  <2> QED BY <2>3, <2>4, <2>5
<1>4. CASE DeleteIncomplete("esc2")
  <2>1. pc'[Cleaner] = "renewals" /\ failures' # 0 /\ (failures = 2 => failures' = 2)
      BY <1>0, <1>4 DEF DeleteIncomplete, CountError
  <2>2. Partial("esc1")' \subseteq Partial("esc1")
      BY <1>4 DEF DeleteIncomplete, Partial
  <2> QED BY <1>0, <2>1, <2>2, FailedLoop DEF RowAtHand, LoopsBehind
<1>5. prev \in Partial("esc2") => failures # 0
    BY <1>0, <1>1 DEF LoopOnCourse
<1>6. GivingUp("renewals") => Partial("esc2") = {} \/ failures # 0
    BY <1>1, GivesUp
<1>7. \/ UNCHANGED certificates /\ Partial("esc2") = {} /\ Succeeds(TRUE) /\ Enter("revocations")
      \/ UNCHANGED tables /\ \E c \in Partial("esc2") \ {prev} : Take(c, "fetch", "fetch")
      \/ UNCHANGED certificates /\ prev \in Partial("esc2") /\ Succeeds(TRUE) /\ Enter("revocations")
      \/ DeleteIncomplete("esc2")
      \/ UNCHANGED <<certificates, failures>> /\ GivingUp("renewals") /\ Enter("revocations")
    BY DEF NextRenewal
<1> QED BY <1>2, <1>3, <1>4, <1>5, <1>6, <1>7

\* In the renewals loop: what the steps of a renewal leave to the loops before and to this one.
LEMMA RenewalGoesOn ==
  ASSUME StoreInv, CleanupInv, InRenewals, ~At(Cleaner, "renewals"), UNCHANGED <<loop, certRequests>>,
         pc'[Cleaner] \in {"revoke", "delete", "replace"},
         Partial("esc1")' = Partial("esc1"), Partial("esc2")' = Partial("esc2"),
         failures' = failures \/ (failures' # 0 /\ (failures = 2 => failures' = 2)),
         pc'[Cleaner] \in {"revoke", "delete"} => <<original'[Cleaner], "std">> \in certificates',
         pc'[Cleaner] = "replace" => ~HasKey("std", KeyOf[prev])'
  PROVE  RowAtHand' /\ LoopOnCourse' /\ LoopsBehind'
<1> USE DEF CleanupInv
<1>1. RowsLeft = Partial("esc2") /\ RowsLeft' = Partial("esc2")' /\ PendingRequests' = PendingRequests
    BY RowsOfLoop, RowsOfLoopNext DEF PendingRequests
<1>2. RowAtHand'
    BY <1>1 DEF RowAtHand
<1>3. LoopOnCourse'
    BY <1>1, IterationGoesOn, FailedLoop
<1>4. LoopsBehind'
    BY <1>1 DEF LoopsBehind
<1> QED BY <1>2, <1>3, <1>4

\* A failed statement ends the iteration.
LEMMA RenewalFails ==
  ASSUME StoreInv, CleanupInv, InRenewals, UNCHANGED <<loop, certRequests>>,
         pc'[Cleaner] = "renewals", Partial("esc1")' = Partial("esc1"),
         failures' # 0, failures = 2 => failures' = 2
  PROVE  RowAtHand' /\ LoopOnCourse' /\ LoopsBehind'
<1> USE DEF CleanupInv
<1>1. PendingRequests' = PendingRequests
    BY DEF PendingRequests
<1> QED BY <1>1, FailedLoop DEF RowAtHand, LoopsBehind

\* A renewal goes on with its original, if there is one.
LEMMA FetchOriginalCleans ==
  ASSUME StoreFits, StoreInv, StoreInv', CleanupInv, OneActive', EscapedIssued', FetchOriginal(Cleaner)
  PROVE  RowAtHand' /\ LoopOnCourse' /\ LoopsBehind'
<1> USE DEF StoreInv, TypeOK
<1>1. /\ pc[Cleaner] = "fetch" /\ UNCHANGED <<loop, certRequests>>
      /\ Partial("esc1")' = Partial("esc1") /\ Partial("esc2")' = Partial("esc2")
    BY DEF FetchOriginal, Partial
<1>2. CASE Succeeds(~HasKey("std", KeyOf[prev])) /\ GoTo(Cleaner, "replace") /\ UNCHANGED certificates
  <2>1. ~HasKey("std", KeyOf[prev])'
      BY <1>1, <1>2 DEF HasKey
  <2> QED BY <1>1, <1>2, <2>1, RenewalGoesOn
<1>3. ASSUME NEW c \in Certs, Succeeds(<<c, "std">> \in certificates), GoTo(Cleaner, "revoke"),
             original' = [original EXCEPT ![Cleaner] = c], UNCHANGED certificates
      PROVE  RowAtHand' /\ LoopOnCourse' /\ LoopsBehind'
  <2>1. <<original'[Cleaner], "std">> \in certificates' /\ pc'[Cleaner] = "revoke"
      BY <1>3
  <2> QED BY <1>1, <1>3, <2>1, RenewalGoesOn
<1>4. CASE Fails(Cleaner, TRUE) /\ GoTo(Cleaner, "renewals")
    BY <1>1, <1>4, RenewalFails
<1> QED BY <1>2, <1>3, <1>4 DEF FetchOriginal

\* Without its active certificate a key is free.
LEMMA KeyFreed ==
  ASSUME OneActive, NEW o \in Certs, <<o, "std">> \in certificates, KeyOf[o] = KeyOf[prev], prev' = prev,
         certificates' = certificates \ {<<o, "std">>}
  PROVE  ~HasKey("std", KeyOf[prev])'
<1>1. ASSUME NEW c \in Certs, <<c, "std">> \in certificates', KeyOf[c] = KeyOf[prev']
      PROVE  FALSE
  <2>1. <<c, "std">> \in certificates /\ c # o /\ KeyOf[c] = KeyOf[o]
      BY <1>1
  <2> QED BY <2>1 DEF OneActive
<1> QED BY <1>1 DEF HasKey

\* The original is revoked ...
LEMMA RevokeOriginalCleans ==
  ASSUME StoreFits, StoreInv, StoreInv', CleanupInv, OneActive', EscapedIssued', RevokeOriginal(Cleaner)
  PROVE  RowAtHand' /\ LoopOnCourse' /\ LoopsBehind'
<1> USE DEF StoreInv, TypeOK
<1>1. /\ pc[Cleaner] = "revoke" /\ UNCHANGED <<loop, certRequests, original>>
      /\ Partial("esc1")' = Partial("esc1") /\ Partial("esc2")' = Partial("esc2")
    BY DEF RevokeOriginal, Partial
<1>2. <<original[Cleaner], "std">> \in certificates /\ original[Cleaner] \in Certs /\ KeyOf[original[Cleaner]] = KeyOf[prev]
    BY <1>1 DEF CleanupInv, RowAtHand, RenewalAtHand
<1>3. CASE /\ failures' = failures /\ GoTo(Cleaner, "replace")
           /\ certificates' = certificates \ {<<original[Cleaner], "std">>}
  <2>1. ~HasKey("std", KeyOf[prev])'
      BY <1>1, <1>2, <1>3, KeyFreed DEF CleanupInv
  <2> QED BY <1>1, <1>3, <2>1, RenewalGoesOn
<1>4. CASE /\ failures' = failures \/ (failures' # 0 /\ (failures = 2 => failures' = 2))
           /\ GoTo(Cleaner, "delete") /\ UNCHANGED certificates
    BY <1>1, <1>2, <1>4, RenewalGoesOn
<1> QED BY <1>3, <1>4 DEF RevokeOriginal

\* ... or deleted.
LEMMA DeleteOriginalCleans ==
  ASSUME StoreFits, StoreInv, StoreInv', CleanupInv, OneActive', EscapedIssued', DeleteOriginal(Cleaner)
  PROVE  RowAtHand' /\ LoopOnCourse' /\ LoopsBehind'
<1> USE DEF StoreInv, TypeOK
<1>1. /\ pc[Cleaner] = "delete" /\ UNCHANGED <<loop, certRequests, original>>
      /\ Partial("esc1")' = Partial("esc1") /\ Partial("esc2")' = Partial("esc2")
    BY DEF DeleteOriginal, Partial
<1>2. <<original[Cleaner], "std">> \in certificates /\ original[Cleaner] \in Certs /\ KeyOf[original[Cleaner]] = KeyOf[prev]
    BY <1>1 DEF CleanupInv, RowAtHand, RenewalAtHand
<1>3. CASE /\ failures' = failures /\ GoTo(Cleaner, "replace")
           /\ certificates' = certificates \ {<<original[Cleaner], "std">>}
  <2>1. ~HasKey("std", KeyOf[prev])'
      BY <1>1, <1>2, <1>3, KeyFreed DEF CleanupInv
  <2> QED BY <1>1, <1>3, <2>1, RenewalGoesOn
<1>4. CASE Fails(Cleaner, TRUE) /\ GoTo(Cleaner, "renewals")
    BY <1>1, <1>4, RenewalFails
<1> QED BY <1>2, <1>3, <1>4 DEF DeleteOriginal

\* The renewal takes its place.
LEMMA CompleteRenewalCleans ==
  ASSUME StoreFits, StoreInv, StoreInv', CleanupInv, OneActive', EscapedIssued', CompleteRenewal(Cleaner)
  PROVE  RowAtHand' /\ LoopOnCourse' /\ LoopsBehind'
<1> USE DEF StoreInv, TypeOK
<1>1. /\ pc[Cleaner] = "replace" /\ pc'[Cleaner] = "renewals" /\ UNCHANGED <<loop, certRequests>>
      /\ Partial("esc1")' = Partial("esc1")
    BY DEF CompleteRenewal, Partial, Replace
<1>2. /\ RowsLeft = Partial("esc2") /\ RowsLeft' = Partial("esc2")' /\ PendingRequests' = PendingRequests
      /\ prev \in Partial("esc2")
    BY <1>1, RowsOfLoop, RowsOfLoopNext DEF PendingRequests, CleanupInv, RowAtHand
<1>3. MayInsert(prev, "std") /\ <<prev, "esc2">> \in certificates
    BY <1>1, <1>2 DEF CleanupInv, RowAtHand, MayInsert, Partial
<1>4. CASE failures' = failures /\ Replace(prev, "esc2", "std")
  <2>1. RowsLeft' \subseteq RowsLeft \ {prev}
      BY <1>2, <1>4 DEF Partial, Replace
  <2>2. LoopOnCourse'
      BY <1>1, <1>4, <2>1, IterationEnds DEF CleanupInv
  <2> QED BY <1>1, <1>2, <1>4, <2>2 DEF RowAtHand, LoopsBehind, CleanupInv
<1>5. CASE failures' # 0 /\ (failures = 2 => failures' = 2)
    BY <1>1, <1>5, RenewalFails
<1> QED BY <1>3, <1>4, <1>5 DEF CompleteRenewal

\* In the revocations loop: what holds of the loops before stays so.
LEMMA RevocationsBehind ==
  ASSUME StoreInv, LoopsBehind, InRevocations, InRevocations', certRequests' \subseteq certRequests,
         Partial("esc1")' = Partial("esc1"), Partial("esc2")' = Partial("esc2"),
         failures' = failures \/ (failures' # 0 /\ (failures = 2 => failures' = 2))
  PROVE  LoopsBehind'
<1>1. PendingRequests' \subseteq PendingRequests
    BY DEF PendingRequests
<1> QED BY <1>1 DEF LoopsBehind

\* The loop over revocation requests.
LEMMA NextRevocationCleans ==
  ASSUME StoreFits, StoreInv, StoreInv', CleanupInv, OneActive', EscapedIssued', NextRevocation
  PROVE  RowAtHand' /\ LoopOnCourse' /\ LoopsBehind'
<1> USE DEF StoreInv, TypeOK, CleanupInv
<1>0. /\ pc[Cleaner] = "revocations" /\ UNCHANGED tables
      /\ Partial("esc1")' = Partial("esc1") /\ Partial("esc2")' = Partial("esc2")
      /\ PendingRevocations' = PendingRevocations
    BY DEF NextRevocation, Iterating, GivingUp, Partial, PendingRevocations
<1>1. RowsLeft = PendingRevocations
    BY <1>0, RowsOfLoop
<1>2. CASE Enter("idle")
    BY <1>2, AtRest DEF Enter
<1>3. ASSUME NEW r \in PendingRevocations, Take(r, "delete_revocations", "target")
      PROVE  RowAtHand' /\ LoopOnCourse' /\ LoopsBehind'
  <2>1. pc'[Cleaner] \in {"delete_revocations", "target"} /\ prev' = r /\ failures' = failures
      BY <1>0, <1>3 DEF Take
  <2>2. RowsLeft' = PendingRevocations' /\ RowsLeft' = RowsLeft
      BY <2>1, <1>0, <1>1, RowsOfLoopNext
  <2>3. RowAtHand'
      BY <1>1, <1>3, <2>1, <2>2 DEF RowAtHand
  <2>4. LoopOnCourse'
      BY <1>0, <1>1, <1>3, <2>1, <2>2, IterationBegins
  <2>5. LoopsBehind'
      BY <1>0, <2>1, RevocationsBehind
  <2> QED BY <2>3, <2>4, <2>5
<1>4. ASSUME NEW r \in PendingRevocations, Fails(Cleaner, TRUE), GoTo(Cleaner, "drop_request"), prev' = r
      PROVE  RowAtHand' /\ LoopOnCourse' /\ LoopsBehind'
  <2>1. pc'[Cleaner] = "drop_request" /\ failures' # 0 /\ (failures = 2 => failures' = 2)
      BY <1>4
  <2>2. RowsLeft' = PendingRevocations
      BY <2>1, <1>0, RowsOfLoopNext
  <2>3. LoopsBehind'
      BY <1>0, <2>1, RevocationsBehind
  <2> QED BY <1>4, <2>1, <2>2, <2>3, FailedLoop DEF RowAtHand
<1>5. CASE Fails(Cleaner, TRUE) /\ CountError
  <2>1. pc'[Cleaner] = "revocations" /\ failures' # 0 /\ (failures = 2 => failures' = 2)
      BY <1>0, <1>5 DEF CountError
  <2>2. LoopsBehind'
      BY <1>0, <2>1, RevocationsBehind
  <2> QED BY <2>1, <2>2, FailedLoop DEF RowAtHand
<1>6. CASE GivingUp("revocations") /\ GoTo(Cleaner, "delete_revocations") /\ UNCHANGED <<loop, failures>>
  <2>1. pc'[Cleaner] = "delete_revocations"
      BY <1>6
  <2>2. RowsLeft' = RowsLeft
      BY <1>0, <1>1, <2>1, RowsOfLoopNext
  <2>3. LoopOnCourse'
      BY <1>0, <1>6, <2>1, <2>2, GivesUp DEF LoopOnCourse
  <2>4. LoopsBehind'
      BY <1>0, <1>6, <2>1, RevocationsBehind
  <2> QED BY <2>1, <2>3, <2>4 DEF RowAtHand
<1> QED BY <1>2, <1>3, <1>4, <1>5, <1>6 DEF NextRevocation

\* A step of a revocation that leaves its request there.
LEMMA RevocationGoesOn ==
  ASSUME StoreInv, CleanupInv, InRevocations, ~At(Cleaner, "revocations"), ~At(Cleaner, "delete_revocations"),
         UNCHANGED <<loop, certRequests>>, pc'[Cleaner] \in {"revoke_target", "drop_request"},
         Partial("esc1")' = Partial("esc1"), Partial("esc2")' = Partial("esc2"),
         failures' = failures \/ (failures' # 0 /\ (failures = 2 => failures' = 2))
  PROVE  RowAtHand' /\ LoopOnCourse' /\ LoopsBehind'
<1> USE DEF CleanupInv
<1>1. RowsLeft = PendingRevocations /\ RowsLeft' = PendingRevocations' /\ PendingRevocations' = PendingRevocations
    BY RowsOfLoop, RowsOfLoopNext DEF PendingRevocations
<1>2. RowAtHand'
    BY <1>1 DEF RowAtHand
<1>3. LoopOnCourse'
    BY <1>1, IterationGoesOn, FailedLoop
<1>4. LoopsBehind'
    BY RevocationsBehind
<1> QED BY <1>2, <1>3, <1>4

\* ... and one that takes it away.
LEMMA RevocationEnds ==
  ASSUME StoreFits, StoreInv, CleanupInv, InRevocations, UNCHANGED loop, certRequests' = certRequests \ {prev},
         pc'[Cleaner] = "revocations", failures' = failures,
         Partial("esc1")' = Partial("esc1"), Partial("esc2")' = Partial("esc2")
  PROVE  RowAtHand' /\ LoopOnCourse' /\ LoopsBehind'
<1> USE DEF CleanupInv
<1>1. RowsLeft = PendingRevocations /\ RowsLeft' = PendingRevocations'
    BY RowsOfLoop, RowsOfLoopNext
<1>2. RowsLeft' \subseteq RowsLeft \ {prev}
    BY <1>1 DEF PendingRevocations
<1>3. LoopOnCourse'
    BY <1>2, IterationEnds DEF StoreInv
<1>4. LoopsBehind'
    BY RevocationsBehind
<1> QED BY <1>3, <1>4 DEF RowAtHand

\* The certificate to revoke is looked up.
LEMMA FetchTargetCleans ==
  ASSUME StoreFits, StoreInv, StoreInv', CleanupInv, OneActive', EscapedIssued', FetchTarget(Cleaner)
  PROVE  RowAtHand' /\ LoopOnCourse' /\ LoopsBehind'
<1>1. /\ pc[Cleaner] = "target" /\ pc'[Cleaner] \in {"revoke_target", "drop_request"} /\ UNCHANGED <<loop, certRequests>>
      /\ Partial("esc1")' = Partial("esc1") /\ Partial("esc2")' = Partial("esc2")
      /\ failures' = failures \/ (failures' # 0 /\ (failures = 2 => failures' = 2))
    BY DEF FetchTarget, Partial, StoreInv, TypeOK
<1> QED BY <1>1, RevocationGoesOn

\* It is revoked and its request deleted.
LEMMA RevokeTargetCleans ==
  ASSUME StoreFits, StoreInv, StoreInv', CleanupInv, OneActive', EscapedIssued', RevokeTarget(Cleaner)
  PROVE  RowAtHand' /\ LoopOnCourse' /\ LoopsBehind'
<1> USE DEF StoreInv, TypeOK
<1>1. /\ pc[Cleaner] = "revoke_target" /\ UNCHANGED loop
      /\ Partial("esc1")' = Partial("esc1") /\ Partial("esc2")' = Partial("esc2")
    BY DEF RevokeTarget, Partial
<1>2. CASE /\ failures' = failures /\ certRequests' = certRequests \ {prev} /\ pc'[Cleaner] = "revocations"
    BY <1>1, <1>2, RevocationEnds
<1>3. CASE /\ failures' = failures \/ (failures' # 0 /\ (failures = 2 => failures' = 2))
           /\ UNCHANGED certRequests /\ pc'[Cleaner] = "drop_request"
    BY <1>1, <1>3, RevocationGoesOn
<1> QED BY <1>1, <1>2, <1>3 DEF RevokeTarget

\* A request that cannot be carried out is dropped.
LEMMA DropRequestCleans ==
  ASSUME StoreFits, StoreInv, StoreInv', CleanupInv, OneActive', EscapedIssued', DropRequest
  PROVE  RowAtHand' /\ LoopOnCourse' /\ LoopsBehind'
<1> USE DEF StoreInv, TypeOK
<1>1. /\ pc[Cleaner] = "drop_request" /\ pc'[Cleaner] = "revocations" /\ UNCHANGED loop
      /\ Partial("esc1")' = Partial("esc1") /\ Partial("esc2")' = Partial("esc2")
    BY DEF DropRequest, Partial
<1>2. CASE failures' = failures /\ certRequests' = certRequests \ {prev}
    BY <1>1, <1>2, RevocationEnds
<1>3. CASE failures' # 0 /\ (failures = 2 => failures' = 2) /\ UNCHANGED certRequests
  <2>1. LoopsBehind'
      BY <1>1, <1>3, RevocationsBehind DEF CleanupInv
  <2> QED BY <1>1, <1>3, <2>1, FailedLoop DEF RowAtHand
<1> QED BY <1>2, <1>3 DEF DropRequest

\* Sessions only work while the cleanup is at rest.
LEMMA SessionsLeaveCleanup ==
  ASSUME TypeOK, NEW s \in Requests, Serve(s) \/ Shared(s)
  PROVE  pc'[Cleaner] = "idle"
<1>1. s # Cleaner
    BY StoreConstants
<1>2. CASE Serve(s)
    BY <1>1, <1>2 DEF TypeOK, Serve, CheckRequest, InsertRequest, CheckDuplicateAdd, IssueCert, SendResponse,
       ReadConfirmation, CompleteCert, DropCert, Acknowledge
<1>3. CASE Shared(s)
    BY <1>1, <1>3 DEF TypeOK, Shared, FetchOriginal, RevokeOriginal, DeleteOriginal, CompleteRenewal,
       ReverseCert, UndoCert, FetchTarget, RevokeTarget
<1> QED BY <1>2, <1>3

\* Every step preserves the cleanup's invariant.
LEMMA CleanupInvStep ==
  ASSUME StoreFits, StoreInv, StoreInv', CleanupInv, [Next]_vars
  PROVE  CleanupInv'
<1>1. OneActive' /\ EscapedIssued'
    BY RowsStep DEF CleanupInv
<1> SUFFICES RowAtHand' /\ LoopOnCourse' /\ LoopsBehind'
    BY <1>1 DEF CleanupInv
<1>2. ASSUME NEW s \in Requests, Serve(s) \/ Shared(s)
      PROVE  RowAtHand' /\ LoopOnCourse' /\ LoopsBehind'
    BY <1>2, SessionsLeaveCleanup, AtRest DEF StoreInv
<1>3. CASE Shared(Cleaner)
    BY <1>1, <1>3, FetchOriginalCleans, RevokeOriginalCleans, DeleteOriginalCleans, CompleteRenewalCleans,
       ReverseCertCleans, UndoCertCleans, FetchTargetCleans, RevokeTargetCleans DEF Shared
<1>4. CASE NextRequest \/ DeleteRequest \/ DeleteRequests \/ NextPartial \/ DeletePartials
    BY <1>1, <1>4, NextRequestCleans, DeleteRequestCleans, DeleteRequestsCleans, NextPartialCleans,
       DeletePartialsCleans
<1>5. CASE NextRenewal \/ NextRevocation \/ DropRequest
    BY <1>1, <1>5, NextRenewalCleans, NextRevocationCleans, DropRequestCleans
<1>6. CASE DeleteRevocations
  <2>1. pc'[Cleaner] = "idle"
      BY <1>6 DEF DeleteRevocations, Enter, StoreInv, TypeOK
  <2> QED BY <2>1, AtRest
<1>7. CASE Crash
    BY <1>1, <1>7, CrashCleans
<1>8. CASE UNCHANGED vars
  <2>1. RowsLeft' = RowsLeft
      BY <1>8 DEF vars, RowsLeft, PendingRequests, PendingRevocations, Partial
  <2> QED BY <1>8, <2>1 DEF vars, CleanupInv, RowAtHand, LoopOnCourse, LoopsBehind, PendingRequests, Partial, HasKey
<1> QED BY <1>2, <1>3, <1>4, <1>5, <1>6, <1>7, <1>8 DEF Next, caCleanup, Finished

\* When the cleanup comes to rest its work is done.
LEMMA CleanupEndsClean ==
  ASSUME StoreFits, StoreInv, StoreInv', CleanupInv, Next, ~At(Cleaner, "idle"), At(Cleaner, "idle")'
  PROVE  /\ failures' = 0 => Partial("esc2")' = {}
         /\ failures' <= 1 => certRequests' = {} /\ Partial("esc1")' = {}
<1> USE DEF StoreInv, TypeOK, CleanupInv
<1>1. NextRevocation \/ DeleteRevocations
  <2>1. ASSUME NEW s \in Requests, Serve(s) \/ Shared(s) PROVE FALSE
    <3>1. s # Cleaner
        BY StoreConstants
    <3>2. At(Cleaner, "idle")
        BY <2>1, <3>1 DEF Serve, CheckRequest, InsertRequest, CheckDuplicateAdd, IssueCert, SendResponse,
           ReadConfirmation, CompleteCert, DropCert, Acknowledge, Shared, FetchOriginal, RevokeOriginal,
           DeleteOriginal, CompleteRenewal, ReverseCert, UndoCert, FetchTarget, RevokeTarget
    <3> QED BY <3>2
  <2>2. ~Shared(Cleaner)
      BY DEF Shared, FetchOriginal, RevokeOriginal, DeleteOriginal, CompleteRenewal, ReverseCert,
         UndoCert, FetchTarget, RevokeTarget
  <2>3. ~(NextRequest \/ DeleteRequest \/ DeleteRequests \/ DeletePartials \/ DropRequest)
      BY DEF NextRequest, DeleteRequest, DeleteRequests, DeletePartials, DropRequest, Enter, Take, CountError
  <2>4. ~(NextPartial \/ NextRenewal)
      BY DEF NextPartial, NextRenewal, DeleteIncomplete, Enter, Take, CountError
  <2>5. ~Crash /\ ~Finished
      BY DEF Crash, Finished, vars
  <2> QED BY <2>1, <2>2, <2>3, <2>4, <2>5 DEF Next, caCleanup
<1>2. /\ PendingRequests = {} \/ failures = 2
      /\ Partial("esc1") = {} \/ failures = 2
      /\ Partial("esc2") = {} \/ failures # 0
    BY <1>1 DEF LoopsBehind, NextRevocation, Iterating, GivingUp, DeleteRevocations
<1>3. certRequests = PendingRequests \cup PendingRevocations
    BY DEF PendingRequests, PendingRevocations
<1>4. CASE NextRevocation
  <2>1. PendingRevocations = {} /\ UNCHANGED <<tables, failures>>
      BY <1>4 DEF NextRevocation, Take, CountError, Iterating
  <2> QED BY <2>1, <1>2, <1>3 DEF Partial
<1>5. CASE DeleteRevocations
  <2>1. pc[Cleaner] = "delete_revocations" /\ certificates' = certificates
      BY <1>5 DEF DeleteRevocations
  <2>2. failures # 0 \/ PendingRevocations = {}
      BY <2>1, RowsOfLoop DEF LoopOnCourse
  <2>3. CASE Succeeds(TRUE) /\ certRequests' = certRequests \ PendingRevocations
      BY <2>1, <2>3, <1>2, <1>3 DEF Partial
  <2>4. CASE Fails(Cleaner, PendingRevocations # {}) /\ UNCHANGED certRequests
    <3>1. CASE PendingRevocations = {}
        BY <2>1, <2>4, <3>1, <1>2, <1>3 DEF Partial
    <3>2. CASE PendingRevocations # {}
        BY <2>2, <2>4, <3>2
    <3> QED BY <3>1, <3>2
  <2> QED BY <1>5, <2>3, <2>4 DEF DeleteRevocations
<1> QED BY <1>1, <1>4, <1>5

\* The cleanup's own invariant, in stores whose tables a loop of it can go through.
THEOREM CleanupCorrect == ASSUME StoreFits PROVE Spec => []CleanupInv
<1>1. Init => CleanupInv
  <2> SUFFICES ASSUME Init PROVE CleanupInv
      OBVIOUS
  <2>1. pc[Cleaner] = "idle"
      BY DEF Init
  <2>2. OneActive /\ EscapedIssued
      BY StoreConstants DEF Init, OneActive, EscapedIssued
  <2> QED BY <2>1, <2>2 DEF CleanupInv, RowAtHand, LoopOnCourse, LoopsBehind
<1>2. StoreInv /\ StoreInv' /\ CleanupInv /\ [Next]_vars => CleanupInv'
    BY CleanupInvStep
<1> QED BY <1>1, <1>2, StoreCorrect, PTL DEF Spec

\* When services start again nothing is left half done if no statement of the cleanup has failed, and
\* after a single failure at most a renewal is.
THEOREM CleanedUpAlways == ASSUME StoreFits PROVE Spec => CleanedUp
<1> DEFINE Clean == /\ failures' = 0 => Partial("esc2")' = {}
                    /\ failures' <= 1 => certRequests' = {} /\ Partial("esc1")' = {}
<1>1. StoreInv /\ StoreInv' /\ CleanupInv /\ Next => (~At(Cleaner, "idle") /\ At(Cleaner, "idle")' => Clean)
    BY CleanupEndsClean
<1>2. StoreInv /\ StoreInv' /\ CleanupInv /\ [Next]_vars
        => [~At(Cleaner, "idle") /\ At(Cleaner, "idle")' => Clean]_vars
    BY <1>1
<1> QED BY <1>2, StoreCorrect, CleanupCorrect, PTL DEF Spec, CleanedUp

------------------------------------------------------------------------------
(* The life of each certificate: the store implements CertLifecycle *)

Fresh == {"new", "insert", "check", "create"}
Unanswered == Fresh \cup {"respond", "confirm"}

\* Nobody goes back to the beginning of a request.
LEMMA NobodyGoesBack ==
  ASSUME TypeOK, [Next]_vars, NEW s \in Requests
  PROVE  (pc'[s] \in Fresh => pc[s] \in Fresh) /\ (pc'[s] \in Unanswered => pc[s] \in Unanswered)
<1> USE DEF Fresh, Unanswered, TypeOK
<1>1. ASSUME NEW p \in Processes, NEW l,
             GoTo(p, l), l \in Fresh => pc[p] \in Fresh, l \in Unanswered => pc[p] \in Unanswered
      PROVE  (pc'[s] \in Fresh => pc[s] \in Fresh) /\ (pc'[s] \in Unanswered => pc[s] \in Unanswered)
    BY <1>1
<1>2. ASSUME NEW r \in Requests, Serve(r)
      PROVE  (pc'[s] \in Fresh => pc[s] \in Fresh) /\ (pc'[s] \in Unanswered => pc[s] \in Unanswered)
    BY <1>2 DEF Serve, CheckRequest, InsertRequest, CheckDuplicateAdd, IssueCert, SendResponse,
       ReadConfirmation, CompleteCert, DropCert, Acknowledge
<1>3. ASSUME NEW p \in Processes, Shared(p)
      PROVE  (pc'[s] \in Fresh => pc[s] \in Fresh) /\ (pc'[s] \in Unanswered => pc[s] \in Unanswered)
    BY <1>3 DEF Shared, FetchOriginal, RevokeOriginal, DeleteOriginal, CompleteRenewal, ReverseCert,
       UndoCert, FetchTarget, RevokeTarget
<1>4. CASE caCleanup
  <2>1. s # Cleaner
      BY StoreConstants
  <2>2. CASE NextRequest \/ DeleteRequest \/ DeleteRequests \/ DropRequest \/ DeleteRevocations
      BY <2>1, <2>2 DEF NextRequest, DeleteRequest, DeleteRequests, DropRequest, DeleteRevocations,
         Enter, Take, CountError
  <2>3. CASE NextPartial \/ DeletePartials \/ NextRenewal
      BY <2>1, <2>3 DEF NextPartial, DeletePartials, NextRenewal, DeleteIncomplete, Enter, Take, CountError
  <2>4. CASE NextRevocation
      BY <2>1, <2>4 DEF NextRevocation, Enter, Take, CountError
  <2> QED BY <1>4, <2>2, <2>3, <2>4 DEF caCleanup
<1>5. CASE Crash
    BY <1>5, StoreConstants DEF Crash
<1>6. CASE UNCHANGED vars
    BY <1>6 DEF vars
<1> QED BY <1>2, <1>3, <1>4, <1>5, <1>6 DEF Next, Finished

\* What is confirmed has been issued.
THEOREM ConfirmedIsIssued == Spec => []FreshIsUnconfirmed
<1>1. Init => FreshIsUnconfirmed
    BY DEF Init, FreshIsUnconfirmed
<1>2. ASSUME StoreInv, FreshIsUnconfirmed, [Next]_vars
      PROVE  FreshIsUnconfirmed'
  <2>1. TypeOK /\ \A s \in accepted : s \in Requests /\ pc[s] \notin Unanswered
      BY <1>2 DEF StoreInv, TypeOK, FreshIsUnconfirmed, Unanswered, Fresh
  <2>2. CASE accepted' = accepted
      BY <1>2, <2>1, <2>2, NobodyGoesBack DEF FreshIsUnconfirmed, Unanswered, Fresh
  <2>3. CASE accepted' # accepted
    <3>1. PICK s \in Requests : ReadConfirmation(s)
      <4>1. \A s \in Requests : Serve(s) => ReadConfirmation(s)
          BY <2>3 DEF Serve, CheckRequest, InsertRequest, CheckDuplicateAdd, IssueCert, SendResponse,
             CompleteCert, DropCert, Acknowledge
      <4>2. \A p \in Processes : ~Shared(p)
          BY <2>3 DEF Shared, FetchOriginal, RevokeOriginal, DeleteOriginal, CompleteRenewal,
             ReverseCert, UndoCert, FetchTarget, RevokeTarget
      <4>3. ~caCleanup
          BY <2>3 DEF caCleanup, NextRequest, DeleteRequest, DeleteRequests, NextPartial, DeletePartials,
             NextRenewal, NextRevocation, DropRequest, DeleteRevocations
      <4>4. ~Crash /\ ~Finished /\ ~UNCHANGED vars
          BY <2>3 DEF Crash, Finished, vars
      <4> QED BY <1>2, <4>1, <4>2, <4>3, <4>4 DEF Next
    <3>2. accepted' = accepted \cup {s} /\ pc'[s] = "complete"
        BY <2>1, <2>3, <3>1 DEF ReadConfirmation, TypeOK
    <3> QED BY <1>2, <2>1, <3>2, NobodyGoesBack DEF FreshIsUnconfirmed, Unanswered, Fresh
  <2> QED BY <2>2, <2>3
<1> QED BY <1>1, <1>2, StoreCorrect, PTL DEF Spec

\* The life of a certificate is not touched if nothing of it is.
LEMMA StatusStays ==
  ASSUME NEW c \in Certs,
         \A f \in Forms : <<c, f>> \in certificates' <=> <<c, f>> \in certificates,
         c \in CRLs' <=> c \in CRLs,
         <<c, "esc1">> \in certificates => (c \in accepted' <=> c \in accepted),
         Requested(c)' <=> Requested(c)
  PROVE  Status(c)' = Status(c)
  BY DEF Status

\* A process that is beyond the beginning of its request changes nobody's.
LEMMA RequestedStays ==
  ASSUME TypeOK, NEW p \in Processes, NEW l, GoTo(p, l), l \notin Fresh, NEW c \in Certs,
         c # p \/ pc[p] \notin Fresh
  PROVE  Requested(c)' <=> Requested(c)
  BY DEF Requested, TypeOK, Fresh

\* One certificate gets on.
LEMMA OneMoves ==
  ASSUME NEW c \in Certs, NEW x, \A d \in Certs \ {c} : Status(d)' = Status(d), Status(c)' = x
  PROVE  Life!Becomes(c, x)
  BY DEF Life!Becomes

\* What the unique indices are for.
LEMMA IndexKeepsAlone ==
  ASSUME NEW c \in Certs
  PROVE  /\ MayInsert(c, "std") => Life!Alone(c, {"active"})
         /\ MayInsert(c, "esc2") => Life!Alone(c, {"renewing"})
         /\ MayInsert(c, "esc1") => Life!Alone(c, {"partial", "confirmed"})
  BY DEF MayInsert, HasKey, Life!Alone, Life!Others, Status

\* Requests end and partial certificates are dropped: the life of those is over.
LEMMA Abandons ==
  ASSUME StoreInv, UNCHANGED <<CRLs, accepted>>, certificates' \subseteq certificates,
         \A c \in Certs : \A f \in {"std", "esc2"} : <<c, f>> \in certificates => <<c, f>> \in certificates',
         \A c \in Certs : Requested(c)' => Requested(c)
  PROVE  Life!Next
<1>1. ASSUME NEW c \in Certs, Status(c)' # Status(c)
      PROVE  Status(c) \in {"requested", "partial", "confirmed"} /\ Status(c)' = "gone"
  <2>1. \A f \in {"std", "esc2"} : <<c, f>> \notin certificates /\ <<c, f>> \notin certificates'
      BY <1>1 DEF Status
  <2>2. CASE <<c, "esc1">> \in certificates
    <3>1. c \notin CRLs /\ ~Requested(c)
        BY <2>2 DEF StoreInv, RevokedIsGone, NotYetThere, Requested
    <3>2. <<c, "esc1">> \notin certificates'
        BY <1>1, <2>1, <2>2 DEF Status
    <3> QED BY <2>1, <2>2, <3>1, <3>2 DEF Status
  <2>3. CASE <<c, "esc1">> \notin certificates
      BY <1>1, <2>1, <2>3 DEF Status
  <2> QED BY <2>2, <2>3
<1>2. \A c \in Certs : Status(c)' \in Life!Stages
    BY DEF Status, Life!Stages
<1>3. Life!Abandon
    BY <1>1, <1>2 DEF Life!Abandon
<1> QED BY <1>3 DEF Life!Next

\* A process that works on the rows of c leaves all others alone.
LEMMA OneRowChanges ==
  ASSUME StoreInv, NEW p \in Processes, NEW l, GoTo(p, l), l \notin Fresh, NEW c \in Certs,
         p = c \/ pc[p] \notin Fresh, UNCHANGED accepted,
         \A d \in Certs \ {c} : \A f \in Forms : <<d, f>> \in certificates' <=> <<d, f>> \in certificates,
         \A d \in Certs \ {c} : d \in CRLs' <=> d \in CRLs
  PROVE  \A d \in Certs \ {c} : Status(d)' = Status(d)
<1> SUFFICES ASSUME NEW d \in Certs \ {c} PROVE Status(d)' = Status(d)
    OBVIOUS
<1>1. Requested(d)' <=> Requested(d)
    BY RequestedStays DEF StoreInv
<1> QED BY <1>1, StatusStays

\* A certificate is added, under an escaped ID or directly.
LEMMA IssueCertLives ==
  ASSUME StoreInv, FreshIsUnconfirmed, NEW s \in Requests, IssueCert(s), certificates' # certificates
  PROVE  Life!Next
<1>1. PICK form \in {"std", "esc1"} :
         /\ form = "std" <=> Kind[s] = "direct"
         /\ MayInsert(s, form) /\ certificates' = certificates \cup {<<s, form>>}
    BY DEF IssueCert
<1>2. /\ pc[s] = "create" /\ UNCHANGED <<CRLs, accepted>>
      /\ \E l \in {"acknowledge", "respond"} : GoTo(s, l)
    BY DEF IssueCert
<1>3. \A d \in Certs \ {s} : Status(d)' = Status(d)
    BY <1>1, <1>2, OneRowChanges DEF Fresh
<1>4. (\A f \in Forms : <<s, f>> \notin certificates) /\ s \notin CRLs /\ s \notin accepted
    BY <1>2 DEF StoreInv, NotYetThere, FreshIsUnconfirmed
<1>5. Status(s) = "requested" /\ s \in Certs
    BY <1>2, <1>4 DEF Status, Requested
<1>6. Status(s)' = IF Kind[s] = "direct" THEN "active" ELSE "partial"
    BY <1>1, <1>2, <1>4 DEF Status
<1>7. Life!Issue(s) \/ Life!IssueDirect(s)
    BY <1>1, <1>3, <1>5, <1>6, OneMoves, IndexKeepsAlone
       DEF Life!Issue, Life!IssueDirect, RequestsOf
<1> QED BY <1>5, <1>6, <1>7 DEF Life!Next, Life!Moves

\* The client accepts a certificate, which is there or has been taken away.
LEMMA ReadConfirmationLives ==
  ASSUME StoreInv, NEW s \in Requests, ReadConfirmation(s), accepted' # accepted
  PROVE  Life!Next \/ \A c \in Certs : Status(c)' = Status(c)
<1>1. /\ pc[s] = "confirm" /\ UNCHANGED tables /\ GoTo(s, "complete")
      /\ accepted' = accepted \cup {s} /\ s \notin accepted
    BY DEF ReadConfirmation
<1>2. \A c \in Certs : Requested(c)' <=> Requested(c)
    BY <1>1, RequestedStays DEF StoreInv, Fresh
<1>3. \A d \in Certs \ {s} : Status(d)' = Status(d)
    BY <1>1, <1>2, StatusStays
<1>4. CASE Status(s) = "partial"
  <2>1. Status(s)' = "confirmed"
      BY <1>1, <1>4 DEF Status
  <2>2. Life!Confirm(s)
      BY <1>3, <1>4, <2>1, OneMoves DEF Life!Confirm
  <2> QED BY <1>4, <2>1, <2>2 DEF Life!Next, Life!Moves
<1>5. CASE Status(s) # "partial"
  <2>1. Status(s)' = Status(s)
      BY <1>1, <1>2, <1>5 DEF Status
  <2> QED BY <1>3, <2>1
<1> QED BY <1>4, <1>5

\* A confirmed certificate becomes active, or a renewal goes to the second escape.
LEMMA CompleteCertLives ==
  ASSUME StoreInv, NEW s \in Requests, CompleteCert(s), certificates' # certificates
  PROVE  Life!Next
<1>1. PICK form \in {"std", "esc2"} :
         /\ form = "esc2" <=> Kind[s] = "renewal"
         /\ MayInsert(s, form) /\ <<s, "esc1">> \in certificates
         /\ certificates' = (certificates \ {<<s, "esc1">>}) \cup {<<s, form>>}
    BY DEF CompleteCert, Replace
<1>2. /\ pc[s] = "complete" /\ UNCHANGED <<CRLs, accepted>>
      /\ \E l \in {"fetch", "acknowledge"} : GoTo(s, l)
    BY DEF CompleteCert
<1>3. \A d \in Certs \ {s} : Status(d)' = Status(d)
    BY <1>1, <1>2, OneRowChanges DEF Fresh
<1>4. Status(s) = "confirmed" /\ s \in Certs
    BY <1>1, <1>2 DEF Status, StoreInv, OneForm, ConfirmedFirst
<1>5. Status(s)' = IF Kind[s] = "renewal" THEN "renewing" ELSE "active"
    BY <1>1, <1>2, <1>4 DEF Status, StoreInv, OneForm
<1>6. Life!Complete(s) \/ Life!BeginRenewal(s)
    BY <1>1, <1>3, <1>4, <1>5, OneMoves, IndexKeepsAlone
       DEF Life!Complete, Life!BeginRenewal, RequestsOf
<1> QED BY <1>4, <1>5, <1>6 DEF Life!Next, Life!Moves

\* An active certificate makes room for the renewal that is there.
LEMMA SupersedeLives ==
  ASSUME StoreInv, NEW p \in Processes, RevokeOriginal(p) \/ DeleteOriginal(p), certificates' # certificates
  PROVE  Life!Next
<1>1. PICK c \in Certs :
         /\ c = original[p] /\ <<c, "std">> \in certificates
         /\ certificates' = certificates \ {<<c, "std">>} /\ CRLs' \in {CRLs, CRLs \cup {c}}
    BY DEF RevokeOriginal, DeleteOriginal, StoreInv, RenewalAtHand
<1>2. /\ pc[p] \in {"revoke", "delete"} /\ UNCHANGED accepted /\ GoTo(p, "replace")
    BY <1>1 DEF RevokeOriginal, DeleteOriginal
<1>3. \A d \in Certs \ {c} : Status(d)' = Status(d)
    BY <1>1, <1>2, OneRowChanges DEF Fresh
<1>4. PICK d \in Certs : <<d, "esc2">> \in certificates /\ KeyOf[d] = KeyOf[c]
    BY <1>1, <1>2 DEF StoreInv, RenewalAtHand, TypeOK
<1>5. d # c /\ Status(d) = "renewing"
    BY <1>1, <1>4 DEF Status, StoreInv, OneForm
<1>6. Status(c) = "active"
    BY <1>1 DEF Status
<1>7. Status(c)' \in {"revoked", "gone"}
    BY <1>1, <1>2 DEF Status, StoreInv, OneForm, NotYetThere, Requested, Fresh, TypeOK
<1>8. Life!Supersede(c)
    BY <1>3, <1>4, <1>5, <1>6, <1>7, OneMoves DEF Life!Supersede, Life!Alone, Life!Others
<1> QED BY <1>6, <1>7, <1>8 DEF Life!Next, Life!Moves

\* The renewal takes its place.
LEMMA CompleteRenewalLives ==
  ASSUME StoreInv, NEW p \in Processes, CompleteRenewal(p), certificates' # certificates
  PROVE  Life!Next
<1>1. PICK c \in Certs :
         /\ c = Subject(p) /\ MayInsert(c, "std") /\ <<c, "esc2">> \in certificates
         /\ certificates' = (certificates \ {<<c, "esc2">>}) \cup {<<c, "std">>}
    BY DEF CompleteRenewal, Replace, StoreInv, TypeOK
<1>2. /\ pc[p] = "replace" /\ UNCHANGED <<CRLs, accepted>>
      /\ \E l \in {"renewals", "acknowledge"} : GoTo(p, l)
    BY <1>1 DEF CompleteRenewal
<1>3. \A d \in Certs \ {c} : Status(d)' = Status(d)
    BY <1>1, <1>2, OneRowChanges DEF Fresh
<1>4. Status(c) = "renewing" /\ Status(c)' = "active"
    BY <1>1 DEF Status, StoreInv, OneForm
<1>5. Life!CompleteRenewal(c)
    BY <1>1, <1>3, <1>4, OneMoves, IndexKeepsAlone DEF Life!CompleteRenewal
<1> QED BY <1>4, <1>5 DEF Life!Next, Life!Moves

\* What is on the CRL with its only row deleted is revoked.
LEMMA RevokedNow ==
  ASSUME StoreInv, NEW c \in Certs, NEW f \in Forms, <<c, f>> \in certificates,
         certificates' = certificates \ {<<c, f>>}, CRLs' = CRLs \cup {c}
  PROVE  Status(c)' = "revoked"
  BY DEF Status, StoreInv, OneForm

\* An incomplete certificate is taken back, with a CRL entry.
LEMMA ReverseCertLives ==
  ASSUME StoreInv, NEW p \in Processes, ReverseCert(p), certificates' # certificates
  PROVE  Life!Next
<1>1. PICK c \in Certs :
         /\ <<c, "esc1">> \in certificates /\ certificates' = certificates \ {<<c, "esc1">>}
         /\ CRLs' = CRLs \cup {c}
    BY DEF ReverseCert, StoreInv, TypeOK
<1>2. /\ pc[p] = "reverse" /\ UNCHANGED accepted
      /\ \E l \in {"partials", "ended"} : GoTo(p, l)
    BY <1>1 DEF ReverseCert
<1>3. \A d \in Certs \ {c} : Status(d)' = Status(d)
    BY <1>1, <1>2, OneRowChanges DEF Fresh
<1>4. Status(c) \in {"partial", "confirmed"}
    BY <1>1 DEF Status, StoreInv, OneForm
<1>5. Status(c)' = "revoked"
    BY <1>1, RevokedNow
<1>6. Life!Reverse(c)
    BY <1>3, <1>4, <1>5, OneMoves DEF Life!Reverse
<1> QED BY <1>4, <1>5, <1>6 DEF Life!Next, Life!Moves

\* An active certificate is revoked because a request names it.
LEMMA RevokeTargetLives ==
  ASSUME StoreInv, NEW p \in Processes, RevokeTarget(p), certificates' # certificates
  PROVE  Life!Next
<1>1. PICK r \in Requests : r = Subject(p) /\ Kind[r] = "revocation"
    BY DEF RevokeTarget, StoreInv, RevocationAtHand
<1>2. PICK c \in Certs :
         /\ c = Target[r] /\ <<c, "std">> \in certificates
         /\ certificates' = certificates \ {<<c, "std">>} /\ CRLs' = CRLs \cup {c}
    BY <1>1, StoreConstants DEF RevokeTarget
<1>3. /\ pc[p] = "revoke_target" /\ UNCHANGED accepted
      /\ \E l \in {"revocations", "acknowledge"} : GoTo(p, l)
    BY <1>2 DEF RevokeTarget
<1>4. \A d \in Certs \ {c} : Status(d)' = Status(d)
    BY <1>2, <1>3, OneRowChanges DEF Fresh
<1>5. Status(c) = "active" /\ Status(c)' = "revoked"
    BY <1>2, RevokedNow DEF Status
<1>6. c \in {Target[q] : q \in RequestsOf("revocation")}
    BY <1>1, <1>2 DEF RequestsOf
<1>7. Life!Revoke(c)
    BY <1>4, <1>5, <1>6, OneMoves DEF Life!Revoke
<1> QED BY <1>5, <1>7 DEF Life!Next, Life!Moves

\* The cleanup deletes a renewal that it cannot read.
LEMMA DiscardLives ==
  ASSUME StoreInv, NextRenewal, certificates' # certificates
  PROVE  Life!Next
<1>1. PICK c \in Certs :
         /\ <<c, "esc2">> \in certificates /\ certificates' = certificates \ {<<c, "esc2">>}
    BY DEF NextRenewal, DeleteIncomplete, Partial
<1>2. UNCHANGED <<CRLs, accepted, pc>>
    BY DEF NextRenewal, DeleteIncomplete, CountError
<1>3. \A d \in Certs \ {c} : Status(d)' = Status(d)
    BY <1>1, <1>2, StatusStays DEF Requested
<1>4. Status(c) = "renewing"
    BY <1>1 DEF Status, StoreInv, OneForm
<1>5. Status(c)' = "gone"
    BY <1>1, <1>2 DEF Status, StoreInv, OneForm, NotYetThere, RevokedIsGone, Requested
<1>6. Life!Discard(c)
    BY <1>3, <1>4, <1>5, OneMoves DEF Life!Discard
<1> QED BY <1>4, <1>5, <1>6 DEF Life!Next, Life!Moves

\* Every step of the store is one in the life of its certificates, or none.
LEMMA StoreStepLives ==
  ASSUME StoreInv, FreshIsUnconfirmed, [Next]_vars
  PROVE  Life!Next \/ \A c \in Certs : Status(c)' = Status(c)
<1>1. \A c \in Certs : Requested(c)' => Requested(c)
    BY NobodyGoesBack DEF StoreInv, Requested, Fresh
<1>2. ASSUME UNCHANGED <<certificates, CRLs, accepted>>
      PROVE  Life!Next
    BY <1>1, <1>2, Abandons
<1>3. ASSUME NEW s \in Requests, Serve(s)
      PROVE  Life!Next \/ \A c \in Certs : Status(c)' = Status(c)
  <2>1. CASE CheckRequest(s) \/ InsertRequest(s) \/ CheckDuplicateAdd(s) \/ SendResponse(s) \/ Acknowledge(s)
      BY <2>1, <1>2 DEF CheckRequest, InsertRequest, CheckDuplicateAdd, SendResponse, Acknowledge
  <2>2. CASE IssueCert(s)
      BY <2>2, <1>2, IssueCertLives DEF IssueCert
  <2>3. CASE ReadConfirmation(s)
      BY <2>3, <1>2, ReadConfirmationLives DEF ReadConfirmation
  <2>4. CASE CompleteCert(s)
      BY <2>4, <1>2, CompleteCertLives DEF CompleteCert
  <2>5. CASE DropCert(s)
      BY <2>5, <1>1, Abandons DEF DropCert
  <2> QED BY <1>3, <2>1, <2>2, <2>3, <2>4, <2>5 DEF Serve
<1>4. ASSUME NEW p \in Processes, Shared(p)
      PROVE  Life!Next
  <2>1. CASE FetchOriginal(p) \/ FetchTarget(p)
      BY <2>1, <1>2 DEF FetchOriginal, FetchTarget
  <2>2. CASE RevokeOriginal(p) \/ DeleteOriginal(p)
    <3>1. certificates' = certificates => UNCHANGED <<CRLs, accepted>>
        BY <2>2 DEF RevokeOriginal, DeleteOriginal
    <3> QED BY <2>2, <3>1, <1>2, SupersedeLives
  <2>3. CASE CompleteRenewal(p)
      BY <2>3, <1>2, CompleteRenewalLives DEF CompleteRenewal
  <2>4. CASE ReverseCert(p)
    <3>1. certificates' = certificates => UNCHANGED <<CRLs, accepted>>
        BY <2>4 DEF ReverseCert
    <3> QED BY <2>4, <3>1, <1>2, ReverseCertLives
  <2>5. CASE UndoCert(p)
      BY <2>5, <1>1, Abandons DEF UndoCert
  <2>6. CASE RevokeTarget(p)
    <3>1. certificates' = certificates => UNCHANGED <<CRLs, accepted>>
        BY <2>6 DEF RevokeTarget
    <3> QED BY <2>6, <3>1, <1>2, RevokeTargetLives
  <2> QED BY <1>4, <2>1, <2>2, <2>3, <2>4, <2>5, <2>6 DEF Shared
<1>5. CASE caCleanup
  <2>1. CASE NextRequest \/ DeleteRequest \/ DeleteRequests \/ NextRevocation \/ DropRequest \/ DeleteRevocations
      BY <2>1, <1>2 DEF NextRequest, DeleteRequest, DeleteRequests, NextRevocation, DropRequest, DeleteRevocations
  <2>2. CASE NextPartial
      BY <2>2, <1>1, Abandons DEF NextPartial, DeleteIncomplete
  <2>3. CASE DeletePartials
      BY <2>3, <1>1, Abandons DEF DeletePartials
  <2>4. CASE NextRenewal
      BY <2>4, <1>2, DiscardLives DEF NextRenewal
  <2> QED BY <1>5, <2>1, <2>2, <2>3, <2>4 DEF caCleanup
<1>6. CASE Crash \/ UNCHANGED vars
    BY <1>6, <1>2 DEF Crash, vars
<1> QED BY <1>3, <1>4, <1>5, <1>6 DEF Next, Finished

\* The store implements CertLifecycle: one certificate of a key at each stage, active only
\* when confirmed, replaced only by a renewal that is there, and gone for good.
THEOREM StoreImplementsLifecycle == Spec => CertLifecycleSpec
<1>1. Init => Life!Init
  <2> SUFFICES ASSUME Init PROVE Life!Init
      OBVIOUS
  <2>1. \A c \in Certs : Status(c) = IF c \in Originals THEN "active" ELSE "requested"
      BY StoreConstants DEF Init, Status, Requested
  <2> QED BY <2>1 DEF Life!Init
<1>2. StoreInv /\ FreshIsUnconfirmed /\ [Next]_vars => [Life!Next]_([c \in Certs |-> Status(c)])
  <2> SUFFICES ASSUME StoreInv, FreshIsUnconfirmed, [Next]_vars
               PROVE  Life!Next \/ UNCHANGED [c \in Certs |-> Status(c)]
      OBVIOUS
  <2> QED BY StoreStepLives
<1> QED BY <1>1, <1>2, StoreCorrect, ConfirmedIsIssued, PTL DEF Spec, CertLifecycleSpec, Life!Spec
=============================================================================
