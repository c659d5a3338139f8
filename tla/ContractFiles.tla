---------------------------- MODULE ContractFiles ----------------------------
(***************************************************************************)
(* Signing one purchase: signContract has ContractService write a PDF and  *)
(* a QR image, under names made of the purchase's id alone, and then       *)
(* updates the row. Requests that passed the status check write the same   *)
(* two files; one may fail, or stop with the backend, at any point.        *)
(***************************************************************************)
EXTENDS Naturals

CONSTANTS
    Slots,        \* requests of the customer under way at once
    MaxRequests   \* bound: requests made

(* What the constants have to be.                                          *)
ContractAssumption == MaxRequests \in Nat

VARIABLES
    signed,      \* the row: CONTRACT_SIGNED, and the number of the request whose QR it holds
    pdf,         \* the PDF: who wrote its front and its end, or 0
    qr,          \* the QR image: who wrote it, or 0
    call,        \* call[c]: a request, by its number
    requests,
    overlapped,  \* history: two requests were past the check at once
    image        \* the customer's signature is where their row says

vars == <<signed, pdf, qr, call, requests, overlapped, image>>

Nobody == [front |-> 0, end |-> 0]
Free == [pc |-> "idle", id |-> 0]

Init ==
    /\ signed = [status |-> "PENDING", qr |-> 0] /\ pdf = Nobody /\ qr = 0
    /\ call = [c \in Slots |-> Free] /\ requests = 0 /\ overlapped = FALSE /\ image \in BOOLEAN
-----------------------------------------------------------------------------
At(c, pc) == call[c].pc = pc
Goes(c, pc) == call' = [call EXCEPT ![c].pc = pc]
Ends(c) == call' = [call EXCEPT ![c] = Free]

(* MUTANT of Signable: one that is signed may be signed again.             *)
SignableAlways == signed.status \in {"PENDING", "CONTRACT_SIGNED"}

Signable == signed.status = "PENDING"

(* signContract reads the row once; INVALID_PURCHASE_STATUS otherwise.     *)
SignContract(c) ==
    /\ At(c, "idle") /\ requests < MaxRequests /\ requests' = requests + 1
    /\ IF Signable
       THEN /\ call' = [call EXCEPT ![c] = [pc |-> "open", id |-> requests']]
            /\ overlapped' = (overlapped \/ \E o \in Slots : ~At(o, "idle"))
       ELSE UNCHANGED <<call, overlapped>>
    /\ UNCHANGED <<signed, pdf, qr, image>>

(* generateContract opens the stream, which empties what is there, and     *)
(* writes as the document grows; a signature that is not there ends it.    *)
Open(c) ==
    /\ At(c, "open") /\ pdf' = Nobody /\ Goes(c, "front")
    /\ UNCHANGED <<signed, qr, requests, overlapped, image>>

WriteFront(c) ==
    /\ At(c, "front") /\ pdf' = [pdf EXCEPT !.front = call[c].id]
    /\ IF image THEN Goes(c, "end") ELSE Ends(c)
    /\ UNCHANGED <<signed, qr, requests, overlapped, image>>

(* MUTANT of AfterPdf: the row is updated before the QR image is written.  *)
AfterPdfUpdate == "update"

AfterPdf == "qr"

WriteEnd(c) ==
    /\ At(c, "end") /\ pdf' = [pdf EXCEPT !.end = call[c].id] /\ Goes(c, AfterPdf)
    /\ UNCHANGED <<signed, qr, requests, overlapped, image>>

(* addQrCodeToPdf: the image beside the PDF; the PDF is only read.         *)
AddQrCode(c) ==
    /\ At(c, "qr") /\ qr' = call[c].id /\ Goes(c, "update")
    /\ UNCHANGED <<signed, pdf, requests, overlapped, image>>

(* MUTANT of Signed: the row is not given its QR code.                     *)
SignedBare(c) == [status |-> "CONTRACT_SIGNED", qr |-> signed.qr]

(* The update, by the id alone.                                            *)
Signed(c) == [status |-> "CONTRACT_SIGNED", qr |-> call[c].id]

Update(c) ==
    /\ At(c, "update") /\ signed' = Signed(c) /\ Ends(c)
    /\ UNCHANGED <<pdf, qr, requests, overlapped, image>>

(* A write, the read or the update fails; or the backend stops.            *)
Fail(c) ==
    /\ ~At(c, "idle") /\ Ends(c)
    /\ UNCHANGED <<signed, pdf, qr, requests, overlapped, image>>

Restart ==
    /\ \E c \in Slots : ~At(c, "idle") /\ call' = [o \in Slots |-> Free]
    /\ UNCHANGED <<signed, pdf, qr, requests, overlapped, image>>

(* The customer signs again, and the image is there.                       *)
ImageComes ==
    /\ ~image /\ image' = TRUE
    /\ UNCHANGED <<signed, pdf, qr, call, requests, overlapped>>

Next ==
    \/ \E c \in Slots : \/ SignContract(c) \/ Open(c) \/ WriteFront(c) \/ WriteEnd(c)
                        \/ AddQrCode(c) \/ Update(c) \/ Fail(c)
    \/ Restart \/ ImageComes

Spec == Init /\ [][Next]_vars
-----------------------------------------------------------------------------
(* The row, the files and the requests are of their types; no two requests *)
(* have one number.                                                        *)
TypeOK ==
    /\ signed \in [status : {"PENDING", "CONTRACT_SIGNED"}, qr : 0..requests]
    /\ pdf \in [front : 0..requests, end : 0..requests] /\ qr \in 0..requests
    /\ call \in [Slots -> [pc : {"idle", "open", "front", "end", "qr", "update"}, id : 0..requests]]
    /\ requests \in 0..MaxRequests /\ overlapped \in BOOLEAN /\ image \in BOOLEAN
    /\ signed.status = "PENDING" <=> signed.qr = 0

Whole == signed.status = "PENDING" \/ (pdf.front = signed.qr /\ pdf.end = signed.qr /\ qr = signed.qr)

(* A signed purchase has the two files of the request that signed it,      *)
(* after whatever failed before, unless two requests overlapped.           *)
SignedHasItsFiles == overlapped \/ Whole

(* Also where they overlapped: a purchase is not signed before a QR image  *)
(* of its contract was written.                                            *)
SignedHasAQr == (signed.status = "CONTRACT_SIGNED") => qr # 0
=============================================================================
