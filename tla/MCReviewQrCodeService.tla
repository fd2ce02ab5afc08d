----------------------- MODULE MCReviewQrCodeService -----------------------
(* Small instances of ReviewQrCodeService for TLC. *)
EXTENDS ReviewQrCodeService
=============================================================================
