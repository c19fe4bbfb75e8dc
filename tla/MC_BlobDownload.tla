--------------------------- MODULE MC_BlobDownload ---------------------------
(* Six chunks in words of four bits and bytes of two: the last word is not  *)
(* full and a byte is half a word, as a byte is an eighth of one.           *)
EXTENDS BlobDownload
=============================================================================
