----------------------------- MODULE MCPaymentApi -----------------------------
(***************************************************************************)
(* Small instances of PaymentApi.                                          *)
(***************************************************************************)
EXTENDS PaymentApi

\* Two spellings of one currency and one that validation rejects.
MCUpper == [s \in RawCurrencies |-> IF s \in {"usd", "USD"} THEN "USD" ELSE None]
=============================================================================
