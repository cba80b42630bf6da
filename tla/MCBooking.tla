----------------------------- MODULE MCBooking -----------------------------
(* Small instances of Booking. *)
EXTENDS Booking, TLC

CONSTANTS b1, b2, k1, k2

\* One Booking, two keys: racing and retried commands on the same Booking.
OneBookingKeys == (b1 :> {k1, k2})

\* Workers and quotes are interchangeable.
Interchangeable == Permutations(Workers) \cup Permutations(Quotes)
=============================================================================
