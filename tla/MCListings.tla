----------------------------- MODULE MCListings -----------------------------
(* Listings for TLC; its constants are plain values. *)
EXTENDS Listings
=============================================================================
