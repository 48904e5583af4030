--------------------------- MODULE MCAddressPool ---------------------------
(* Small instances of AddressPool: two-byte addresses over a 4-valued byte. *)
EXTENDS AddressPool

\* every range whose last address can be incremented
RangesBelowMax == {r \in Addr \X Addr : r[2] # MaxAddr}
=============================================================================
