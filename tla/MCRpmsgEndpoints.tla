-------------------------- MODULE MCRpmsgEndpoints --------------------------
(* Model-checking instance of RpmsgEndpoints. *)
EXTENDS RpmsgEndpoints

\* Any address, a reserved one, the first dynamic one, and one past the end of
\* the bitmap.
SomeSources == {RPMSG_ADDR_ANY, RESERVED - 1, RESERVED, RESERVED + BMP_SIZE}
AnySource   == {RPMSG_ADDR_ANY}
=============================================================================
