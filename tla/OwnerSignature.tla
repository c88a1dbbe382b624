--------------------------- MODULE OwnerSignature ---------------------------
(***************************************************************************)
(* From the DER signature an authenticator returns to the bytes both       *)
(* chains verify (backend/src/passkey/owner-signature.ts), over small      *)
(* bytes and a small curve order.                                          *)
(***************************************************************************)
EXTENDS Naturals, Sequences

CONSTANTS
    BASE,         \* the values of a byte: 256
    WIDTH,        \* the bytes of a component: 32
    CURVE_ORDER

(* How many values so many bytes have.                                     *)
power[k \in 0..(WIDTH + 1)] == IF k = 0 THEN 1 ELSE BASE * power[k - 1]

ASSUME SignatureAssumption ==
    /\ BASE \in Nat \ {0, 1} /\ WIDTH \in Nat \ {0}
    /\ CURVE_ORDER \in 2..power[WIDTH]

HALF_ORDER == CURVE_ORDER \div 2

(* A number in so many bytes, and back.                                    *)
bytes(n, width) == [i \in 1..width |-> (n \div power[width - i]) % BASE]
number(b) ==
    LET upto[k \in 0..Len(b)] == IF k = 0 THEN 0 ELSE upto[k - 1] * BASE + b[k]
    IN  upto[Len(b)]

(* What DER holds: as few bytes as keep the first one's high bit clear.    *)
der(n) ==
    LET fits(width) == 2 * n < power[width]
    IN  bytes(n, CHOOSE w \in 1..(WIDTH + 1) : fits(w) /\ \A v \in 1..(w - 1) : ~fits(v))

(* normalizeS: the lower of s and its complement.                          *)
normalizeS(s) ==
    IF number(s) <= HALF_ORDER THEN s ELSE bytes(CURVE_ORDER - number(s), WIDTH)

(* A bug: short numbers are filled up at the end.                          *)
pad32_end(b) ==
    LET trimmed == IF Len(b) > WIDTH /\ b[1] = 0 THEN Tail(b) ELSE b
    IN  [i \in 1..WIDTH |-> IF i <= Len(trimmed) THEN trimmed[i] ELSE 0]

(* pad32: leading zeros go until it fits, or come until it is full.        *)
pad32(b) ==
    LET trimmed == IF Len(b) > WIDTH /\ b[1] = 0 THEN Tail(b) ELSE b
        missing == WIDTH - Len(trimmed)
    IN  [i \in 1..WIDTH |-> IF i > missing THEN trimmed[i - missing] ELSE 0]

derToRawSignature(signature) == pad32(signature.r) \o pad32(normalizeS(signature.s))

(* What a chain takes for the signature <<r, s>>: both numbers in full     *)
(* width, s or its complement, and only the lower one.                     *)
verifies(raw, r, s) ==
    /\ Len(raw) = 2 * WIDTH
    /\ number(SubSeq(raw, 1, WIDTH)) = r
    /\ number(SubSeq(raw, WIDTH + 1, 2 * WIDTH)) \in {s, CURVE_ORDER - s}
    /\ number(SubSeq(raw, WIDTH + 1, 2 * WIDTH)) <= HALF_ORDER
=============================================================================
