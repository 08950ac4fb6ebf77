------------------------------ MODULE PairCrypto ------------------------------
(***************************************************************************)
(* What src/src/pair_ap/pair_homekit.c computes with. SRP-6a is done with  *)
(* its real arithmetic in a small group; a hash is a tuple of what is      *)
(* hashed, a derived key the pair of its use and the secret, a ciphertext  *)
(* and a signature what they were made from. A number stands for the       *)
(* private value it is.                                                    *)
(***************************************************************************)
EXTENDS Integers

CONSTANTS
  N, g,      \* the prime and the generator of the group (SRP_NG_3072 in the code)
  None       \* a field that is not there, a NULL pointer

\* Of N being a prime: g has an inverse.
ASSUME PairCryptoAssumption ==
  /\ N \in Nat /\ N > 2 /\ g \in 2..(N - 1)
  /\ \E h \in 1..(N - 1) : (g * h) % N = 1

Elements == 0..(N - 1)

\* bnum_modexp, for exponents that are not negative
Modexp(base, exponent) ==
  LET power[n \in 0..exponent] == IF n = 0 THEN 1 ELSE (base * power[n - 1]) % N
  IN power[exponent]

-----------------------------------------------------------------------------
(* Hashes that are used as numbers: any function will do, so a simple one is taken *)

\* H_nn_pad of N and g
Multiplier == (N + g) % N

\* H_nn_pad of A and B, which like every hash may be zero
Scrambler(A, B) == (A + 3 * B) % N

\* H_ns of a number and what is hashed already
H_ns(n, hashed) == 1 + ((n + hashed) % (N - 1))

\* calculate_x, from the salt and the pin, which is hashed with the user name
calculate_x(salt, pin) == H_ns(salt, 2 * pin)

\* calculate_M and calculate_H_AMK; what does not differ between the peers is left out
calculate_M(salt, A, B, K) == <<salt, A, B, K>>
calculate_H_AMK(A, M, K) == <<A, M, K>>

-----------------------------------------------------------------------------
(* SRP *)

\* The client's public key, srp_user_start_authentication
PublicA(a) == Modexp(g, a)

\* srp_user_process_challenge: no proof is made when B or u is zero
SafeChallenge(A, B) == B # 0 /\ Scrambler(A, B) # 0

\* The session key of srp_user_process_challenge: (B - k g^x) ^ (a + u x)
UserKey(a, A, B, salt, pin) ==
  LET x == calculate_x(salt, pin) IN
  Modexp((B - Multiplier * Modexp(g, x)) % N, a + Scrambler(A, B) * x)

\* srp_create_salted_verification_key
VerificationKey(salt, pin) == Modexp(g, calculate_x(salt, pin))

\* srp_verifier_start_authentication: k v + g^b
PublicB(b, v) == (Multiplier * v + Modexp(g, b)) % N

\* srp_verifier_new refuses an A that is a multiple of N
SafeA(A) == A % N # 0

\* The session key of srp_verifier_new: (A v^u) ^ b
VerifierKey(b, v, A, B) == Modexp((A * Modexp(v, Scrambler(A, B))) % N, b)

-----------------------------------------------------------------------------
(* Keys, ciphering and signatures *)

\* hkdf_extract_expand: the entry of pair_keys_map gives salt and info, and the nonce
Derived(secret, use) == <<use, secret>>

\* Both sides of crypto_scalarmult with the own private and the other's public key
Shared(own, other) == {own, other}

\* encrypt_chacha with the key and nonce of a message
Sealed(secret, use, data) == [key |-> Derived(secret, use), data |-> data]

\* decrypt_chacha succeeds with the key the data was encrypted with
Opens(sealed, secret, use) == sealed.key = Derived(secret, use)

\* crypto_sign_detached, and the check of verify_info
Signature(key, info) == [key |-> key, info |-> info]
Verifies(signature, key, info) == signature = Signature(key, info)
=============================================================================
