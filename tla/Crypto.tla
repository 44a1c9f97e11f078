------------------------------- MODULE Crypto -------------------------------
(***************************************************************************)
(* The key agreement (handshake.cpp) and the AEAD (crypto.cpp) of the      *)
(* secure link, as terms: two terms are equal exactly when the bytes are.  *)
(* OpenSSL itself is external; what is kept is what the callers rely on.   *)
(***************************************************************************)
EXTENDS Integers

CONSTANTS
  NoKey,          \* the empty vector a failed derivation returns
  CryptoMayFail   \* whether an OpenSSL call may fail (out of memory)

ASSUME CryptoAssumption == CryptoMayFail \in BOOLEAN

PUBLIC_KEY_SIZE == 32

\* The outcomes of an OpenSSL call the callers test for.
CryptoResults == IF CryptoMayFail THEN BOOLEAN ELSE {TRUE}

(***************************************************************************)
(* A key pair is named by its owner, and so is its public half.  The       *)
(* Diffie-Hellman secret depends on the two halves and not on who          *)
(* computes it: an unordered pair.                                         *)
(***************************************************************************)
derive_x25519_shared_secret(mine, peer) == {mine, peer}

\* HKDF with the fixed salt and info strings: injective, and no other key of
\* the program has the same label.
HkdfInfo == "spacesec-phase3-session-key"

\* Mutant: the secret is not given to HKDF.
hkdf_without_secret(secret) == <<HkdfInfo, {}>>

hkdf_sha256_session_key(secret) == <<HkdfInfo, secret>>

\* load, derive and hkdf in a row; any of them failing leaves an empty key.
SessionKey(mine, peer, ok) ==
  IF ok THEN hkdf_sha256_session_key(derive_x25519_shared_secret(mine, peer))
        ELSE NoKey

(***************************************************************************)
(* ChaCha20 is a stream cipher: a flipped byte of the ciphertext survives  *)
(* as a flipped byte, and flipping it again restores the ciphertext.       *)
(***************************************************************************)
chacha20(key, nonce, plaintext) ==
  [key |-> key, nonce |-> nonce, plaintext |-> plaintext, flipped |-> FALSE]

FlipByte(ciphertext) == [ciphertext EXCEPT !.flipped = ~ciphertext.flipped]

\* Mutants: a tag that ignores the header, one that ignores the ciphertext.
poly1305_without_aad(key, nonce, aad, ciphertext) ==
  [key |-> key, nonce |-> nonce, aad |-> <<>>, ciphertext |-> ciphertext]

poly1305_without_ciphertext(key, nonce, aad, ciphertext) ==
  [key |-> key, nonce |-> nonce, aad |-> aad, ciphertext |-> <<>>]

\* The Poly1305 tag authenticates the header (aad) and the ciphertext.
poly1305(key, nonce, aad, ciphertext) ==
  [key |-> key, nonce |-> nonce, aad |-> aad, ciphertext |-> ciphertext]

encrypt_chacha20_poly1305(key, nonce, plaintext, aad) ==
  LET ciphertext == chacha20(key, nonce, plaintext)
  IN  [ciphertext |-> ciphertext,
       tag        |-> poly1305(key, nonce, aad, ciphertext)]

\* Whether EVP_DecryptFinal_ex accepts the tag; only then is there a plaintext.
decrypt_chacha20_poly1305(key, nonce, ciphertext, aad, tag) ==
  tag = poly1305(key, nonce, aad, ciphertext)
=============================================================================
