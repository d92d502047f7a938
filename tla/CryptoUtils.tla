----------------------------- MODULE CryptoUtils -----------------------------
(***************************************************************************)
(* EncryptAES and DecryptAES of src/utils/cryptoutils/crypt.go.            *)
(*                                                                         *)
(* A key is its identity and its length in bytes.  AES-GCM is abstracted   *)
(* to what its contract says: Seal's output is opened only by Open with    *)
(* the same key and nonce, and it carries the nonce it was sealed with     *)
(* (nonce reuse under one key is what GCM forbids).  Base64 is a wrapping  *)
(* that DecodeString undoes and that text of another shape fails.          *)
(***************************************************************************)
EXTENDS Naturals, Sequences

LOCAL Ok(v) == [kind |-> "ok", v |-> v]
LOCAL Err(e) == [kind |-> "err", v |-> e]

\* aes.NewCipher: a KeySizeError unless the key is 16, 24 or 32 bytes.
AESKeySizes == {16, 24, 32}

\* gcm.NonceSize() of cipher.NewGCM.
NonceSize == 12

\* The nonce both functions build: NonceSize bytes, each set to 'x'.
FixedNonce == [i \in 1..NonceSize |-> "x"]

\* gcm.Seal(nil, nonce, secret, nil) and gcm.Open(nil, nonce, encrypted, nil).
Seal(key, nonce, secret) == [sealedBy |-> key.id, nonce |-> nonce, secret |-> secret]
Open(key, nonce, ct) ==
    IF ct.sealedBy = key.id /\ ct.nonce = nonce THEN Ok(ct.secret) ELSE Err("gcm open")

\* base64.StdEncoding.EncodeToString and DecodeString.
EncodeToString(b) == [b64 |-> b]
DecodeString(s) == IF "b64" \in DOMAIN s THEN Ok(s.b64) ELSE Err("decoding b64")

\* EncryptAES(secret, key): the base64 of the sealed secret, or the error of
\* aes.NewCipher.
EncryptAES(secret, key) ==
    IF key.len \notin AESKeySizes THEN Err("new cipher")
    ELSE Ok(EncodeToString(Seal(key, FixedNonce, secret)))

\* DecryptAES(encryptedB64, key): the cipher error, the base64 error, or
\* what gcm.Open returns.
DecryptAES(encryptedB64, key) ==
    IF key.len \notin AESKeySizes THEN Err("new cipher")
    ELSE LET d == DecodeString(encryptedB64)
         IN  IF d.kind = "err" THEN d
             ELSE Open(key, FixedNonce, d.v)

=============================================================================
