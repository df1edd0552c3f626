--------------------------- MODULE CryptoBuffers ---------------------------
(***************************************************************************)
(* The buffers of the crypto layer and the functions that lock them: the    *)
(* Buffer trait of crypto_api with its lockers, Vec<u8> and SecureBuffer,   *)
(* the SodiumCryptoSystem functions on them, and the older SecBuf of the    *)
(* sodium crate with the functions of aead.rs, hash.rs, kdf.rs, kx.rs,      *)
(* pwhash.rs and sign.rs.                                                   *)
(*                                                                          *)
(* A function checks the lengths of its arguments, locks them one by one,   *)
(* hands their pointers to libsodium and drops the lockers in the reverse   *)
(* order, on success, on an error and while a panic unwinds.  The borrow    *)
(* checker keeps an argument that is written apart from every other one; it *)
(* lets a buffer be read through two arguments, or while the caller holds a *)
(* locker of its own.  What the bytes are is left out.                      *)
(***************************************************************************)
EXTENDS Naturals, FiniteSets, Sequences

CONSTANTS
    Buffers,     \* the buffers of the program
    Kind,        \* their types: "Vec", "SecureBuffer", "RustBuf", "SodiumBuf"
    Length,      \* their lengths
    NoBuffer,    \* the argument None
    MaxHeld      \* bound: the lockers the caller holds at a time

VARIABLES
    p,           \* the ProtectState each buffer records
    mem,         \* the protection of its pages
    held,        \* the locker the caller holds on it: "none", "read", "write"
    call,        \* the function that runs: its name and its lockers
    outcome      \* how that function ends: "none" while it has not

vars == <<p, mem, held, call, outcome>>

ProtectState == {"NoAccess", "ReadOnly", "ReadWrite"}

\* The types that implement Buffer, and SecBuf's two kinds of backing store.
Plain == {b \in Buffers : Kind[b] \in {"Vec", "SecureBuffer"}}
SecBufs == {b \in Buffers : Kind[b] \in {"RustBuf", "SodiumBuf"}}

\* The buffers in pages of their own, and those that record a state.
Paged == {b \in Buffers : Kind[b] \in {"SecureBuffer", "SodiumBuf"}}
Tracked == {b \in Buffers : Kind[b] # "Vec"}

ASSUME BuffersAssumption ==
    /\ NoBuffer \notin Buffers
    /\ Kind \in [Buffers -> {"Vec", "SecureBuffer", "RustBuf", "SodiumBuf"}]
    /\ Length \in [Buffers -> Nat]
    /\ MaxHeld \in Nat
    /\ \A b \in Buffers : Kind[b] = "SodiumBuf" => Length[b] % 8 = 0

\* The bytes that libsodium's constants name.
Bytes ==
    [sha256 |-> 32, sha512 |-> 64, hashMin |-> 16, hashMax |-> 64, keyMin |-> 16, keyMax |-> 64,
     salt |-> 16, pwhash |-> 32, kdfKey |-> 32, kdfContext |-> 8, kdfMin |-> 16, kdfMax |-> 64,
     seed |-> 32, signPublic |-> 32, signSecret |-> 64, signature |-> 64,
     kxPublic |-> 32, kxSecret |-> 32, session |-> 32, nonce |-> 24, auth |-> 16, secret |-> 32]

Idle == [op |-> "none"]

\* SecureBuffer::new, with_insecure and with_secure; a Vec records nothing.
Init ==
    /\ p = [b \in Buffers |-> "NoAccess"]
    /\ mem = [b \in Buffers |-> IF b \in Paged THEN "NoAccess" ELSE "ReadWrite"]
    /\ held = [b \in Buffers |-> "none"]
    /\ call = Idle
    /\ outcome = "none"

-----------------------------------------------------------------------------
(* The protection of one buffer.                                           *)

\* set_readable, set_writable, set_no_access and their SecBuf counterparts: the
\* page protection and the recorded state together; all no-ops on a Vec.
Protect(b, state) ==
    /\ p' = IF b \in Tracked THEN [p EXCEPT ![b] = state] ELSE p
    /\ mem' = IF b \in Paged THEN [mem EXCEPT ![b] = state] ELSE mem

\* A locker: the buffer and the state it puts it in.
R(b) == [buffer |-> b, state |-> "ReadOnly"]
W(b) == [buffer |-> b, state |-> "ReadWrite"]

\* The caller takes a locker, where the borrow checker and the state allow it.
TakeLock(b, how) ==
    /\ call = Idle
    /\ held[b] = "none" /\ p[b] = "NoAccess"
    /\ Cardinality({c \in Buffers : held[c] # "none"}) < MaxHeld
    /\ held' = [held EXCEPT ![b] = how]
    /\ Protect(b, IF how = "read" THEN "ReadOnly" ELSE "ReadWrite")
    /\ UNCHANGED <<call, outcome>>

\* Drop of ReadLocker, WriteLocker and Locker (b is not in NoAccess then).
DropLock(b) ==
    /\ call = Idle
    /\ held[b] # "none"
    /\ held' = [held EXCEPT ![b] = "none"]
    /\ Protect(b, "NoAccess")
    /\ UNCHANGED <<call, outcome>>

\* SecBuf::clone_partial reads the source through its store and not through its
\* recorded state, which may be that of a locker the caller holds.
ClonePartial(b) ==
    /\ call = Idle
    /\ b \in SecBufs
    /\ mem' = IF b \in Paged THEN [mem EXCEPT ![b] = "NoAccess"] ELSE mem
    /\ UNCHANGED <<p, held, call, outcome>>

-----------------------------------------------------------------------------
(* A function of the crypto system.                                        *)

Range(s) == {s[i] : i \in 1 .. Len(s)}

Check(passes, error) == [passes |-> passes, error |-> error]
Size(b, bytes, error) == Check(Length[b] = bytes, error)
SizeBetween(b, min, max, error) == Check(Length[b] >= min /\ Length[b] <= max, error)

\* The lockers of the arguments that are not None; only the first may be.
Given(locks) == IF locks # << >> /\ Head(locks).buffer = NoBuffer THEN Tail(locks) ELSE locks

\* What the borrow checker accepts: a written argument is no other argument and
\* nobody holds a locker on it; nobody holds a WriteLocker on a read one.  A
\* SecBuf is always borrowed mutably, if need be through the caller's Locker.
Borrows(locks) ==
    LET written == {i \in 1 .. Len(locks) : locks[i].state = "ReadWrite"
                                              \/ locks[i].buffer \in SecBufs}
    IN  /\ \A i \in written, j \in 1 .. Len(locks) :
              i # j => locks[i].buffer # locks[j].buffer
        /\ \A i \in 1 .. Len(locks) :
              \/ locks[i].buffer \in SecBufs
              \/ held[locks[i].buffer] = "none"
              \/ held[locks[i].buffer] = "read" /\ i \notin written

\* A function is called: the first check that fails is its result, and none of
\* its arguments is locked by then.
Begin(op, checks, lockers) ==
    LET locks == Given(lockers)
        failed == {i \in 1 .. Len(checks) : ~ checks[i].passes}
        first == CHOOSE i \in failed : \A j \in failed : i <= j
    IN  /\ call = Idle
        /\ Borrows(locks)
        /\ call' = [op |-> op, todo |-> IF failed # {} THEN << >> ELSE locks, taken |-> << >>]
        /\ outcome' = IF failed # {} THEN checks[first].error ELSE "none"
        /\ UNCHANGED <<p, mem, held>>

\* The next locker: a buffer that is not in NoAccess panics.
Lock ==
    /\ call # Idle /\ outcome = "none" /\ call.todo # << >>
    /\ LET l == Head(call.todo)
       IN  IF p[l.buffer] # "NoAccess"
           THEN outcome' = "panic" /\ UNCHANGED <<p, mem, call>>
           ELSE /\ Protect(l.buffer, l.state)
                /\ call' = [call EXCEPT !.todo = Tail(@), !.taken = <<l.buffer>> \o @]
                /\ UNCHANGED outcome
    /\ UNCHANGED held

\* How a function may end once its arguments are locked.  The others ignore what
\* libsodium returns, or return it as a Boolean.
Fallible ==
    {"hash_sha256", "kdf", "sign_seed_keypair", "sign_keypair", "sign", "kx_seed_keypair",
     "kx_keypair", "kx_client_session_keys", "kx_server_session_keys", "aead_encrypt"}

Results(op) ==
    CASE op \in Fallible -> {"Ok", "Generic"}
      [] op \in {"pwhash", "pwhash::hash"} -> {"Ok", "OutOfMemory"}
      [] op = "aead_decrypt" -> {"Ok", "CouldNotDecrypt"}
      [] OTHER -> {"Ok"}

\* The call into libsodium.
Sodium ==
    /\ call # Idle /\ outcome = "none" /\ call.todo = << >>
    /\ outcome' \in Results(call.op)
    /\ UNCHANGED <<p, mem, held, call>>

\* A locker is dropped.  set_no_access panics at a SecureBuffer that records no
\* access already; SecBuf's noaccess() does not look.
Release(b) ==
    IF Kind[b] = "SecureBuffer" /\ p[b] = "NoAccess"
    THEN outcome' = "panic" /\ UNCHANGED <<p, mem>>
    ELSE Protect(b, "NoAccess") /\ UNCHANGED outcome

\* Mutant: the early return of a failed decryption forgets a locker.
Unlock_ForgetsOnError ==
    /\ call # Idle /\ outcome # "none" /\ call.taken # << >>
    /\ IF outcome = "CouldNotDecrypt" /\ Len(call.taken) = 4
       THEN UNCHANGED <<p, mem, outcome>>
       ELSE Release(Head(call.taken))
    /\ call' = [call EXCEPT !.taken = Tail(@)]
    /\ UNCHANGED held

\* Mutant: a panic does not run the lockers' drop.
Unlock_NotOnPanic ==
    /\ call # Idle /\ outcome # "none" /\ call.taken # << >>
    /\ IF outcome = "panic"
       THEN UNCHANGED <<p, mem, outcome>>
       ELSE Release(Head(call.taken))
    /\ call' = [call EXCEPT !.taken = Tail(@)]
    /\ UNCHANGED held

\* The lockers are dropped, the last one first.
Unlock ==
    /\ call # Idle /\ outcome # "none" /\ call.taken # << >>
    /\ Release(Head(call.taken))
    /\ call' = [call EXCEPT !.taken = Tail(@)]
    /\ UNCHANGED held

\* A panic unwinds the caller as well and drops its lockers.
Unwind(b) ==
    /\ call # Idle /\ outcome = "panic" /\ call.taken = << >>
    /\ held[b] # "none"
    /\ held' = [held EXCEPT ![b] = "none"]
    /\ Protect(b, "NoAccess")
    /\ UNCHANGED <<call, outcome>>

Return ==
    /\ call # Idle /\ outcome # "none" /\ call.taken = << >>
    /\ outcome = "panic" => \A b \in Buffers : held[b] = "none"
    /\ call' = Idle /\ outcome' = "none"
    /\ UNCHANGED <<p, mem, held>>

-----------------------------------------------------------------------------
(* The functions of SodiumCryptoSystem: the checks in their order, and the *)
(* lockers in the order they are taken.                                    *)

Optional == Plain \cup {NoBuffer}

randombytes_buf == \E b \in Plain : Begin("randombytes_buf", << >>, <<W(b)>>)

hash_sha256 ==
    \E hash, data \in Plain :
        Begin("hash_sha256", <<Size(hash, Bytes.sha256, "BadHashSize")>>, <<W(hash), R(data)>>)

hash_sha512 ==
    \E hash, data \in Plain :
        Begin("hash_sha512", <<Size(hash, Bytes.sha512, "BadHashSize")>>, <<W(hash), R(data)>>)

\* The key of a hash is optional.
KeySize(key) ==
    IF key = NoBuffer THEN Check(TRUE, "BadKeySize")
    ELSE SizeBetween(key, Bytes.keyMin, Bytes.keyMax, "BadKeySize")

generic_hash ==
    \E hash, data \in Plain, key \in Optional :
        Begin("generic_hash",
              <<SizeBetween(hash, Bytes.hashMin, Bytes.hashMax, "BadHashSize"), KeySize(key)>>,
              <<R(key), W(hash), R(data)>>)

pwhash ==
    \E hash, password, salt \in Plain :
        Begin("pwhash",
              <<Size(hash, Bytes.pwhash, "BadHashSize"), Size(salt, Bytes.salt, "BadSaltSize")>>,
              <<W(hash), R(password), R(salt)>>)

kdf ==
    \E out, context, parent \in Plain :
        Begin("kdf",
              <<SizeBetween(out, Bytes.kdfMin, Bytes.kdfMax, "BadOutBufferSize"),
                Size(parent, Bytes.kdfKey, "BadParentSize"),
                Size(context, Bytes.kdfContext, "BadContextSize")>>,
              <<W(out), R(context), R(parent)>>)

sign_seed_keypair ==
    \E seed, public, secret \in Plain :
        Begin("sign_seed_keypair",
              <<Size(seed, Bytes.seed, "BadSeedSize"),
                Size(public, Bytes.signPublic, "BadPublicKeySize"),
                Size(secret, Bytes.signSecret, "BadSecretKeySize")>>,
              <<W(public), W(secret), R(seed)>>)

sign_keypair ==
    \E public, secret \in Plain :
        Begin("sign_keypair",
              <<Size(public, Bytes.signPublic, "BadPublicKeySize"),
                Size(secret, Bytes.signSecret, "BadSecretKeySize")>>,
              <<W(public), W(secret)>>)

sign ==
    \E signature, message, secret \in Plain :
        Begin("sign",
              <<Size(signature, Bytes.signature, "BadSignatureSize"),
                Size(secret, Bytes.signSecret, "BadSecretKeySize")>>,
              <<R(message), R(secret), W(signature)>>)

\* sign_verify locks nothing: reading a SecureBuffer panics unless the caller
\* has made it readable.
Readable(b) == Check(b \in Tracked => p[b] # "NoAccess", "panic")

sign_verify ==
    \E signature, message, public \in Plain :
        /\ \A b \in {signature, message, public} : held[b] # "write"
        /\ Begin("sign_verify",
                 <<Size(signature, Bytes.signature, "BadSignatureSize"),
                   Size(public, Bytes.signPublic, "BadPublicKeySize"),
                   Readable(signature), Readable(message), Readable(public)>>,
                 << >>)

kx_seed_keypair ==
    \E seed, public, secret \in Plain :
        Begin("kx_seed_keypair",
              <<Size(seed, Bytes.seed, "BadSeedSize"),
                Size(public, Bytes.kxPublic, "BadPublicKeySize"),
                Size(secret, Bytes.kxSecret, "BadSecretKeySize")>>,
              <<W(public), W(secret), R(seed)>>)

kx_keypair ==
    \E public, secret \in Plain :
        Begin("kx_keypair",
              <<Size(public, Bytes.kxPublic, "BadPublicKeySize"),
                Size(secret, Bytes.kxSecret, "BadSecretKeySize")>>,
              <<W(public), W(secret)>>)

SessionChecks(rx, tx, public, secret, other) ==
    <<Size(rx, Bytes.session, "BadRxSessionKeySize"),
      Size(tx, Bytes.session, "BadTxSessionKeySize"),
      Size(public, Bytes.kxPublic, "BadPublicKeySize"),
      Size(secret, Bytes.kxSecret, "BadSecretKeySize"),
      Size(other, Bytes.kxPublic, "BadPublicKeySize")>>

kx_client_session_keys ==
    \E rx, tx, client_pk, client_sk, server_pk \in Plain :
        Begin("kx_client_session_keys", SessionChecks(rx, tx, client_pk, client_sk, server_pk),
              <<W(rx), W(tx), R(client_pk), R(client_sk), R(server_pk)>>)

kx_server_session_keys ==
    \E rx, tx, server_pk, server_sk, client_pk \in Plain :
        Begin("kx_server_session_keys", SessionChecks(rx, tx, server_pk, server_sk, client_pk),
              <<W(rx), W(tx), R(server_pk), R(server_sk), R(client_pk)>>)

aead_encrypt ==
    \E cipher, message, nonce, secret \in Plain, adata \in Optional :
        Begin("aead_encrypt",
              <<Size(cipher, Length[message] + Bytes.auth, "BadCipherSize"),
                Size(nonce, Bytes.nonce, "BadNonceSize"),
                Size(secret, Bytes.secret, "BadSecretKeySize")>>,
              <<R(adata), W(cipher), R(message), R(nonce), R(secret)>>)

\* Subtracting the tag from a shorter cipher panics in a debug build and wraps
\* to a length no buffer has in a release build.
aead_decrypt ==
    \E message, cipher, nonce, secret \in Plain, adata \in Optional, wraps \in BOOLEAN :
        /\ wraps => Length[cipher] < Bytes.auth
        /\ Begin("aead_decrypt",
                 <<Check(wraps \/ Length[cipher] >= Bytes.auth, "panic"),
                   Check(Length[cipher] = Length[message] + Bytes.auth, "BadMessageSize"),
                   Size(nonce, Bytes.nonce, "BadNonceSize"),
                   Size(secret, Bytes.secret, "BadSecretKeySize")>>,
                 <<R(adata), W(message), R(cipher), R(nonce), R(secret)>>)

\* Buffer::write and zero, and SecureBuffer::clone, whose copy is a new buffer.
write ==
    \E b \in Plain, over \in BOOLEAN :
        Begin("write", <<Check(~ over, "WriteOverflow")>>, <<W(b)>>)

clone == \E b \in Plain : b \in Tracked /\ Begin("clone", << >>, <<R(b)>>)

CryptoSystem ==
    \/ randombytes_buf \/ hash_sha256 \/ hash_sha512 \/ generic_hash \/ pwhash \/ kdf
    \/ sign_seed_keypair \/ sign_keypair \/ sign \/ sign_verify
    \/ kx_seed_keypair \/ kx_keypair \/ kx_client_session_keys \/ kx_server_session_keys
    \/ aead_encrypt \/ aead_decrypt \/ write \/ clone

-----------------------------------------------------------------------------
(* The functions on SecBuf.  Only kdf::derive and SecBuf::write look at a  *)
(* length; the others rely on the caller for it.                           *)

aead_enc ==
    \E message, secret, nonce, cipher \in SecBufs, adata \in SecBufs \cup {NoBuffer} :
        Begin("aead::enc", << >>, <<R(adata), W(cipher), R(message), R(nonce), R(secret)>>)

aead_dec ==
    \E message, secret, nonce, cipher \in SecBufs, adata \in SecBufs \cup {NoBuffer} :
        Begin("aead::dec", << >>, <<R(adata), W(message), R(cipher), R(nonce), R(secret)>>)

hash_sha == \E input, output \in SecBufs : Begin("hash::sha", << >>, <<R(input), W(output)>>)

Unlocked(b) == Check(p[b] = "NoAccess", "panic")

\* derive reads the lengths under lockers of their own, which it drops again.
kdf_derive ==
    \E out, context, parent \in SecBufs :
        Begin("kdf::derive",
              <<Unlocked(out), Unlocked(context),
                SizeBetween(out, Bytes.kdfMin, Bytes.kdfMax, "OutputLength"),
                Size(context, Bytes.kdfContext, "OutputLength")>>,
              <<W(out), R(parent), R(context)>>)

kx_secbuf_keypair == \E pk, sk \in SecBufs : Begin("kx::keypair", << >>, <<W(pk), W(sk)>>)

\* kx::seed_keypair; sign::seed_keypair takes the last two the other way round.
seed_keypair ==
    \E seed, pk, sk \in SecBufs : Begin("kx::seed_keypair", << >>, <<R(seed), W(pk), W(sk)>>)

client_session ==
    \E client_pk, client_sk, server_pk, rx, tx \in SecBufs :
        Begin("kx::session", << >>, <<W(rx), W(tx), R(client_sk), R(client_pk), R(server_pk)>>)

server_session ==
    \E server_pk, server_sk, client_pk, rx, tx \in SecBufs :
        Begin("kx::session", << >>, <<W(rx), W(tx), R(client_pk), R(server_sk), R(server_pk)>>)

pwhash_hash ==
    \E password, salt, hash \in SecBufs :
        Begin("pwhash::hash", << >>, <<R(salt), R(password), W(hash)>>)

sign_sign ==
    \E message, secret, signature \in SecBufs :
        Begin("sign::sign", << >>, <<R(message), R(secret), W(signature)>>)

sign_secbuf_verify ==
    \E signature, message, public \in SecBufs :
        Begin("sign::verify", << >>, <<R(signature), R(message), R(public)>>)

\* zero, is_zero, increment, randomize, from_array and write, and compare.
secbuf_util ==
    \/ \E b \in SecBufs, over \in BOOLEAN :
          Begin("secbuf_util", <<Check(~ over, "Generic")>>, <<W(b)>>)
    \/ \E a, b \in SecBufs : Begin("secbuf_util", << >>, <<W(a), W(b)>>)

SecBufFunctions ==
    \/ aead_enc \/ aead_dec \/ hash_sha \/ kdf_derive \/ kx_secbuf_keypair \/ seed_keypair
    \/ client_session \/ server_session \/ pwhash_hash \/ sign_sign \/ sign_secbuf_verify
    \/ secbuf_util

-----------------------------------------------------------------------------
Next ==
    \/ \E b \in Buffers : TakeLock(b, "read") \/ TakeLock(b, "write") \/ DropLock(b)
    \/ \E b \in SecBufs : ClonePartial(b)
    \/ call = Idle /\ (CryptoSystem \/ SecBufFunctions)
    \/ Lock \/ Sodium \/ Unlock \/ Return
    \/ \E b \in Buffers : Unwind(b)

Spec == Init /\ [][Next]_vars

-----------------------------------------------------------------------------
(* Properties.                                                             *)

TypeOK ==
    /\ p \in [Buffers -> ProtectState]
    /\ mem \in [Buffers -> ProtectState]
    /\ held \in [Buffers -> {"none", "read", "write"}]
    /\ \A b \in Buffers \ Tracked : p[b] = "NoAccess"
    /\ \A b \in Buffers \ Paged : mem[b] = "ReadWrite"

\* The lockers that exist, of the caller and of the running function.
Locked(b) == held[b] # "none" \/ (call # Idle /\ b \in Range(call.taken))

\* Whatever failed, panicked or was cloned before, a buffer is accessible only
\* while a locker on it exists, and a SecureBuffer records exactly the
\* protection of its pages (secure_buffer.rs:107-135, secbuf.rs:241-270).
NothingLeftOpen ==
    /\ TypeOK
    /\ \A b \in Tracked : p[b] # "NoAccess" <=> Locked(b)
    /\ \A b \in Paged : mem[b] # "NoAccess" => mem[b] = p[b]
    /\ \A b \in Buffers : Kind[b] = "SecureBuffer" => mem[b] = p[b]

\* A running function panics only where it locks a buffer that it was given
\* twice or that its caller has locked: no earlier call, failed or not, leaves a
\* lock behind for it to trip over (read_locker.rs:8-19), and dropping a locker
\* never panics, not even while another panic unwinds, which would abort the
\* process (secure_buffer.rs:107-110).
PanicsOnlyWhenShared ==
    [][call # Idle /\ outcome # "panic" /\ outcome' = "panic" =>
         /\ call.todo # << >>
         /\ LET b == Head(call.todo).buffer
            IN  held[b] # "none" \/ b \in Range(call.taken)]_vars

=============================================================================
