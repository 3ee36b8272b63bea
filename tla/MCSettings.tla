----------------------------- MODULE MCSettings -----------------------------
(* Constants for model-checking Settings.                                   *)
EXTENDS Settings, TLC

CONSTANTS root, middle, low, device, own, stranger

Texts == {"30", "-1", "1h", "99999999999999999999", "2", "tcp", "tcp-tls",
          "0.0.0.0:5684", ":5683", "crt", "key", "ca", "ca=old", "middles", "none"}

\* Words multiply as integers do, below the bound of TLC's own.
ASSUME ProductAssumption ==
  \A a, b \in {-30000, -256, -1, 0, 1, 2, 255, 256, 65535} :
    (a # 65535 \/ b # 65535) => Times(WordOf(a), WordOf(b)) = WordOf(a * b)

\* The wait of run() with the default time.Hour: 2884905626637434880 nanoseconds, the
\* lowest byte first, which is 91 years.
ASSUME DefaultWaitAssumption ==
  LET bytes == <<0, 0, 64, 238, 97, 62, 9, 40>>
  IN  Wait(Hour) = [i \in 0..7 |-> bytes[i + 1]]

\* "1h" is no number; Atoi returns the largest int64 for one that is too large.
Numbers ==
  ("30" :> WordOf(30)) @@ ("2" :> WordOf(2))
  @@ ("-1" :> WordOf(-1))
  @@ ("99999999999999999999" :> [i \in 0..7 |-> IF i = 7 THEN 127 ELSE 255])

BeforeEquals == [t \in Texts |-> IF t = "ca=old" THEN "ca" ELSE t]

\* root issued middle, which issued low, which issued the device's certificate.
\* own is issued by itself and no authority; stranger's is in no directory.
Subjects == [c \in Cert |-> c]
Issuers == (root :> root) @@ (middle :> root) @@ (low :> middle)
           @@ (device :> low) @@ (own :> own) @@ (stranger :> stranger)

Pools == ("ca" :> {root, middle, low, own}) @@ ("middles" :> {middle, low})

\* Each key set to one of a few values, or not set.
OneOf(k, S) == {<<>>} \cup {k :> t : t \in S}
Environments ==
  {a @@ b @@ c @@ d @@ e @@ f :
     a \in OneOf("KEEPALIVE_TIME", {"30", "99999999999999999999"}),
     b \in OneOf("KEEPALIVE_INTERVAL", {"-1"}),
     c \in OneOf("KEEPALIVE_RETRY", {"2", "1h"}),
     d \in OneOf("NETWORK", {"tcp-tls"}),
     e \in OneOf("ADDRESS", {":5683"}),
     f \in OneOf("TLS_CA_POOL", {"ca"})}
  \cup
  {a @@ ("NETWORK" :> "tcp-tls") @@ ("TLS_CA_POOL" :> t)
     @@ ("TLS_CERTIFICATE" :> "crt") @@ ("TLS_CERTIFICATE_KEY" :> "key") :
     a \in OneOf("KEEPALIVE_TIME", {"30"}), t \in {"ca=old", "middles", "none"}}
=============================================================================
