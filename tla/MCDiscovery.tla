---------------------------- MODULE MCDiscovery ----------------------------
(* A taproot coin, a nested one and a p2wpkh one; the launches that go right and
   the ones that go wrong. *)
EXTENDS Discovery, TLC

CONSTANTS k1, k2, tap, nested, plain, alice, bob

MCChain == (tap :> ScriptOf("p2tr", k1)) @@ (nested :> ScriptOf("p2sh-p2wpkh", k2))
           @@ (plain :> ScriptOf("p2wpkh", k2))

Opt(wallet, outpoint, flag, shape, manual) ==
    [wallet |-> wallet, outpoint |-> outpoint, flag |-> flag, shape |-> shape,
     manual |-> manual]

\* A wallet of keys ks for the coin at o.
For(o, type, first, ks) ==
    FromDescriptor(type, first, ks, FALSE, MCChain[o])

MCOptions ==
    (alice :> { Opt(Generated("p2tr", k1, {k1, k2}), tap, "p2tr", "template", FALSE),
                Opt(For(tap, "p2tr", k1, {k1}), tap, "p2wpkh", "template", FALSE),
                Opt(For(tap, "p2tr", k1, {k1}), tap, "p2tr", "checksum", FALSE),
                Opt(For(tap, "p2tr", k2, {k2}), tap, "p2tr", "template", FALSE),
                Opt(For(tap, "p2tr", k1, {k1}), tap, "p2tr", "template", TRUE),
                Opt(For(plain, "p2wpkh", k1, {k1, k2}), plain, "p2wpkh", "template", TRUE),
                Opt(FromDescriptor("p2wpkh", k1, {k1}, TRUE, MCChain[plain]), plain,
                    "p2wpkh", "single", FALSE) })
    @@
    (bob :> { Opt(FromWif(k2), plain, "p2wpkh", "single", FALSE),
              Opt(FromWif(k1), tap, "p2wpkh", "single", FALSE),
              Opt(For(nested, "p2sh-p2wpkh", k1, {k1, k2}), nested, "p2sh-p2wpkh",
                  "template", TRUE),
              Opt(Generated("p2sh-p2wpkh", k2, {k1, k2}), nested, "p2sh-p2wpkh",
                  "template", FALSE),
              Opt(FromDescriptor("p2tr", k1, {k1}, TRUE, MCChain[tap]), tap, "p2tr",
                  "single", TRUE) })

Runs(release, allowed, output, fits) ==
    [release |-> release, bip |-> [allowed |-> allowed, output |-> output],
     fits |-> fits]

MCConfigs ==
    { Runs("v1.3", {"p2wpkh"}, "p2wpkh", TRUE),
      Runs("v1.4", ScriptTypes, "p2wpkh", TRUE),
      Runs("v1.4", {"p2tr", "p2sh-p2wpkh"}, "p2tr", TRUE),
      Runs("v1.4", ScriptTypes, "p2sh-p2wpkh", FALSE),
      Runs("v1.4", {"p2tr"}, "p2wpkh", TRUE) }

=============================================================================
