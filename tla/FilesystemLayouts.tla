-------------------------- MODULE FilesystemLayouts --------------------------
(***************************************************************************)
(* Which filesystem layout a machine gets. A layout holds for some sizes   *)
(* and, per operating system, for a range of versions [op, version]. Of a  *)
(* version only its place in the order matters: they are natural numbers.  *)
(* The operators "~", "~>" and "^" are left out.                           *)
(***************************************************************************)
EXTENDS FiniteSets, Integers

Satisfies(v, range) ==
    CASE range.op = "*"  -> TRUE
      [] range.op = "="  -> v = range.version
      [] range.op = "!=" -> v # range.version
      [] range.op = ">"  -> v > range.version
      [] range.op = ">=" -> v >= range.version
      [] range.op = "<"  -> v < range.version
      [] range.op = "<=" -> v <= range.version

\* Two ranges collide when each holds for the version the other one names; equal ranges are not
\* compared, unless they are wildcards.
NoWildcard(r, q) ==   \* mutant of RangesCollide
    r # q /\ "*" \notin {r.op, q.op} /\ Satisfies(q.version, r) /\ Satisfies(r.version, q)
RangesCollide(r, q) ==
    \/ r.op = "*" \/ q.op = "*"
    \/ r # q /\ Satisfies(q.version, r) /\ Satisfies(r.version, q)

\* FilesystemLayouts.Validate, for two of the layouts in the table.
LayoutsCollide(l, k) ==
    \E s \in l.sizes \cap k.sizes, os \in DOMAIN l.images \cap DOMAIN k.images :
        RangesCollide(l.images[os], k.images[os])

LayoutFor(l, size, os, version) ==
    size \in l.sizes /\ os \in DOMAIN l.images /\ Satisfies(version, l.images[os])
=============================================================================
