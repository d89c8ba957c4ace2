----------------------------- MODULE PrivacyGate -----------------------------
(* What may leave the machine (privacy/rules.py, privacy/secrets.py): the    *)
(* deterministic label of a note, and the gate before every external AI.     *)
(* A text is what the rules can tell of it: whether scan_secrets() finds a   *)
(* secret in it. A path is the globs of privacy.yaml that it matches.        *)

Labels == {"public", "internal", "personal", "sensitive", "secret"}
HardBlocked == {"personal", "sensitive", "secret"}

\* What front matter says of the label: nothing, a label, or a word that is none.
Declared == Labels \cup {"absent", "invalid"}
Paths == [blocked : BOOLEAN, allowed : BOOLEAN]

\* privacy.yaml as read, or the closed configuration when it cannot be read:
\* no globs, and everything sensitive.
Configs == {"read", "unreadable"}
DefaultLabel(config) == IF config = "read" THEN "internal" ELSE "sensitive"
PathLabel(config, path) ==
  IF config = "unreadable" THEN "sensitive"
  ELSE IF path.blocked THEN "sensitive"
  ELSE IF path.allowed THEN "public" ELSE DefaultLabel(config)

\* classify(): a label the note declares wins, a word that is no label closes
\* it, and else the path decides.
Classify(config, path, declared) ==
  IF declared = "absent" THEN PathLabel(config, path)
  ELSE IF declared = "invalid" THEN "sensitive" ELSE declared

\* gate(): "allowed", or why not. The label is looked at before the text.
Gate(label, externalOk, hasSecret) ==
  IF label \notin Labels THEN "unknown_label"
  ELSE IF label \in HardBlocked THEN "label_blocked"
  ELSE IF label = "internal" /\ ~externalOk THEN "internal_requires_external_ok"
  ELSE IF hasSecret THEN "secret_detected" ELSE "allowed"
===============================================================================
