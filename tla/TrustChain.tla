------------------------------ MODULE TrustChain ------------------------------
(***************************************************************************)
(* The device certificate authority: the files of the pki directory, the   *)
(* command that rotates the intermediate, the processes that load the      *)
(* directory while it does, and the certificates tablets renew in time.    *)
(*                                                                         *)
(* A key is the serial of the certificate it was made for.  The root is    *)
(* serial 0 and outlives the model.  One command runs at a time, beside    *)
(* the server and its console page; a command may die between any two      *)
(* file operations.                                                        *)
(***************************************************************************)
EXTENDS Integers, FiniteSetsExt

CONSTANTS
    Holder,     \* tablets
    SameName,   \* whether intermediates are all given the name the command defaults to
    IssuerLife, \* --days
    DeviceLife, \* device_cert_validity_days
    Window,     \* device_cert_renew_within_days
    Margin,     \* ISSUER_EXPIRY_MARGIN
    MaxIssuers, \* bound: intermediates issued
    MaxTime,    \* bound
    MaxDeaths,  \* bound: commands that died
    NoFile

VARIABLES
    \* pki/
    rootKey, issuing, issuingKey, retired, bundle,
    command,    \* how far ca-issue-intermediate has got
    server,     \* the authority the server process has loaded and kept
    loader,     \* loader[p]: what p, loading the directory, has read
    \* tablets
    held,       \* held[h]: the certificate it presents
    heard,      \* those that have checked in since the clock moved
    today, deaths

files == <<rootKey, issuing, issuingKey, retired, bundle>>
fleet == <<held, heard>>
trustVars == <<files, command, server, loader, fleet, today, deaths>>

Certificate == [serial : Nat, name : Nat, until : Int]
Root == [serial |-> 0, name |-> 0, until |-> MaxTime + DeviceLife + Margin]
Processes == {"server", "console"}
Idle == [at |-> "idle"]

\* The files a moment of issue_intermediate or of a load finds.
Pair == issuing # NoFile /\ issuingKey # NoFile
Known == retired \cup (IF issuing = NoFile THEN {} ELSE {issuing})
\* A serial is random: no other certificate has it.
Unused == {s \in 1 .. MaxIssuers : \A c \in Known : c.serial # s}
NextSerial == CHOOSE s \in Unused : TRUE

Signed(by, key, until) == [name |-> by.name, key |-> key, by |-> by.serial, until |-> until]

Init ==
    /\ rootKey = TRUE /\ issuing = NoFile /\ issuingKey = NoFile
    /\ retired = {} /\ bundle = {Root}
    /\ command = "idle"
    /\ server = [cert |-> Root, key |-> 0, trusted |-> {Root}]
    /\ loader = [p \in Processes |-> Idle]
    /\ held = [h \in Holder |-> Signed(Root, 0, DeviceLife)]
    /\ heard = {} /\ today = 0 /\ deaths = 0

-----------------------------------------------------------------------------
(* ca-issue-intermediate                                                   *)

\* The root, the retired, and the one signing now.
TrustSet(signer) == {Root, signer} \cup retired

\* The previous intermediate's certificate is kept before anything is removed.
Retire ==
    /\ command = "idle" /\ rootKey /\ Unused # {}
    /\ retired' = Known
    /\ command' = IF issuing = NoFile THEN "sign" ELSE "unlink certificate"
    /\ UNCHANGED <<rootKey, issuing, issuingKey, bundle, server, loader, fleet, today, deaths>>

UnlinkCertificate ==
    /\ command = "unlink certificate"
    /\ issuing' = NoFile
    /\ command' = "unlink key"
    /\ UNCHANGED <<rootKey, issuingKey, retired, bundle, server, loader, fleet, today, deaths>>

UnlinkKey ==
    /\ command = "unlink key"
    /\ issuingKey' = NoFile
    /\ command' = "sign"
    /\ UNCHANGED <<rootKey, issuing, retired, bundle, server, loader, fleet, today, deaths>>

WriteCertificate ==
    /\ command = "sign"
    /\ issuing' = [serial |-> NextSerial, name |-> IF SameName THEN 1 ELSE NextSerial,
                   until |-> today + IssuerLife]
    /\ command' = "write key"
    /\ UNCHANGED <<rootKey, issuingKey, retired, bundle, server, loader, fleet, today, deaths>>

\* write_private refuses to write over a key: the command ends there, on the
\* key a command that died had left.
WriteKey ==
    /\ command = "write key"
    /\ IF issuingKey # NoFile
       THEN command' = "idle" /\ UNCHANGED issuingKey
       ELSE command' = "publish" /\ issuingKey' = issuing.serial
    /\ UNCHANGED <<rootKey, issuing, retired, bundle, server, loader, fleet, today, deaths>>

WriteBundle ==
    /\ command = "publish"
    /\ bundle' = TrustSet(issuing)
    /\ command' = "idle"
    /\ UNCHANGED <<rootKey, issuing, issuingKey, retired, server, loader, fleet, today, deaths>>

Die ==
    /\ command # "idle" /\ deaths < MaxDeaths
    /\ deaths' = deaths + 1
    /\ command' = "idle"
    /\ UNCHANGED <<files, server, loader, fleet, today>>

\* ca-delete-root: not before another pair loads; the load publishes the bundle.
DeleteRoot ==
    /\ command = "idle" /\ rootKey /\ Pair
    /\ bundle' = TrustSet(issuing)
    /\ rootKey' = FALSE
    /\ UNCHANGED <<issuing, issuingKey, retired, command, server, loader, fleet, today, deaths>>

\* The recovery file brought back.
RestoreRoot ==
    /\ command = "idle" /\ ~rootKey
    /\ rootKey' = TRUE
    /\ UNCHANGED <<issuing, issuingKey, retired, bundle, command, server, loader, fleet, today, deaths>>

-----------------------------------------------------------------------------
(* Loading the directory                                                   *)

\* The server, restarted, at its first request; the console, at its page.  The
\* console runs in the server's process and ends with it.
BeginLoad(p) ==
    /\ loader[p] = Idle
    /\ LET shape == IF Pair THEN [at |-> "read", cert |-> issuing]
                    ELSE IF rootKey THEN [at |-> "publish", cert |-> Root, key |-> 0,
                                          trusted |-> TrustSet(Root)]
                    ELSE Idle                       \* RootKeyMissing
       IN  IF p = "server" THEN /\ loader' = [loader EXCEPT !["server"] = shape,
                                                            !["console"] = Idle]
                                /\ server' = NoFile
           ELSE /\ server # NoFile
                /\ loader' = [loader EXCEPT ![p] = shape]
                /\ UNCHANGED server
    /\ UNCHANGED <<files, command, fleet, today, deaths>>

\* The key, then retired/.  A key gone since fails the load.
ReadKey(p) ==
    /\ loader[p].at = "read"
    /\ loader' = [loader EXCEPT ![p] =
                     IF issuingKey = NoFile THEN Idle
                     ELSE [at |-> "publish", cert |-> @.cert, key |-> issuingKey,
                           trusted |-> TrustSet(@.cert)]]
    /\ UNCHANGED <<files, command, server, fleet, today, deaths>>

EndLoad(p) ==
    /\ loader[p].at = "publish"
    /\ bundle' = loader[p].trusted
    /\ server' = IF p = "server" THEN [cert |-> loader[p].cert, key |-> loader[p].key,
                                       trusted |-> loader[p].trusted]
                 ELSE server
    /\ loader' = [loader EXCEPT ![p] = Idle]
    /\ UNCHANGED <<rootKey, issuing, issuingKey, retired, command, fleet, today, deaths>>

-----------------------------------------------------------------------------
(* Tablets                                                                 *)

\* verify takes the first certificate of the issuer's name, whose signature then
\* says whether it was the right one: the one signing now comes last, and the
\* retired in the order of their serials, which are random; here all of them.
IssuersOf(c) ==
    LET named == {i \in server.trusted : i.name = c.name}
    IN  IF named \subseteq {server.cert} THEN named ELSE named \ {server.cert}
Verifies(c) ==
    /\ today <= c.until /\ IssuersOf(c) # {}
    /\ \A i \in IssuersOf(c) : i.serial = c.key /\ today <= i.until

\* Whatever terminates TLS takes every certificate in the bundle for an issuer.
PassesTheEdge(c) == \E i \in bundle : i.serial = c.key
Accepted(c) == PassesTheEdge(c) /\ Verifies(c)

Uncapped(signer) == today + DeviceLife      \* mutant
CappedExpiry(signer) == Min({today + DeviceLife, signer.until - Margin})
CanSign == server # NoFile /\ today < server.cert.until - Margin

\* A tablet that is let in, and due, renews with whatever signs now.
Checkin(h) ==
    /\ server # NoFile
    /\ heard' = IF CanSign THEN heard \cup {h} ELSE heard
    /\ held' = IF Accepted(held[h]) /\ held[h].until - today <= Window /\ CanSign
               THEN [held EXCEPT ![h] = Signed(server.cert, server.key,
                                               CappedExpiry(server.cert))]
               ELSE held
    /\ UNCHANGED <<files, command, server, loader, today, deaths>>

\* Every tablet is heard at every instant by a server that can still sign: what
\* breaks is not for a tablet away too long, or an operator who came too late.
Tick ==
    /\ today < MaxTime /\ heard = Holder
    /\ today' = today + 1
    /\ heard' = {}
    /\ UNCHANGED <<files, command, server, loader, held, deaths>>

Next ==
    \/ Retire \/ UnlinkCertificate \/ UnlinkKey \/ WriteCertificate \/ WriteKey \/ WriteBundle
    \/ Die \/ DeleteRoot \/ RestoreRoot
    \/ \E p \in Processes : BeginLoad(p) \/ ReadKey(p) \/ EndLoad(p)
    \/ \E h \in Holder : Checkin(h)
    \/ Tick

Spec == Init /\ [][Next]_trustVars

-----------------------------------------------------------------------------
(* Properties                                                              *)

\* Signed with a key that is not the one of the certificate it names: the
\* directory was loaded halfway through a command, or after one that died
\* between its two unlinks.
Torn(c) == c.by # c.key

\* Rotating costs "a ceremony and nothing else" (ca._capped_expiry): a tablet
\* that keeps checking in is let in by the proxy and by the server, whenever the
\* intermediate was replaced, the server restarted, the page opened, or a
\* command died, unless the pair that signed it never belonged together.
RotationStrandsNobody ==
    server # NoFile => \A h \in Holder : Torn(held[h]) \/ Accepted(held[h])

=============================================================================
