----------------------------- MODULE MCDiscovery -----------------------------
(* Small instances of Discovery for TLC. *)
EXTENDS Discovery

\* One user of cluster h1 by password, with and without a cache path; the same
\* user with another, rejected, password; an API token on cluster h2.
PasswordH1 == [host |-> "h1", user |-> "root", kind |-> "password",
               secret |-> "pw1", cache |-> TRUE]
NoCacheH1 == [PasswordH1 EXCEPT !.cache = FALSE]
WrongPasswordH1 == [PasswordH1 EXCEPT !.secret = "pw2"]
TokenH2 == [host |-> "h2", user |-> "root!t", kind |-> "token",
            secret |-> "t1", cache |-> TRUE]

AllConfigs == {PasswordH1, NoCacheH1, WrongPasswordH1, TokenH2}
AcceptedConfigs == AllConfigs \ {WrongPasswordH1}
CachedH1 == {PasswordH1}
CachingConfigs == AllConfigs \ {NoCacheH1}
AcceptedCaching == CachingConfigs \ {WrongPasswordH1}

ReadFaults == {"read"}
SaveFaults == {"save"}
AllFaults == {"save", "read", "stat"}
=============================================================================
