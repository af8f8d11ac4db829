----------------------------- MODULE MCSampling -----------------------------
(* Model-checking instance of Sampling. *)
EXTENDS Sampling

(* A host at every limit of the protocol, with one family changed. *)
Full == [batteries |-> 16, containers |-> 256, cores |-> 1024, filesystems |-> 64, gpus |-> 16,
         ports |-> 128, sensors |-> 256, services |-> 512, storage |-> 64, large |-> FALSE]

MCInventories ==
    {Full, [Full EXCEPT !.large = TRUE], [Full EXCEPT !.ports = 129], [Full EXCEPT !.cores = 1025],
     [Full EXCEPT !.filesystems = 65], [Full EXCEPT !.filesystems = 513],
     [f \in DOMAIN Full |-> IF f \in {"large", "ports", "cores", "filesystems"} THEN Full[f]
                            ELSE Full[f] + 1]}
=============================================================================
