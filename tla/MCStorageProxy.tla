--------------------------- MODULE MCStorageProxy ---------------------------
(* StorageProxy is checked as it stands.                                    *)
EXTENDS StorageProxy
=============================================================================
