---------------------------- MODULE MCScanEvidence ----------------------------
EXTENDS ScanEvidence
MCModels == {"m1", "m2"}
MCWatched == "m1"
MCArtifacts == {"aggregation"}
MCRank == [e \in MCModels \union MCArtifacts |->
            CASE e = "m1" -> 1 [] e = "m2" -> 2 [] OTHER -> 3]
=============================================================================
