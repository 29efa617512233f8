-------------------------- MODULE MCClusterConfig --------------------------
(* Constants of the instance of ClusterConfig.                             *)
EXTENDS ClusterConfig

MCDnsNames == {"lab1"}
MCNames == {"lab1", "Lab_1"}
MCRegions == {"na1", "eu-central-1", ""}
MCRequestTypes == {"ocpv", "rhoai", "trial", "a type with blanks"}
MCLabelValues == (MCRequestTypes \ {"a type with blanks"}) \union {""}
MCVersions ==
  {Number(<<4, 20>>), [Number(<<4, 22, 3>>) EXCEPT !.padded = TRUE],
   Text("image", <<4, 21, 0>>, TRUE), Text("name", <<>>, TRUE)}

MCControlPlanes ==
  {Unset} \union [instanceType : {Unset, "m5.large"}, replicas : {Unset, 0, 5, 6}]
MCWorkerBlocks ==
  {Unset} \union [instanceType : {Unset, "m5.large"}, replicas : {Unset, 0, 101},
                  zones : {<<>>, <<<<"us-east-1", "f">>>>}]
MCNetworkings ==
  {Unset} \union [clusterNetworkCIDR : {Unset}, serviceNetworkCIDR : {""},
                  machineNetworkCIDR : {"10.4.0.0/16"}]
=============================================================================
