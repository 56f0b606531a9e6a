------------------------------- MODULE Schema -------------------------------
(***************************************************************************)
(* The tables of the program as deletion sees them: which of their columns *)
(* and link tables refer to which table, and what the models ask Django to *)
(* do with a row when the row it refers to is deleted.                     *)
(*                                                                         *)
(* XColumns is the database's side, from the migrations: every reference   *)
(* is a foreign key the database checks.  XOnDelete is the program's side, *)
(* from the models: on_delete is carried out by Django and is unknown to   *)
(* the database.  "UNLINK" stands for a ManyToManyField, whose link rows   *)
(* go with either end.  All other columns are left out.                    *)
(***************************************************************************)
EXTENDS TLC

-----------------------------------------------------------------------------
(* The mixin of almost every model: who made and changed a row, and the    *)
(* department the row belongs to.                                          *)

AuditColumns == [creator |-> "UserInfo", modifier |-> "UserInfo", dept_belong |-> "DeptInfo"]

AuditOnDelete == [creator |-> "SET_NULL", modifier |-> "SET_NULL", dept_belong |-> "SET_NULL"]

-----------------------------------------------------------------------------
(* virt_center, as its migration creates it *)

PlatformColumns == AuditColumns
PlatformCredentialColumns == AuditColumns @@ [platform |-> "Platform"]
HostColumns == AuditColumns @@ [platform |-> "Platform"]
HostResourceColumns == [host |-> "Host"]
HostNetworkColumns == [host |-> "Host"]
HostMetricsColumns == [host |-> "Host"]
DataStoreColumns == AuditColumns @@ [platform |-> "Platform", hosts |-> "Host"]
StoragePolicyColumns ==
  AuditColumns @@ [platform |-> "Platform", compatible_datastores |-> "DataStore"]
VirtualMachineColumns == AuditColumns @@ [platform |-> "Platform", host |-> "Host"]
VMDiskColumns == [vm |-> "VirtualMachine"]
VMNetworkColumns == [vm |-> "VirtualMachine"]
VMMetricsColumns == [vm |-> "VirtualMachine"]
VMSnapshotColumns == AuditColumns @@ [vm |-> "VirtualMachine", parent |-> "VMSnapshot"]
VMTemplateColumns == AuditColumns @@ [platform |-> "Platform"]
OperationTaskColumns == AuditColumns @@ [platform |-> "Platform"]
VirtOperationLogColumns == [platform |-> "Platform", operator |-> "UserInfo"]

(* virt_center, as its models declare it *)

PlatformOnDelete == AuditOnDelete
PlatformCredentialOnDelete == AuditOnDelete @@ [platform |-> "CASCADE"]

HostOnDelete == AuditOnDelete @@ [platform |-> "CASCADE"]
HostResourceOnDelete == [host |-> "CASCADE"]
HostNetworkOnDelete == [host |-> "CASCADE"]
HostMetricsOnDelete == [host |-> "CASCADE"]
DataStoreOnDelete == AuditOnDelete @@ [platform |-> "CASCADE", hosts |-> "UNLINK"]
StoragePolicyOnDelete ==
  AuditOnDelete @@ [platform |-> "CASCADE", compatible_datastores |-> "UNLINK"]
VirtualMachineOnDelete == AuditOnDelete @@ [platform |-> "CASCADE", host |-> "SET_NULL"]
VMDiskOnDelete == [vm |-> "CASCADE"]
VMNetworkOnDelete == [vm |-> "CASCADE"]
VMMetricsOnDelete == [vm |-> "CASCADE"]
VMSnapshotOnDelete == AuditOnDelete @@ [vm |-> "CASCADE", parent |-> "CASCADE"]
VMTemplateOnDelete == AuditOnDelete @@ [platform |-> "CASCADE"]
OperationTaskOnDelete == AuditOnDelete @@ [platform |-> "CASCADE"]

VirtOperationLogOnDelete == [platform |-> "CASCADE", operator |-> "SET_NULL"]

-----------------------------------------------------------------------------
(* system *)

UserInfoColumns ==
  AuditColumns @@ [dept |-> "DeptInfo", roles |-> "UserRole", rules |-> "DataPermission"]
DeptInfoColumns ==
  AuditColumns @@ [parent |-> "DeptInfo", roles |-> "UserRole", rules |-> "DataPermission"]
DataPermissionColumns == AuditColumns @@ [menu |-> "Menu"]
UserRoleColumns == AuditColumns @@ [menu |-> "Menu"]
FieldPermissionColumns ==
  AuditColumns @@ [role |-> "UserRole", menu |-> "Menu", field |-> "ModelLabelField"]
ModelLabelFieldColumns == AuditColumns @@ [parent |-> "ModelLabelField"]
MenuMetaColumns == AuditColumns
MenuColumns ==
  AuditColumns @@ [parent |-> "Menu", meta |-> "MenuMeta", model |-> "ModelLabelField"]
SystemConfigColumns == AuditColumns
UserPersonalConfigColumns == AuditColumns @@ [owner |-> "UserInfo"]
UploadFileColumns == AuditColumns
UserLoginLogColumns == AuditColumns
OperationLogColumns == AuditColumns

UserInfoOnDelete ==
  AuditOnDelete @@ [dept |-> "PROTECT", roles |-> "UNLINK", rules |-> "UNLINK"]
DeptInfoOnDelete ==
  AuditOnDelete @@ [parent |-> "PROTECT", roles |-> "UNLINK", rules |-> "UNLINK"]
DataPermissionOnDelete == AuditOnDelete @@ [menu |-> "UNLINK"]
UserRoleOnDelete == AuditOnDelete @@ [menu |-> "UNLINK"]
FieldPermissionOnDelete ==
  AuditOnDelete @@ [role |-> "CASCADE", menu |-> "CASCADE", field |-> "UNLINK"]
ModelLabelFieldOnDelete == AuditOnDelete @@ [parent |-> "CASCADE"]
MenuMetaOnDelete == AuditOnDelete
MenuOnDelete ==
  AuditOnDelete @@ [parent |-> "SET_NULL", meta |-> "CASCADE", model |-> "UNLINK"]
SystemConfigOnDelete == AuditOnDelete
UserPersonalConfigOnDelete == AuditOnDelete @@ [owner |-> "CASCADE"]
UploadFileOnDelete == AuditOnDelete
UserLoginLogOnDelete == AuditOnDelete
OperationLogOnDelete == AuditOnDelete

-----------------------------------------------------------------------------
(* notifications and settings *)

MessageContentColumns ==
  AuditColumns @@ [file |-> "UploadFile", notice_dept |-> "DeptInfo", notice_role |-> "UserRole"]
MessageUserReadColumns == AuditColumns @@ [notice |-> "MessageContent", owner |-> "UserInfo"]
SystemMsgSubscriptionColumns == AuditColumns @@ [users |-> "UserInfo"]
UserMsgSubscriptionColumns == AuditColumns @@ [user |-> "UserInfo"]
SettingColumns == AuditColumns

MessageContentOnDelete ==
  AuditOnDelete @@ [file |-> "UNLINK", notice_dept |-> "UNLINK", notice_role |-> "UNLINK"]
MessageUserReadOnDelete == AuditOnDelete @@ [notice |-> "CASCADE", owner |-> "CASCADE"]
SystemMsgSubscriptionOnDelete == AuditOnDelete @@ [users |-> "UNLINK"]
UserMsgSubscriptionOnDelete == AuditOnDelete @@ [user |-> "CASCADE"]
SettingOnDelete == AuditOnDelete

-----------------------------------------------------------------------------

InfrastructureColumns ==
  [Platform |-> PlatformColumns, PlatformCredential |-> PlatformCredentialColumns,
   Host |-> HostColumns, HostResource |-> HostResourceColumns,
   HostNetwork |-> HostNetworkColumns, HostMetrics |-> HostMetricsColumns,
   DataStore |-> DataStoreColumns, StoragePolicy |-> StoragePolicyColumns,
   VirtualMachine |-> VirtualMachineColumns, VMDisk |-> VMDiskColumns,
   VMNetwork |-> VMNetworkColumns, VMMetrics |-> VMMetricsColumns,
   VMSnapshot |-> VMSnapshotColumns, VMTemplate |-> VMTemplateColumns,
   OperationTask |-> OperationTaskColumns, VirtOperationLog |-> VirtOperationLogColumns]

Infrastructure == DOMAIN InfrastructureColumns

AllColumns ==
  InfrastructureColumns @@
  [UserInfo |-> UserInfoColumns, DeptInfo |-> DeptInfoColumns,
   DataPermission |-> DataPermissionColumns, UserRole |-> UserRoleColumns,
   FieldPermission |-> FieldPermissionColumns, ModelLabelField |-> ModelLabelFieldColumns,
   MenuMeta |-> MenuMetaColumns, Menu |-> MenuColumns,
   SystemConfig |-> SystemConfigColumns, UserPersonalConfig |-> UserPersonalConfigColumns,
   UploadFile |-> UploadFileColumns, UserLoginLog |-> UserLoginLogColumns,
   OperationLog |-> OperationLogColumns, MessageContent |-> MessageContentColumns,
   MessageUserRead |-> MessageUserReadColumns,
   SystemMsgSubscription |-> SystemMsgSubscriptionColumns,
   UserMsgSubscription |-> UserMsgSubscriptionColumns, Setting |-> SettingColumns]

AllOnDelete ==
  [Platform |-> PlatformOnDelete, PlatformCredential |-> PlatformCredentialOnDelete,
   Host |-> HostOnDelete, HostResource |-> HostResourceOnDelete,
   HostNetwork |-> HostNetworkOnDelete, HostMetrics |-> HostMetricsOnDelete,
   DataStore |-> DataStoreOnDelete, StoragePolicy |-> StoragePolicyOnDelete,
   VirtualMachine |-> VirtualMachineOnDelete, VMDisk |-> VMDiskOnDelete,
   VMNetwork |-> VMNetworkOnDelete, VMMetrics |-> VMMetricsOnDelete,
   VMSnapshot |-> VMSnapshotOnDelete, VMTemplate |-> VMTemplateOnDelete,
   OperationTask |-> OperationTaskOnDelete, VirtOperationLog |-> VirtOperationLogOnDelete,
   UserInfo |-> UserInfoOnDelete, DeptInfo |-> DeptInfoOnDelete,
   DataPermission |-> DataPermissionOnDelete, UserRole |-> UserRoleOnDelete,
   FieldPermission |-> FieldPermissionOnDelete, ModelLabelField |-> ModelLabelFieldOnDelete,
   MenuMeta |-> MenuMetaOnDelete, Menu |-> MenuOnDelete,
   SystemConfig |-> SystemConfigOnDelete, UserPersonalConfig |-> UserPersonalConfigOnDelete,
   UploadFile |-> UploadFileOnDelete, UserLoginLog |-> UserLoginLogOnDelete,
   OperationLog |-> OperationLogOnDelete, MessageContent |-> MessageContentOnDelete,
   MessageUserRead |-> MessageUserReadOnDelete,
   SystemMsgSubscription |-> SystemMsgSubscriptionOnDelete,
   UserMsgSubscription |-> UserMsgSubscriptionOnDelete, Setting |-> SettingOnDelete]

(* The tables whose rows a view set lets a user delete. *)
Destroyable ==
  {"Platform", "UserInfo", "DeptInfo", "DataPermission", "UserRole", "ModelLabelField",
   "Menu", "SystemConfig", "UserPersonalConfig", "UploadFile", "UserLoginLog",
   "OperationLog", "MessageContent", "MessageUserRead", "Setting"}

(* The tables whose rows have a file of their own: an upload, an avatar.   *)
FiledTables == {"UploadFile", "UserInfo"}

=============================================================================
